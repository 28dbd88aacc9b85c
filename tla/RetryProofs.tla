----------------------------- MODULE RetryProofs -----------------------------
(***************************************************************************)
(* ddgl retry, for every command line, every number of jobs, pages and     *)
(* tasks and whatever the caches have: what it has GitLab retry, what its  *)
(* exit code says of that, and that it misses no failure.                  *)
(*                                                                         *)
(* The cached statuses may be old, but a final one is still the job's      *)
(* (ReadOK); so what was selected by one is what the command line asks for *)
(* (MintsOK).  While nobody but GitLab's users retries jobs, a failed job  *)
(* leaves the listing only when it is retried, and is not moved to a page  *)
(* that has been read already (DueOK, ListingOK); what was selected once   *)
(* is then in one task, and each accepted retry is of a task (MintsOK).    *)
(***************************************************************************)
EXTENDS RetryCommand, GitLabProofs, WellFoundedInduction

-----------------------------------------------------------------------------
(* The inductive invariant.                                                *)

\* A status somebody read of a job: a final one is still the job's.
Tells(r, st) == r \in DOMAIN recs /\ (st \in JobFinal => recs[r].status = st)

OnePerId(rows) == \A e, f \in rows : e.id = f.id => e = f
Bounded(rows) == \E n \in Nat : \A e \in rows : e.page <= n

\* What a cache has, and what some rows and the pages of a listing say.
CacheTells(cache) == \A r \in DOMAIN cache : cache[r] \in JobStatus /\ Tells(r, cache[r])
RowsTell(rows) ==
    /\ rows \subseteq Entry /\ IsFiniteSet(rows) /\ Bounded(rows)
    /\ \A e \in rows : Tells(e.id, e.st)
PagesTell(pages) == \A k \in DOMAIN pages : RowsTell(pages[k]) /\ OnePerId(pages[k])

\* What the caches have and what has been read is so.
ReadOK ==
    /\ CacheTells(objects) /\ CacheTells(responses)
    /\ PagesTell(listing) /\ RowsTell(found)
    /\ \A i \in DOMAIN opts.ids : opts.ids[i] \in DOMAIN recs

\* What goes with where the command is.
PhaseOK ==
    /\ phase \notin {"posting", "over"} => DOMAIN batch = {} /\ bulk = "none" /\ ~confirmed
    /\ Targeted => bulk = "none"
    /\ ~Targeted => /\ DOMAIN batch = {} /\ found = {}
                    /\ phase \notin {"listing", "fetching", "previewed"}
    /\ phase = "posting" => IF Targeted THEN DOMAIN batch = found ELSE bulk # "none"
    /\ phase = "confirming bulk" => ~Targeted
    /\ Prompted => ~opts.yes

StartOK == phase = "start" => found = {} /\ ~usedCache /\ page = 1 /\ ~shifted

\* Each position of --job gets the row of the job that is given there.
FetchingOK ==
    phase = "fetching" =>
        /\ opts.mode = "ids"
        /\ \A e \in found : e.page \in DOMAIN opts.ids /\ e.id = opts.ids[e.page]
        /\ \A i \in DOMAIN requests : requests[i] = "answered" => opts.ids[i] \in Ids(found)
        /\ ~usedCache => DOMAIN requests = DOMAIN opts.ids

\* As many rows of S are newer than r as there are on the pages read so far.
Rank(S, r) == Cardinality({s \in S : s > r})
IsAhead(S, r) == Rank(S, r) >= PageSize * (page - 1)

\* What is found is on the pages read so far, and of the jobs that had failed
\* each one that is not found is ahead, or has been retried.
ListingOK ==
    phase = "listing" =>
        /\ opts.mode = "filter" /\ page # 1
        /\ \A e \in found : Passes(e)
        /\ ~shifted => OnePerId(found) /\ \A e \in found : ~IsAhead(scope, e.id)
        /\ ~usedCache => \A r \in due :
              AskedFor(r) /\ Again(r) = {} /\ r \notin Ids(found) =>
                 IF opts.failedOnly THEN shifted \/ (r \in scope /\ IsAhead(scope, r))
                 ELSE IsAhead(Live(recs, 1), r)

\* Of a POST that was accepted the client knows, or was told otherwise.
Written(ph) == ph \in {"accepted", "new"} \/ (ph = "error" /\ ~Truthful)

\* The retries GitLab has accepted, and the tasks they are from.
MintsOK ==
    /\ Minted # {} \/ DOMAIN batch # {} \/ bulk # "none" => opts.yes \/ confirmed
    /\ SelectedOnce => \A r, s \in Minted : recs[r].of = recs[s].of => r = s
    /\ \A r \in Minted : recs[r].of \in DOMAIN recs /\ AskedFor(recs[r].of)
    /\ \A r \in Minted : IF Targeted
          THEN \E e \in DOMAIN batch : e.id = recs[r].of /\ Written(batch[e])
          ELSE Written(bulk)
    /\ \A e \in DOMAIN batch :
          batch[e] \in {"accepted", "new"} => \E r \in Minted : recs[r].of = e.id
    /\ phase = "previewed" \/ DOMAIN batch # {} =>
          /\ \A e \in found : AskedFor(e.id)
          /\ SelectedOnce => OnePerId(found)

NothingPosted == Minted = {} /\ DOMAIN batch = {} /\ bulk = "none"

\* What an exit code stands for.
ExitOK ==
    /\ exit = 0 => IF Targeted THEN \A e \in found : e \in DOMAIN batch /\ batch[e] = "new"
                   ELSE bulk = "new"
    /\ exit = 1 => \/ NothingPosted /\ ~opts.yes /\ ~confirmed
                   \/ bulk = "error"
                   \/ \E e \in DOMAIN batch : batch[e] = "error"
    /\ exit = 2 => \/ NothingPosted
                   \/ raised = "transport"
                   \/ /\ raised = "config"
                      /\ bulk = "refused" \/ \E e \in DOMAIN batch : batch[e] = "refused"

\* The jobs that had failed: until something is retried, each is in the list or
\* has a successor; then it is among what was found, if the reader can tell.
DueOK ==
    /\ \A r \in due : r \in DOMAIN recs /\ recs[r].status = "failed"
    /\ Minted = {} =>
          /\ \A r \in DOMAIN recs : recs[r].seen /\ recs[r].pipe = 1
          /\ \A r \in due : Again(r) # {} \/ r \in Live(recs, 1)
    /\ phase \in {"listing", "fetching"} /\ ~usedCache =>
          \A e \in found : e.id \in due => e.st = "failed"
    /\ Targeted /\ ~usedCache /\ (opts.failedOnly => ~shifted)
          /\ (phase \in {"previewed", "posting"} \/ exit = 0) =>
          \A r \in due : AskedFor(r) => Again(r) # {} \/ r \in Ids(found)
    /\ bulk \in {"accepted", "new"} => \A r \in due : Again(r) # {}

WayOK == StartOK /\ FetchingOK /\ ListingOK
RetryInv == TypeOK /\ ReadOK /\ PhaseOK /\ WayOK /\ MintsOK /\ ExitOK /\ DueOK

-----------------------------------------------------------------------------
(* The records.                                                            *)

\* A step that leaves the records alone.
LEMMA SameRecords ==
  ASSUME recs' = recs, opts' = opts
  PROVE  /\ Minted' = Minted /\ Live(recs', 1) = Live(recs, 1)
         /\ \A r : Again(r)' = Again(r)
         /\ \A r : AskedFor(r)' <=> AskedFor(r)
         /\ \A r, st : Tells(r, st)' <=> Tells(r, st)
         /\ Targeted' <=> Targeted
  BY DEF Minted, Again, AskedFor, Tells, Targeted

\* What was asked for stays asked for, and what was read stays true.
LEMMA StaysTrue ==
  ASSUME RecordsStay, FinalStays, opts' = opts, NEW r
  PROVE  /\ r \in DOMAIN recs /\ AskedFor(r) => AskedFor(r)'
         /\ r \in DOMAIN recs /\ recs[r].status = "failed" =>
                recs'[r].status = "failed" /\ (AskedFor(r)' => AskedFor(r))
         /\ \A st : Tells(r, st) => Tells(r, st)'
         /\ \A s \in Again(r) : s \in Again(r)'
         /\ Targeted' <=> Targeted
<1>1. ASSUME r \in DOMAIN recs, AskedFor(r) PROVE AskedFor(r)'
  <2>1. recs'[r].name = recs[r].name
    BY <1>1 DEF RecordsStay
  <2>2. recs[r].status \in Retryable => recs'[r].status = recs[r].status
    BY <1>1 DEF FinalStays, Retryable
  <2>3. recs[r].status = "failed" => recs'[r].status = recs[r].status
    BY <1>1 DEF FinalStays
  <2>4. QED  BY <1>1, <2>1, <2>2, <2>3 DEF AskedFor
<1>2. ASSUME r \in DOMAIN recs, recs[r].status = "failed"
      PROVE  recs'[r].status = "failed" /\ (AskedFor(r)' => AskedFor(r))
  <2>1. recs'[r].name = recs[r].name /\ recs'[r].status = recs[r].status
    BY <1>2 DEF RecordsStay, FinalStays
  <2>2. QED  BY <1>2, <2>1 DEF AskedFor
<1>3. \A st : Tells(r, st) => Tells(r, st)'
  BY DEF Tells, RecordsStay, FinalStays, JobFinal
<1>4. \A s \in Again(r) : s \in Again(r)'
  BY DEF Again, RecordsStay
<1>5. Targeted' <=> Targeted
  BY DEF Targeted
<1>6. QED  BY <1>1, <1>2, <1>3, <1>4, <1>5

\* The records are those of a sequence.
LEMMA RecordsAre ==
  ASSUME GitLabTypeOK
  PROVE  /\ Len(recs) \in Nat /\ DOMAIN recs = 1 .. Len(recs)
         /\ \A r \in DOMAIN recs : recs[r] \in Record
  BY LenProperties, ElementOfSeq DEF GitLabTypeOK

\* A job that finishes, and one whose record is shown, are the jobs they were.
LEMMA PublishStays ==
  ASSUME GitLabTypeOK, NEW r \in DOMAIN recs, Publish(r)
  PROVE  /\ FinalStays /\ DOMAIN recs' = DOMAIN recs
         /\ ~recs[r].seen
<1>1. recs' = [recs EXCEPT ![r].seen = TRUE] /\ ~recs[r].seen
  BY DEF Publish, Change
<1>2. \A q \in DOMAIN recs : recs'[q].status = recs[q].status
  BY <1>1, RecordsAre DEF Record
<1>3. QED  BY <1>1, <1>2 DEF FinalStays

\* GitLab on its own: no record is ours that was not, final statuses stay, and
\* while every record is shown a job leaves the list for its successor only.
LEMMA GitLabGoesOn ==
  ASSUME GitLabTypeOK, NEW r \in DOMAIN recs, JobFinishes(r) \/ OtherRetry(r) \/ Publish(r)
  PROVE  /\ GitLabTypeOK' /\ RecordsStay /\ FinalStays
         /\ \A q \in DOMAIN recs' \ DOMAIN recs : recs'[q].by = 0
         /\ (\A q \in DOMAIN recs : recs[q].seen /\ recs[q].pipe = 1) =>
               /\ \A q \in DOMAIN recs' : recs'[q].seen /\ recs'[q].pipe = 1
               /\ \A q \in Live(recs, 1) : q \in Live(recs', 1) \/ Again(q)' # {}
<1>1. GitLabNext
  BY DEF GitLabNext
<1>2. /\ GitLabTypeOK' /\ RecordsStay
      /\ \A q \in DOMAIN recs' \ DOMAIN recs : recs'[q].by = 0 /\ recs'[q].seen
  BY <1>1, ServerRecords DEF AddedIsOthers
<1>3. CASE JobFinishes(r)
  <2>1. FinalStays /\ DOMAIN recs' = DOMAIN recs
    BY <1>3, FinishIs DEF FinalStays
  <2>2. Live(recs', 1) = Live(recs, 1)
    BY <1>3, FinishLive
  <2>3. QED  BY <1>2, <2>1, <2>2 DEF RecordsStay
<1>4. CASE OtherRetry(r)
  <2> DEFINE n == Len(recs) + 1
             rec == NewRecord(recs[r].pipe, recs[r].name, 0, r, TRUE)
  <2>1. rec \in Record /\ rec.of = r /\ rec.pipe = recs[r].pipe
    <3>1. r \in Nat /\ recs[r].pipe \in Nat \ {0} /\ recs[r].name \in Name
      BY RecordsAre DEF Record
    <3>2. QED  BY <3>1, NewRecordType DEF NewRecord
  <2>2. Change(Append(recs, rec))
    BY <1>4 DEF OtherRetry
  <2> HIDE DEF rec
  <2>3. /\ DOMAIN recs' = DOMAIN recs \cup {n} /\ n \notin DOMAIN recs
        /\ \A q \in DOMAIN recs : recs'[q] = recs[q]
        /\ recs'[n] = rec
    BY <2>1, <2>2, AppendKeeps
  <2>4. recs'[n].of = r /\ recs'[n].pipe = recs[r].pipe
    BY <2>3, <2>1
  <2>5. Live(recs', 1) = IF 1 = recs[r].pipe THEN (Live(recs, 1) \ {r}) \cup {n}
                         ELSE Live(recs, 1)
    BY <1>4, OtherRetryLive
  <2>6. n \in Again(r)'
    BY <2>3, <2>4 DEF Again
  <2>7. \A q \in Live(recs, 1) : q \in Live(recs', 1) \/ Again(q)' # {}
    BY <2>5, <2>6
  <2>8. FinalStays
    BY <2>3 DEF FinalStays
  <2>9. ASSUME \A q \in DOMAIN recs : recs[q].seen /\ recs[q].pipe = 1
        PROVE  \A q \in DOMAIN recs' : recs'[q].seen /\ recs'[q].pipe = 1
    BY <1>2, <2>3, <2>4, <2>9
  <2>10. QED  BY <1>2, <2>7, <2>8, <2>9
<1>5. CASE Publish(r)
  <2>1. FinalStays /\ DOMAIN recs' = DOMAIN recs /\ ~recs[r].seen
    BY <1>5, PublishStays
  <2>2. QED  BY <1>2, <2>1
<1>6. QED  BY <1>3, <1>4, <1>5

\* The retries of the command are those GitLab has accepted of it.
LEMMA MintedStays ==
  ASSUME RecordsStay, \A q \in DOMAIN recs' \ DOMAIN recs : recs'[q].by # 1
  PROVE  /\ Minted' = Minted
         /\ \A r \in Minted : r \in DOMAIN recs /\ recs'[r].of = recs[r].of
  BY DEF Minted, RecordsStay

-----------------------------------------------------------------------------
(* The rows, and the caches.                                               *)

\* Of the rows of a job there is one that was read last.
LEMMA LastRowIs ==
  ASSUME NEW rows, rows \subseteq Entry, Bounded(rows), NEW r \in Ids(rows)
  PROVE  LastRow(rows, r) \in rows /\ LastRow(rows, r).id = r
<1>1. PICK n \in Nat : \A e \in rows : e.page <= n
  BY DEF Bounded
<1> DEFINE mine == {e \in rows : e.id = r}
           T == {n - e.page : e \in mine}
<1>2. \A e \in rows : e.page \in Nat /\ n - e.page \in Nat
  BY <1>1 DEF Entry
<1>3. T \in SUBSET Nat /\ T # {}
  <2>1. mine # {}
    BY DEF Ids
  <2>2. QED  BY <1>2, <2>1
<1> HIDE DEF T
<1>4. PICK t \in T : \A u \in T : ~(<<u, t>> \in OpToRel(<, Nat))
  BY <1>3, NatLessThanWellFounded, WFMin
<1>5. \A u \in T : ~(u < t)
  BY <1>3, <1>4 DEF OpToRel
<1>6. PICK e \in mine : t = n - e.page
  BY DEF T
<1>7. \A f \in rows : f.id = r => f.page <= e.page
  <2> SUFFICES ASSUME NEW f \in rows, f.id = r PROVE f.page <= e.page
    OBVIOUS
  <2>1. n - f.page \in T
    BY DEF T
  <2>2. ~(n - f.page < n - e.page)
    BY <1>5, <1>6, <2>1
  <2>3. QED  BY <1>2, <2>2
<1>8. QED  BY <1>6, <1>7 DEF LastRow

\* Some of the rows tell what all of them tell, and the rows of two sets too.
LEMMA SomeRowsTell ==
  ASSUME NEW rows, RowsTell(rows), NEW some \in SUBSET rows
  PROVE  RowsTell(some) /\ (OnePerId(rows) => OnePerId(some))
<1>1. IsFiniteSet(some)
  BY FS_Subset DEF RowsTell
<1>2. QED  BY <1>1 DEF RowsTell, OnePerId, Bounded

LEMMA MoreRowsTell ==
  ASSUME NEW rows, RowsTell(rows), NEW more, RowsTell(more)
  PROVE  RowsTell(rows \cup more)
<1>1. IsFiniteSet(rows \cup more)
  BY FS_Union DEF RowsTell
<1>2. PICK n \in Nat : \A e \in rows : e.page <= n
  BY DEF RowsTell, Bounded
<1>3. PICK m \in Nat : \A e \in more : e.page <= m
  BY DEF RowsTell, Bounded
<1>4. \A e \in rows \cup more : e.page <= n + m
  BY <1>2, <1>3 DEF RowsTell, Entry
<1>5. Bounded(rows \cup more)
  BY <1>4 DEF Bounded
<1>6. QED  BY <1>1, <1>5 DEF RowsTell

\* Rows that are put into a cache, and what it had before.
LEMMA PutTells ==
  ASSUME NEW cache, NEW rows, RowsTell(rows), CacheTells(cache)
  PROVE  CacheTells(Put(cache, rows))
<1> SUFFICES ASSUME NEW r \in DOMAIN Put(cache, rows)
             PROVE  Put(cache, rows)[r] \in JobStatus /\ Tells(r, Put(cache, rows)[r])
  BY DEF CacheTells
<1>1. r \in DOMAIN cache \cup Ids(rows)
  BY DEF Put
<1>2. CASE r \in Ids(rows)
  <2>1. PICK e : e = LastRow(rows, r)
    OBVIOUS
  <2>2. e \in rows /\ e.id = r
    BY <1>2, <2>1, LastRowIs DEF RowsTell
  <2>3. Put(cache, rows)[r] = e.st
    BY <1>1, <1>2, <2>1 DEF Put
  <2>4. e.st \in JobStatus /\ Tells(r, e.st)
    BY <2>2 DEF Entry, RowsTell
  <2>5. QED  BY <2>3, <2>4
<1>3. CASE r \notin Ids(rows)
  <2>1. r \in DOMAIN cache /\ Put(cache, rows)[r] = cache[r]
    BY <1>1, <1>3 DEF Put
  <2>2. QED  BY <2>1 DEF CacheTells
<1>4. QED  BY <1>2, <1>3

\* The object cache after the ended jobs of some rows are stored.
LEMMA StoringTells ==
  ASSUME CacheTells(objects), NEW rows, RowsTell(rows), cache_terminal_jobs(rows)
  PROVE  CacheTells(objects')
<1>1. PICK kept \in SUBSET rows : objects' = Put(objects, kept)
  <2>1. PICK skipped \in SUBSET {e \in rows : e.st = "active"} :
           objects' = Put(objects, {e \in rows : e.st \in JobFinal} \cup skipped)
    BY DEF cache_terminal_jobs
  <2>2. {e \in rows : e.st \in JobFinal} \cup skipped \in SUBSET rows
    OBVIOUS
  <2>3. QED  BY <2>1, <2>2
<1>2. QED  BY <1>1, PutTells, SomeRowsTell

\* A page that GitLab answers: rows, one for each job on it, which tell its status.
LEMMA PageTells ==
  ASSUME GitLabTypeOK, NEW k \in Nat \ {0}
  PROVE  /\ RowsTell(Rows(recs, PageRows(k), k)) /\ OnePerId(Rows(recs, PageRows(k), k))
         /\ \A e \in Rows(recs, PageRows(k), k) :
               e.id \in PageRows(k) /\ e.st = recs[e.id].status
         /\ \A r \in PageRows(k) : \E e \in Rows(recs, PageRows(k), k) :
               e.id = r /\ e.st = recs[r].status
<1>1. PageRows(k) \in SUBSET DOMAIN recs
  BY DEF PageRows, InScope, Live, Attempts
<1>2. PICK S : S = PageRows(k)
  OBVIOUS
<1>3. PICK rows : rows = Rows(recs, S, k)
  OBVIOUS
<1>4. rows \subseteq Entry /\ IsFiniteSet(rows)
  BY <1>1, <1>2, <1>3, RowsProperties
<1>5. \A e \in rows : e.id \in S /\ e.st = recs[e.id].status /\ e.page = k
  BY <1>3 DEF Rows
<1>6. OnePerId(rows)
  BY <1>3 DEF Rows, OnePerId
<1>7. ASSUME NEW r \in S
      PROVE  \E e \in rows : e.id = r /\ e.st = recs[r].status
  <2>1. [id |-> r, st |-> recs[r].status, page |-> k] \in rows
    BY <1>3 DEF Rows
  <2>2. QED  BY <2>1
<1>8. Bounded(rows)
  BY <1>5 DEF Bounded
<1>9. RowsTell(rows)
  BY <1>1, <1>2, <1>4, <1>5, <1>8 DEF RowsTell, Tells
<1>10. QED  BY <1>2, <1>3, <1>5, <1>6, <1>7, <1>9

\* A page more that is stored.
LEMMA StoreTells ==
  ASSUME PagesTell(listing), NEW k, NEW rows, RowsTell(rows), OnePerId(rows)
  PROVE  PagesTell(StorePage(k, rows))
  BY DEF PagesTell, StorePage

\* The row of a job that was given by its id.
LEMMA RowTells ==
  ASSUME GitLabTypeOK, opts \in OptionSets, NEW i \in DOMAIN opts.ids,
         opts.ids[i] \in DOMAIN recs, NEW st \in JobStatus, Tells(opts.ids[i], st)
  PROVE  /\ RowsTell({Row(i, st)})
         /\ Row(i, st).id = opts.ids[i] /\ Row(i, st).st = st /\ Row(i, st).page = i
<1>1. i \in Nat \ {0} /\ opts.ids[i] \in Nat \ {0}
  <2>1. opts.ids \in Seq(1 .. Len(JobNames))
    BY OptionsAssumption DEF Options
  <2>2. DOMAIN opts.ids = 1 .. Len(opts.ids) /\ Len(opts.ids) \in Nat
    BY <2>1, LenProperties
  <2>3. QED  BY <2>2, RecordsAre
<1>2. PICK row : row = Row(i, st)
  OBVIOUS
<1>3. row \in Entry /\ row.id = opts.ids[i] /\ row.st = st /\ row.page = i
  BY <1>1, <1>2 DEF Row, Entry
<1>4. IsFiniteSet({row})
  BY FS_Singleton
<1>5. Bounded({row})
  BY <1>1, <1>3 DEF Bounded
<1>6. RowsTell({row})
  BY <1>3, <1>4, <1>5 DEF RowsTell
<1>7. QED  BY <1>2, <1>3, <1>6

\* What get_jobs returns tells what was read; a job's answers are the same.
LEMMA AnswersTell ==
  ASSUME NEW rows, RowsTell(rows)
  PROVE  /\ RowsTell(Answers(rows)) /\ Ids(Answers(rows)) = Ids(rows)
         /\ \A e \in Answers(rows) :
               /\ \E f \in rows : f.id = e.id /\ f.page = e.page
               /\ \E f \in rows : f.id = e.id /\ f.st = e.st
         /\ \A e, f \in Answers(rows) : e.id = f.id /\ e.page = f.page => e = f
<1> DEFINE answer == [e \in rows |-> [e EXCEPT !.st = LastRow(rows, e.id).st]]
<1>1. ASSUME NEW e \in rows
      PROVE  /\ answer[e] \in Entry /\ answer[e].id = e.id /\ answer[e].page = e.page
             /\ Tells(e.id, answer[e].st) /\ answer[e].st = LastRow(rows, e.id).st
             /\ \E f \in rows : f.id = e.id /\ f.st = answer[e].st
  <2>1. e.id \in Ids(rows) /\ e \in Entry
    BY DEF Ids, RowsTell
  <2>2. PICK f : f = LastRow(rows, e.id)
    OBVIOUS
  <2>3. f \in rows /\ f.id = e.id
    BY <2>1, <2>2, LastRowIs DEF RowsTell
  <2>4. f.st \in JobStatus /\ Tells(e.id, f.st)
    BY <2>3 DEF RowsTell, Entry
  <2>5. answer[e] = [e EXCEPT !.st = f.st]
    BY <2>2
  <2>6. answer[e] \in Entry /\ answer[e].id = e.id /\ answer[e].page = e.page
        /\ answer[e].st = f.st
    BY <2>1, <2>4, <2>5 DEF Entry
  <2>7. QED  BY <2>2, <2>3, <2>4, <2>6
<1>2. Answers(rows) = {answer[e] : e \in rows}
  BY DEF Answers
<1>3. DOMAIN answer = rows
  OBVIOUS
<1> HIDE DEF answer
<1>4. IsFiniteSet(Answers(rows))
  <2>1. IsFiniteSet(rows)
    BY DEF RowsTell
  <2>2. answer \in Surjection(rows, Answers(rows))
    BY <1>2, <1>3 DEF Surjection, answer
  <2>3. QED  BY <2>1, <2>2, FS_Surjection
<1>5. Bounded(Answers(rows))
  BY <1>1, <1>2 DEF RowsTell, Bounded
<1>6. RowsTell(Answers(rows))
  BY <1>1, <1>2, <1>4, <1>5 DEF RowsTell
<1>7. Ids(Answers(rows)) = Ids(rows)
  BY <1>1, <1>2 DEF Ids
<1>8. \A e \in Answers(rows) : /\ \E f \in rows : f.id = e.id /\ f.page = e.page
                               /\ \E f \in rows : f.id = e.id /\ f.st = e.st
  BY <1>1, <1>2
<1>9. ASSUME NEW e \in Answers(rows), NEW f \in Answers(rows), e.id = f.id, e.page = f.page
      PROVE  e = f
  <2>1. e.st = LastRow(rows, e.id).st /\ f.st = LastRow(rows, f.id).st
    BY <1>1, <1>2
  <2>2. e \in Entry /\ f \in Entry
    BY <1>6 DEF RowsTell
  <2>3. e.st = f.st
    BY <1>9, <2>1
  <2>4. QED  BY <1>9, <2>2, <2>3 DEF Entry
<1>10. QED  BY <1>6, <1>7, <1>8, <1>9

\* What was read stays true.
LEMMA ReadStays ==
  ASSUME RecordsStay, FinalStays, opts' = opts
  PROVE  /\ \A cache : CacheTells(cache) =>
               \A r \in DOMAIN cache : cache[r] \in JobStatus /\ Tells(r, cache[r])'
         /\ \A rows : RowsTell(rows) => \A e \in rows : Tells(e.id, e.st)'
         /\ DOMAIN recs \subseteq DOMAIN recs'
  BY StaysTrue DEF CacheTells, RowsTell, RecordsStay

\* A step that reads nothing, and stores nothing.
LEMMA NothingRead ==
  ASSUME ReadOK, RecordsStay, FinalStays,
         UNCHANGED <<objects, responses, listing, found, opts>>
  PROVE  ReadOK'
<1>1. CacheTells(objects)' /\ CacheTells(responses)'
  BY ReadStays DEF ReadOK, CacheTells
<1>2. RowsTell(found)'
  BY ReadStays DEF ReadOK, RowsTell, Bounded
<1>3. PagesTell(listing)'
  <2> SUFFICES ASSUME NEW k \in DOMAIN listing
               PROVE  RowsTell(listing[k])' /\ OnePerId(listing[k])'
    BY DEF PagesTell
  <2>1. RowsTell(listing[k]) /\ OnePerId(listing[k])
    BY DEF ReadOK, PagesTell
  <2>2. \A e \in listing[k] : Tells(e.id, e.st)'
    BY <2>1, ReadStays
  <2>3. listing'[k] = listing[k]
    OBVIOUS
  <2>4. QED  BY <2>1, <2>2, <2>3 DEF RowsTell, OnePerId, Bounded
<1>4. \A i \in DOMAIN opts'.ids : opts'.ids[i] \in DOMAIN recs'
  BY ReadStays DEF ReadOK
<1>5. QED  BY <1>1, <1>2, <1>3, <1>4 DEF ReadOK

\* A step that leaves the records alone leaves them as they were.
LEMMA SameStays ==
  ASSUME recs' = recs
  PROVE  RecordsStay /\ FinalStays
  BY DEF RecordsStay, FinalStays

-----------------------------------------------------------------------------
(* What is common to the steps.                                            *)

\* What a step that selects nothing leaves.
selectionUnchanged ==
    UNCHANGED <<cacheVars, opts, page, found, requests, usedCache, scope, shifted, due>>

LEMMA SelectionIs ==
  ASSUME selectionUnchanged
  PROVE  /\ objects' = objects /\ responses' = responses /\ listing' = listing
         /\ opts' = opts /\ page' = page /\ found' = found /\ requests' = requests
         /\ usedCache' = usedCache /\ scope' = scope /\ shifted' = shifted /\ due' = due
         /\ SelectedOnce' = SelectedOnce
  BY DEF selectionUnchanged, cacheVars, SelectedOnce

\* The types of a step that selects nothing.
LEMMA TypesStay ==
  ASSUME TypeOK, GitLabTypeOK', BatchTypeOK', DOMAIN recs \subseteq DOMAIN recs',
         selectionUnchanged, DOMAIN batch' \subseteq found,
         bulk' \in {"none", "sent", "accepted", "refused", "new", "error"},
         raised' \in {"none", "transport", "config"}, confirmed' \in BOOLEAN,
         \/ phase' = phase /\ exit' = exit
         \/ phase' = "over" /\ exit' \in {0, 1, 2}
         \/ phase' \in {"confirming bulk", "posting"} /\ exit' = exit /\ phase # "over"
  PROVE  TypeOK'
<1>1. /\ objects' = objects /\ responses' = responses /\ listing' = listing
      /\ opts' = opts /\ page' = page /\ found' = found /\ requests' = requests
      /\ scope' = scope /\ due' = due /\ usedCache' = usedCache /\ shifted' = shifted
  BY SelectionIs
<1>2. /\ DOMAIN objects' \subseteq DOMAIN recs' /\ DOMAIN responses' \subseteq DOMAIN recs'
      /\ \A r \in DOMAIN objects' : objects'[r] \in JobStatus
      /\ \A r \in DOMAIN responses' : responses'[r] \in JobStatus
      /\ \A k \in DOMAIN listing' : listing'[k] \subseteq Entry
      /\ opts' \in OptionSets /\ page' \in Nat \ {0} /\ found' \subseteq Entry
      /\ scope' \cup due' \subseteq DOMAIN recs'
      /\ usedCache' \in BOOLEAN /\ shifted' \in BOOLEAN
  BY <1>1 DEF TypeOK
<1>3. /\ DOMAIN requests' \subseteq DOMAIN opts'.ids
      /\ \A i \in DOMAIN requests' : requests'[i] \in {"queued", "sent", "answered"}
  BY <1>1 DEF TypeOK
<1>4. /\ phase' \in {"start", "listing", "fetching", "previewed", "confirming bulk",
                     "posting", "over"}
      /\ exit' \in {Running, 0, 1, 2}
  BY DEF TypeOK
<1>5. exit' = Running <=> phase' # "over"
  <2>1. CASE phase' = phase /\ exit' = exit
    BY <2>1 DEF TypeOK
  <2>2. CASE phase' = "over" /\ exit' \in {0, 1, 2}
    <3>1. exit' # Running
      BY <2>2 DEF Running
    <3>2. QED  BY <2>2, <3>1
  <2>3. CASE phase' \in {"confirming bulk", "posting"} /\ exit' = exit /\ phase # "over"
    <3>1. exit' = Running
      BY <2>3 DEF TypeOK
    <3>2. QED  BY <2>3, <3>1
  <2>4. QED  BY <2>1, <2>2, <2>3
<1>6. QED  BY <1>1, <1>2, <1>3, <1>4, <1>5 DEF TypeOK

\* While the command runs it has no exit code.
LEMMA StillRunning ==
  ASSUME TypeOK, phase # "over"
  PROVE  exit = Running /\ exit # 0 /\ exit # 1 /\ exit # 2
<1>1. exit = Running
  BY DEF TypeOK
<1>2. QED  BY <1>1 DEF Running

\* After the selection nothing is on the way to it.
LEMMA SelectionIsOver ==
  ASSUME phase' \notin {"start", "listing", "fetching"}
  PROVE  WayOK'
  BY DEF WayOK, StartOK, FetchingOK, ListingOK

\* Nothing was retried before a POST was sent.
LEMMA NothingSent ==
  ASSUME RetryInv, phase \notin {"posting", "over"}
  PROVE  NothingPosted /\ ~confirmed
<1>1. DOMAIN batch = {} /\ bulk = "none" /\ ~confirmed
  BY DEF RetryInv, PhaseOK
<1>2. Minted = {}
  BY <1>1 DEF RetryInv, MintsOK, Written
<1>3. QED  BY <1>1, <1>2 DEF NothingPosted

\* What there is to say of the jobs that had failed, when the records and what
\* was found stay the same.
LEMMA DueStays ==
  ASSUME RetryInv, recs' = recs, selectionUnchanged,
         phase' \notin {"listing", "fetching"},
         Targeted => \/ phase' = "posting" /\ phase \in {"previewed", "posting"}
                     \/ phase' = "over" /\ (exit' = 0 => phase = "posting"),
         bulk' \in {"accepted", "new"} => bulk \in {"accepted", "new"}
  PROVE  DueOK'
<1>1. /\ opts' = opts /\ found' = found /\ usedCache' = usedCache
      /\ shifted' = shifted /\ due' = due /\ Ids(found)' = Ids(found)
  BY SelectionIs DEF Ids
<1>2. /\ Minted' = Minted /\ Live(recs', 1) = Live(recs, 1)
      /\ \A r : Again(r)' = Again(r)
      /\ \A r : AskedFor(r)' <=> AskedFor(r)
      /\ Targeted' <=> Targeted
  BY <1>1, SameRecords
<1>3. \A r \in due' : r \in DOMAIN recs' /\ recs'[r].status = "failed"
  BY <1>1 DEF RetryInv, DueOK
<1>4. Minted' = {} => /\ \A r \in DOMAIN recs' : recs'[r].seen /\ recs'[r].pipe = 1
                      /\ \A r \in due' : Again(r)' # {} \/ r \in Live(recs', 1)
  BY <1>1, <1>2 DEF RetryInv, DueOK
<1>5. ASSUME Targeted', ~usedCache', opts'.failedOnly => ~shifted',
             phase' \in {"previewed", "posting"} \/ exit' = 0
      PROVE  \A r \in due' : AskedFor(r)' => Again(r)' # {} \/ r \in Ids(found')
  <2>1. phase \in {"previewed", "posting"}
    BY <1>2, <1>5
  <2>2. \A r \in due : AskedFor(r) => Again(r) # {} \/ r \in Ids(found)
    BY <1>1, <1>2, <1>5, <2>1 DEF RetryInv, DueOK
  <2>3. QED  BY <1>1, <1>2, <2>2
<1>6. bulk' \in {"accepted", "new"} => \A r \in due' : Again(r)' # {}
  BY <1>1, <1>2 DEF RetryInv, DueOK
<1>7. Ids(found)' = Ids(found')
  BY DEF Ids
<1>8. QED  BY <1>3, <1>4, <1>5, <1>6, <1>7 DEF DueOK

-----------------------------------------------------------------------------
(* The steps that end the command.                                         *)

\* An end that leaves everything but the exit code, and what is known of the
\* POST of a whole pipeline, as it was.
LEMMA EndKeeps ==
  ASSUME RetryInv, UNCHANGED gitlabVars, batch' = batch, selectionUnchanged,
         confirmed' = confirmed, raised' = raised,
         phase' = "over", exit' \in {0, 1, 2}, ExitOK',
         exit' = 0 /\ Targeted => phase = "posting",
         \/ bulk' = bulk
         \/ bulk = "accepted" /\ (bulk' = "new" \/ (bulk' = "error" /\ ~Truthful))
         \/ bulk = "refused" /\ bulk' = "error"
  PROVE  RetryInv'
<1>1. /\ recs' = recs /\ opts' = opts /\ found' = found /\ SelectedOnce' = SelectedOnce
      /\ objects' = objects /\ responses' = responses /\ listing' = listing
      /\ mode' = mode
  BY SelectionIs DEF gitlabVars
<1>2. /\ Minted' = Minted /\ (Targeted' <=> Targeted)
      /\ \A r : AskedFor(r)' <=> AskedFor(r)
  BY <1>1, SameRecords
<1>3. TypeOK'
  <2>1. GitLabTypeOK' /\ BatchTypeOK'
    BY <1>1 DEF RetryInv, TypeOK, GitLabTypeOK, BatchTypeOK, gitlabVars
  <2>2. /\ DOMAIN batch' \subseteq found /\ DOMAIN recs \subseteq DOMAIN recs'
        /\ bulk' \in {"none", "sent", "accepted", "refused", "new", "error"}
        /\ raised' \in {"none", "transport", "config"} /\ confirmed' \in BOOLEAN
    BY <1>1 DEF RetryInv, TypeOK
  <2>3. QED  BY <2>1, <2>2, TypesStay DEF RetryInv
<1>4. ReadOK'
  BY <1>1, SameStays, NothingRead DEF RetryInv
<1>5. PhaseOK'
  <2>1. /\ Targeted => bulk = "none"
        /\ ~Targeted => DOMAIN batch = {} /\ found = {}
    BY DEF RetryInv, PhaseOK
  <2>2. QED  BY <1>1, <1>2, <2>1 DEF PhaseOK, Prompted
<1>6. MintsOK'
  <2>1. (Written(bulk) => Written(bulk)') /\ \A ph : Written(ph)' <=> Written(ph)
    BY <1>1 DEF Written, Truthful
  <2>2. bulk' # "none" => bulk # "none"
    OBVIOUS
  <2>3. \A r \in Minted' : IF Targeted'
          THEN \E e \in DOMAIN batch' : e.id = recs'[r].of /\ Written(batch[e])'
          ELSE Written(bulk)'
    BY <1>1, <1>2, <2>1 DEF RetryInv, MintsOK
  <2>4. phase' # "previewed"
    OBVIOUS
  <2>5. DOMAIN batch' # {} => /\ \A e \in found' : AskedFor(e.id)'
                              /\ SelectedOnce' => OnePerId(found)'
    BY <1>1, <1>2 DEF RetryInv, MintsOK, OnePerId
  <2>6. /\ Minted' # {} \/ DOMAIN batch' # {} \/ bulk' # "none" => opts'.yes \/ confirmed'
        /\ SelectedOnce' => \A r, s \in Minted' : recs'[r].of = recs'[s].of => r = s
        /\ \A r \in Minted' : recs'[r].of \in DOMAIN recs' /\ AskedFor(recs[r].of)'
        /\ \A e \in DOMAIN batch' :
              batch'[e] \in {"accepted", "new"} => \E r \in Minted' : recs'[r].of = e.id
    BY <1>1, <1>2, <2>2 DEF RetryInv, MintsOK
  <2>7. QED  BY <2>3, <2>4, <2>5, <2>6 DEF MintsOK
<1>7. DueOK'
  BY <1>1, DueStays
<1>8. WayOK'
  BY SelectionIsOver
<1>9. QED  BY <1>3, <1>4, <1>5, <1>6, <1>7, <1>8 DEF RetryInv

LEMMA UsageErrorKeeps ==
  ASSUME RetryInv, UsageError \/ SelectionFails
  PROVE  RetryInv'
<1>1. /\ UNCHANGED gitlabVars /\ batch' = batch /\ selectionUnchanged
      /\ confirmed' = confirmed /\ raised' = raised /\ bulk' = bulk
      /\ phase' = "over" /\ exit' = 2 /\ phase \in {"start", "listing", "fetching"}
  BY DEF UsageError, SelectionFails, Selecting, Exit, selectionUnchanged, cacheVars, observers
<1>2. NothingPosted
  BY <1>1, NothingSent
<1>3. NothingPosted'
  <2>1. recs' = recs
    BY <1>1 DEF gitlabVars
  <2>2. QED  BY <1>1, <1>2, <2>1 DEF NothingPosted, Minted
<1>4. exit' # 0 /\ exit' # 1
  BY <1>1
<1>5. ExitOK'
  BY <1>3, <1>4 DEF ExitOK
<1>6. exit' \in {0, 1, 2}
  BY <1>1
<1>7. QED  BY <1>1, <1>4, <1>5, <1>6, EndKeeps

LEMMA DeclineKeeps ==
  ASSUME RetryInv, Decline
  PROVE  RetryInv'
<1>1. /\ UNCHANGED gitlabVars /\ batch' = batch /\ selectionUnchanged /\ opts' = opts
      /\ confirmed' = confirmed /\ raised' = raised /\ bulk' = bulk
      /\ phase' = "over" /\ exit' = 1 /\ Prompted
  BY DEF Decline, Exit, selectionUnchanged, cacheVars, observers
<1>2. NothingPosted /\ ~confirmed /\ ~opts.yes
  BY <1>1, NothingSent DEF RetryInv, PhaseOK, Prompted
<1>3. NothingPosted' /\ ~confirmed' /\ ~opts'.yes
  <2>1. recs' = recs
    BY <1>1 DEF gitlabVars
  <2>2. NothingPosted'
    BY <1>1, <1>2, <2>1 DEF NothingPosted, Minted
  <2>3. QED  BY <1>1, <1>2, <2>2
<1>4. exit' # 0 /\ exit' # 2 /\ exit' \in {0, 1, 2}
  BY <1>1
<1>5. ExitOK'
  BY <1>3, <1>4 DEF ExitOK
<1>6. QED  BY <1>1, <1>4, <1>5, EndKeeps

LEMMA BatchOverKeeps ==
  ASSUME RetryInv, BatchOver
  PROVE  RetryInv'
<1>1. /\ UNCHANGED gitlabVars /\ batch' = batch /\ selectionUnchanged
      /\ found' = found /\ opts' = opts
      /\ confirmed' = confirmed /\ raised' = raised /\ bulk' = bulk
      /\ phase' = "over" /\ exit' = ExitCode /\ phase = "posting" /\ Targeted
      /\ \A e \in DOMAIN batch : batch[e] \in {"new", "error"}
  BY DEF BatchOver, Exit, BatchSettled, Settled, selectionUnchanged, cacheVars, observers
<1>2. DOMAIN batch = found
  BY <1>1 DEF RetryInv, PhaseOK
<1>3. CASE \E e \in DOMAIN batch : batch[e] = "error"
  <2>1. exit' = 1
    BY <1>1, <1>3 DEF ExitCode
  <2>2. ExitOK'
    BY <1>1, <1>3, <2>1 DEF ExitOK
  <2>3. exit' \in {0, 1, 2}
    BY <2>1
  <2>4. QED  BY <1>1, <2>2, <2>3, EndKeeps
<1>4. CASE ~\E e \in DOMAIN batch : batch[e] = "error"
  <2>1. exit' = 0
    BY <1>1, <1>4 DEF ExitCode
  <2>2. \A e \in found' : e \in DOMAIN batch' /\ batch'[e] = "new"
    BY <1>1, <1>2, <1>4
  <2>3. ExitOK'
    BY <1>1, <2>1, <2>2 DEF ExitOK, Targeted
  <2>4. exit' \in {0, 1, 2}
    BY <2>1
  <2>5. QED  BY <1>1, <2>3, <2>4, EndKeeps
<1>5. QED  BY <1>3, <1>4

LEMMA BulkAnsweredKeeps ==
  ASSUME RetryInv, BulkAnswered
  PROVE  RetryInv'
<1>1. /\ UNCHANGED gitlabVars /\ batch' = batch /\ selectionUnchanged /\ opts' = opts
      /\ confirmed' = confirmed /\ raised' = raised
      /\ phase' = "over" /\ bulk # "none"
  BY DEF BulkAnswered, Exit, selectionUnchanged, cacheVars, observers
<1>2. /\ \/ bulk = "accepted" /\ (bulk' = "new" \/ (bulk' = "error" /\ ~Truthful))
         \/ bulk = "refused" /\ bulk' = "error"
      /\ exit' = IF bulk' = "new" THEN 0 ELSE 1
  BY DEF BulkAnswered, Exit
<1>3. ~Targeted /\ ~Targeted'
  BY <1>1 DEF RetryInv, PhaseOK, Targeted
<1>4. ExitOK'
  BY <1>2, <1>3 DEF ExitOK
<1>5. exit' \in {0, 1, 2}
  BY <1>2
<1>6. QED  BY <1>1, <1>2, <1>3, <1>4, <1>5, EndKeeps

-----------------------------------------------------------------------------
(* The steps that read.                                                    *)

\* What a step leaves that comes before the selection.
postingUnchanged == UNCHANGED <<gitlabVars, batch, opts, bulk, exit, confirmed, raised, due>>

\* What it may read and store.
ReadWell ==
    /\ CacheTells(objects') /\ CacheTells(responses')
    /\ PagesTell(listing') /\ RowsTell(found')
    /\ page' \in Nat \ {0} /\ scope' \subseteq DOMAIN recs
    /\ usedCache' \in BOOLEAN /\ shifted' \in BOOLEAN
    /\ DOMAIN requests' \subseteq DOMAIN opts.ids
    /\ \A i \in DOMAIN requests' : requests'[i] \in {"queued", "sent", "answered"}

\* The types and the truth of what is read and stored.
LEMMA ReadTypes ==
  ASSUME RetryInv, recs' = recs, opts' = opts, due' = due, ReadWell
  PROVE  /\ ReadOK'
         /\ DOMAIN objects' \subseteq DOMAIN recs' /\ DOMAIN responses' \subseteq DOMAIN recs'
         /\ \A r \in DOMAIN objects' : objects'[r] \in JobStatus
         /\ \A r \in DOMAIN responses' : responses'[r] \in JobStatus
         /\ \A k \in DOMAIN listing' : listing'[k] \subseteq Entry
         /\ opts' \in OptionSets /\ page' \in Nat \ {0} /\ found' \subseteq Entry
         /\ DOMAIN requests' \subseteq DOMAIN opts'.ids
         /\ \A i \in DOMAIN requests' : requests'[i] \in {"queued", "sent", "answered"}
         /\ scope' \cup due' \subseteq DOMAIN recs'
         /\ usedCache' \in BOOLEAN /\ shifted' \in BOOLEAN
<1>1. \A r, st : Tells(r, st)' <=> Tells(r, st)
  BY DEF Tells
<1>2. CacheTells(objects)' /\ CacheTells(responses)'
  BY <1>1 DEF ReadWell, CacheTells
<1>3. RowsTell(found)'
  BY <1>1 DEF ReadWell, RowsTell, Bounded
<1>4. PagesTell(listing)'
  <2> SUFFICES ASSUME NEW k \in DOMAIN listing'
               PROVE  RowsTell(listing[k])' /\ OnePerId(listing[k])'
    BY DEF PagesTell
  <2>1. PICK rows : rows = listing'[k]
    OBVIOUS
  <2>2. RowsTell(rows) /\ OnePerId(rows)
    BY <2>1 DEF ReadWell, PagesTell
  <2>3. QED  BY <1>1, <2>1, <2>2 DEF RowsTell, OnePerId, Bounded
<1>5. ReadOK'
  BY <1>2, <1>3, <1>4 DEF RetryInv, ReadOK
<1>6. /\ DOMAIN objects' \subseteq DOMAIN recs' /\ DOMAIN responses' \subseteq DOMAIN recs'
      /\ \A r \in DOMAIN objects' : objects'[r] \in JobStatus
      /\ \A r \in DOMAIN responses' : responses'[r] \in JobStatus
      /\ \A k \in DOMAIN listing' : listing'[k] \subseteq Entry /\ found' \subseteq Entry
  BY DEF ReadWell, CacheTells, PagesTell, RowsTell, Tells
<1>7. opts' \in OptionSets /\ scope' \cup due' \subseteq DOMAIN recs' /\ found' \subseteq Entry
  BY DEF RetryInv, TypeOK, ReadWell, RowsTell
<1>8. QED  BY <1>5, <1>6, <1>7 DEF ReadWell

\* A step before the selection is made.
LEMMA ReadingKeeps ==
  ASSUME RetryInv, postingUnchanged, ReadWell, WayOK',
         phase \in {"start", "listing", "fetching"},
         phase' \in {"start", "listing", "fetching"},
         phase' # "start" => Targeted,
         phase' \in {"listing", "fetching"} /\ ~usedCache' =>
            \A e \in found' : e.id \in due => e.st = "failed"
  PROVE  RetryInv'
<1>1. /\ recs' = recs /\ opts' = opts /\ batch' = batch /\ bulk' = bulk /\ exit' = exit
      /\ confirmed' = confirmed /\ raised' = raised /\ due' = due
      /\ UNCHANGED gitlabVars
  BY DEF postingUnchanged, gitlabVars
<1>2. GitLabTypeOK' /\ BatchTypeOK'
  BY <1>1 DEF RetryInv, TypeOK, GitLabTypeOK, BatchTypeOK, gitlabVars
<1>3. Minted = {} /\ DOMAIN batch = {} /\ bulk = "none" /\ ~confirmed
  BY NothingSent DEF NothingPosted
<1>4. /\ Minted' = {} /\ DOMAIN batch' = {} /\ bulk' = "none" /\ ~confirmed'
      /\ (Targeted' <=> Targeted)
  BY <1>1, <1>3, SameRecords
<1>5. TypeOK'
  <2>1. exit' \in {Running, 0, 1, 2} /\ (exit' = Running <=> phase' # "over")
    BY <1>1 DEF RetryInv, TypeOK
  <2>2. raised' \in {"none", "transport", "config"} /\ confirmed' \in BOOLEAN
    BY <1>1 DEF RetryInv, TypeOK
  <2>3. QED  BY <1>1, <1>2, <1>4, <2>1, <2>2, ReadTypes DEF TypeOK
<1>6. ReadOK'
  BY <1>1, ReadTypes
<1>7. PhaseOK'
  <2>1. ~Targeted' => phase' = "start" /\ found' = {}
    BY <1>4 DEF WayOK, StartOK
  <2>2. QED  BY <1>4, <2>1 DEF PhaseOK, Prompted
<1>8. exit' # 0 /\ exit' # 1 /\ exit' # 2
  BY <1>1, StillRunning DEF RetryInv
<1>9. MintsOK' /\ ExitOK'
  BY <1>4, <1>8 DEF MintsOK, ExitOK
<1>10. DueOK'
  <2>1. \A r \in due' : r \in DOMAIN recs' /\ recs'[r].status = "failed"
    BY <1>1 DEF RetryInv, DueOK
  <2>2. /\ \A r \in DOMAIN recs' : recs'[r].seen /\ recs'[r].pipe = 1
        /\ \A r \in due' : Again(r)' # {} \/ r \in Live(recs', 1)
    BY <1>1, <1>3, SameRecords DEF RetryInv, DueOK
  <2>3. QED  BY <1>1, <1>4, <1>8, <2>1, <2>2 DEF DueOK
<1>11. QED  BY <1>5, <1>6, <1>7, <1>9, <1>10 DEF RetryInv

\* The jobs that had failed, while nothing was retried by the command.
LEMMA DueAre ==
  ASSUME RetryInv, phase \notin {"posting", "over"}
  PROVE  \A r \in due : /\ r \in DOMAIN recs /\ recs[r].status = "failed"
                        /\ Again(r) # {} \/ r \in Live(recs, 1)
  BY NothingSent DEF RetryInv, DueOK, NothingPosted

LEMMA SelectByIdsKeeps ==
  ASSUME RetryInv, SelectByIds
  PROVE  RetryInv'
<1> DEFINE ids == opts.ids
           hits == {i \in DOMAIN ids : Known(objects, ids[i])}
<1>1. /\ postingUnchanged /\ objects' = objects /\ responses' = responses
      /\ listing' = listing /\ page' = page /\ scope' = scope /\ opts' = opts
      /\ shifted' = shifted /\ usedCache' \in BOOLEAN
      /\ phase = "start" /\ phase' = "fetching" /\ opts.mode = "ids"
      /\ found' = {Row(i, objects[ids[i]]) : i \in hits}
      /\ requests' = [i \in DOMAIN ids \ hits |-> "queued"]
      /\ usedCache' = (hits # {})
  BY DEF SelectByIds, postingUnchanged, cacheVars
<1>2. /\ CacheTells(objects) /\ GitLabTypeOK /\ opts \in OptionSets
      /\ \A i \in DOMAIN ids : ids[i] \in DOMAIN recs
  BY DEF RetryInv, ReadOK, TypeOK
<1>3. ASSUME NEW i \in hits
      PROVE  /\ RowsTell({Row(i, objects[ids[i]])})
             /\ Row(i, objects[ids[i]]).id = ids[i] /\ Row(i, objects[ids[i]]).page = i
  <2>1. objects[ids[i]] \in JobStatus /\ Tells(ids[i], objects[ids[i]])
    BY <1>2 DEF CacheTells, Known
  <2>2. i \in DOMAIN ids
    OBVIOUS
  <2>3. QED  BY <1>2, <2>1, <2>2, RowTells
<1>4. ids \in Seq(1 .. Len(JobNames)) /\ DOMAIN ids = 1 .. Len(ids) /\ Len(ids) \in Nat
  <2>1. ids \in Seq(1 .. Len(JobNames))
    BY <1>2, OptionsAssumption DEF Options
  <2>2. QED  BY <2>1, LenProperties
<1>5. RowsTell(found')
  <2>1. \A e \in found' : e \in Entry /\ Tells(e.id, e.st)
    BY <1>1, <1>3 DEF RowsTell
  <2>2. \A e \in found' : e.page \in hits
    BY <1>1, <1>3
  <2>3. Bounded(found')
    BY <1>4, <2>2 DEF Bounded
  <2>4. IsFiniteSet(found')
    <3>1. IsFiniteSet(hits)
      <4>1. IsFiniteSet(DOMAIN ids) /\ hits \in SUBSET DOMAIN ids
        BY <1>4, FS_Interval
      <4>2. QED  BY <4>1, FS_Subset
    <3> DEFINE f == [i \in hits |-> Row(i, objects[ids[i]])]
    <3>2. f \in Surjection(hits, found')
      BY <1>1 DEF Surjection
    <3>3. QED  BY <3>1, <3>2, FS_Surjection
  <2>5. QED  BY <2>1, <2>3, <2>4 DEF RowsTell
<1>6. \A e \in found' : e.page \in hits /\ e.id = ids[e.page]
  <2> SUFFICES ASSUME NEW e \in found' PROVE e.page \in hits /\ e.id = ids[e.page]
    OBVIOUS
  <2>1. PICK i \in hits : e = Row(i, objects[ids[i]])
    BY <1>1
  <2>2. e.id = ids[i] /\ e.page = i
    BY <1>3, <2>1
  <2>3. QED  BY <2>2
<1> HIDE DEF hits
<1>7. hits \subseteq DOMAIN ids
  BY DEF hits
<1>8. ReadWell
  BY <1>1, <1>2, <1>5 DEF ReadWell, RetryInv, ReadOK, TypeOK
<1>9. FetchingOK'
  <2>1. \A i \in DOMAIN requests' : requests'[i] # "answered"
    BY <1>1
  <2>2. ~usedCache' => DOMAIN requests' = DOMAIN ids
    BY <1>1
  <2>3. QED  BY <1>1, <1>6, <1>7, <2>1, <2>2 DEF FetchingOK
<1>10. WayOK'
  BY <1>1, <1>9 DEF WayOK, StartOK, ListingOK
<1>11. ~usedCache' => found' = {}
  BY <1>1
<1>12. Targeted
  BY <1>1 DEF Targeted
<1>13. QED  BY <1>1, <1>8, <1>10, <1>11, <1>12, ReadingKeeps

\* An answer to a position of --job, from the cache or from GitLab.
LEMMA AnswerKeeps ==
  ASSUME RetryInv, phase = "fetching", fetchUnchanged,
         NEW i \in DOMAIN requests, NEW st \in JobStatus, Tells(opts.ids[i], st),
         found' = found \cup {Row(i, st)}, Request(i, "answered"),
         CacheTells(responses'), usedCache' \in BOOLEAN,
         usedCache' \/ (~usedCache /\ st = recs[opts.ids[i]].status)
  PROVE  RetryInv'
<1>1. /\ postingUnchanged /\ objects' = objects
      /\ listing' = listing /\ page' = page /\ scope' = scope /\ opts' = opts
      /\ phase' = "fetching" /\ due' = due /\ recs' = recs /\ shifted' = shifted
  BY DEF fetchUnchanged, postingUnchanged, gitlabVars
<1>2. /\ GitLabTypeOK /\ opts \in OptionSets /\ RowsTell(found)
      /\ DOMAIN requests \subseteq DOMAIN opts.ids
      /\ \A j \in DOMAIN opts.ids : opts.ids[j] \in DOMAIN recs
  BY DEF RetryInv, ReadOK, TypeOK
<1>3. PICK row : row = Row(i, st)
  OBVIOUS
<1>4. RowsTell({row}) /\ row.id = opts.ids[i] /\ row.st = st /\ row.page = i
  BY <1>2, <1>3, RowTells
<1>5. found' = found \cup {row}
  BY <1>3
<1>6. RowsTell(found')
  BY <1>2, <1>4, <1>5, MoreRowsTell
<1>7. /\ DOMAIN requests' = DOMAIN requests
      /\ \A j \in DOMAIN requests : requests'[j] = IF j = i THEN "answered" ELSE requests[j]
  BY DEF Request
<1>8. ReadWell
  BY <1>1, <1>2, <1>6, <1>7 DEF ReadWell, RetryInv, ReadOK, TypeOK
<1>9. /\ opts.mode = "ids"
      /\ \A e \in found : e.page \in DOMAIN opts.ids /\ e.id = opts.ids[e.page]
      /\ \A j \in DOMAIN requests : requests[j] = "answered" => opts.ids[j] \in Ids(found)
      /\ ~usedCache => DOMAIN requests = DOMAIN opts.ids
  BY DEF RetryInv, WayOK, FetchingOK
<1>10. FetchingOK'
  <2>1. \A e \in found' : e.page \in DOMAIN opts'.ids /\ e.id = opts'.ids[e.page]
    BY <1>1, <1>2, <1>4, <1>5, <1>9
  <2>2. Ids(found)' = Ids(found) \cup {opts.ids[i]}
    BY <1>4, <1>5 DEF Ids
  <2>3. \A j \in DOMAIN requests' : requests'[j] = "answered" => opts'.ids[j] \in Ids(found)'
    BY <1>1, <1>7, <1>9, <2>2
  <2>4. ~usedCache' => DOMAIN requests' = DOMAIN opts'.ids
    BY <1>1, <1>7, <1>9
  <2>5. QED  BY <1>1, <1>9, <2>1, <2>3, <2>4 DEF FetchingOK
<1>11. WayOK'
  BY <1>1, <1>10 DEF WayOK, StartOK, ListingOK
<1>12. ~usedCache' => \A e \in found' : e.id \in due => e.st = "failed"
  <2> SUFFICES ASSUME ~usedCache' PROVE \A e \in found' : e.id \in due => e.st = "failed"
    OBVIOUS
  <2>1. \A e \in found : e.id \in due => e.st = "failed"
    BY DEF RetryInv, DueOK
  <2>2. row.id \in due => row.st = "failed"
    BY <1>4, DueAre
  <2>3. QED  BY <1>5, <2>1, <2>2
<1>13. Targeted
  BY <1>9 DEF Targeted
<1>14. QED  BY <1>1, <1>8, <1>11, <1>12, <1>13, ReadingKeeps

LEMMA GetJobKeeps ==
  ASSUME RetryInv, NEW i \in DOMAIN requests, GetJob(i)
  PROVE  RetryInv'
<1>1. /\ phase = "fetching" /\ fetchUnchanged /\ responses' = responses
      /\ requests[i] = "queued"
  BY DEF GetJob
<1>2. CacheTells(responses) /\ i \in DOMAIN opts.ids
  BY DEF RetryInv, ReadOK, TypeOK
<1>3. CASE Known(responses, opts.ids[i])
  <2>1. /\ Request(i, "answered") /\ usedCache' = TRUE
        /\ found' = found \cup {Row(i, responses[opts.ids[i]])}
    BY <1>3 DEF GetJob
  <2>2. responses[opts.ids[i]] \in JobStatus /\ Tells(opts.ids[i], responses[opts.ids[i]])
    BY <1>2, <1>3 DEF CacheTells, Known
  <2>3. QED  BY <1>1, <1>2, <2>1, <2>2, AnswerKeeps
<1>4. CASE ~Known(responses, opts.ids[i])
  <2>1. Request(i, "sent") /\ usedCache' = usedCache /\ found' = found
    BY <1>4 DEF GetJob, RetryInv, TypeOK
  <2>2. /\ postingUnchanged /\ objects' = objects /\ opts' = opts
        /\ listing' = listing /\ page' = page /\ scope' = scope
        /\ phase' = "fetching" /\ due' = due /\ shifted' = shifted
    BY <1>1 DEF fetchUnchanged, postingUnchanged
  <2>3. /\ DOMAIN requests' = DOMAIN requests
        /\ \A j \in DOMAIN requests : requests'[j] = IF j = i THEN "sent" ELSE requests[j]
    BY <2>1 DEF Request
  <2>4. ReadWell
    BY <1>1, <2>1, <2>2, <2>3 DEF ReadWell, RetryInv, ReadOK, TypeOK
  <2>5. FetchingOK' /\ opts.mode = "ids"
    BY <1>1, <2>1, <2>2, <2>3 DEF RetryInv, WayOK, FetchingOK, Ids
  <2>6. WayOK'
    BY <2>2, <2>5 DEF WayOK, StartOK, ListingOK
  <2>7. ~usedCache' => \A e \in found' : e.id \in due => e.st = "failed"
    BY <1>1, <2>1 DEF RetryInv, DueOK
  <2>8. Targeted
    BY <2>5 DEF Targeted
  <2>9. QED  BY <1>1, <2>2, <2>4, <2>6, <2>7, <2>8, ReadingKeeps
<1>5. QED  BY <1>3, <1>4

LEMMA JobAnswersKeeps ==
  ASSUME RetryInv, NEW i \in DOMAIN requests, JobAnswers(i)
  PROVE  RetryInv'
<1>1. PICK st : st = recs[opts.ids[i]].status
  OBVIOUS
<1>2. /\ phase = "fetching" /\ fetchUnchanged /\ usedCache' = usedCache
      /\ Request(i, "answered") /\ found' = found \cup {Row(i, st)}
      /\ responses' = Put(responses, {Row(i, st)})
  BY <1>1 DEF JobAnswers
<1>3. /\ CacheTells(responses) /\ GitLabTypeOK /\ opts \in OptionSets
      /\ i \in DOMAIN opts.ids /\ opts.ids[i] \in DOMAIN recs
      /\ usedCache \in BOOLEAN
  BY DEF RetryInv, ReadOK, TypeOK
<1>4. st \in JobStatus /\ Tells(opts.ids[i], st)
  BY <1>1, <1>3, RecordsAre DEF Record, Tells
<1>5. CacheTells(responses')
  BY <1>2, <1>3, <1>4, RowTells, PutTells
<1>6. QED  BY <1>1, <1>2, <1>3, <1>4, <1>5, AnswerKeeps

\* Nothing of what the command has read changes.
LEMMA SameReading ==
  ASSUME RetryInv, gitlabVars' = gitlabVars, commandVars' = commandVars,
         observers' = observers, batch' = batch,
         CacheTells(objects'), CacheTells(responses'), PagesTell(listing'),
         phase \in {"start", "listing", "fetching"}
  PROVE  RetryInv'
<1>1. /\ postingUnchanged /\ opts' = opts /\ page' = page /\ scope' = scope
      /\ found' = found /\ requests' = requests /\ usedCache' = usedCache
      /\ phase' = phase /\ shifted' = shifted /\ recs' = recs /\ due' = due
  BY DEF postingUnchanged, commandVars, observers, gitlabVars
<1>2. ReadWell
  BY <1>1 DEF ReadWell, RetryInv, ReadOK, TypeOK
<1>3. /\ \A r : Again(r)' = Again(r)
      /\ \A r : AskedFor(r)' <=> AskedFor(r)
      /\ Live(recs', 1) = Live(recs, 1)
  BY <1>1, SameRecords
<1>4. \A e : Passes(e)' <=> Passes(e)
  BY <1>1 DEF Passes, IsAllowed
<1>5. \A S, r : IsAhead(S, r)' <=> IsAhead(S, r)
  BY <1>1 DEF IsAhead, Rank
<1>6. ListingOK'
  <2> SUFFICES ASSUME phase' = "listing" PROVE ListingOK'
    BY DEF ListingOK
  <2>1. /\ opts.mode = "filter" /\ page # 1
        /\ \A e \in found : Passes(e)
        /\ ~shifted => OnePerId(found) /\ \A e \in found : ~IsAhead(scope, e.id)
    BY <1>1 DEF RetryInv, WayOK, ListingOK
  <2>2. ~usedCache => \A r \in due : AskedFor(r) /\ Again(r) = {} /\ r \notin Ids(found) =>
           IF opts.failedOnly THEN shifted \/ (r \in scope /\ IsAhead(scope, r))
           ELSE IsAhead(Live(recs, 1), r)
    BY <1>1 DEF RetryInv, WayOK, ListingOK
  <2>3. /\ Ids(found)' = Ids(found) /\ OnePerId(found)' = OnePerId(found)
        /\ \A r : IsAhead(scope, r)' <=> IsAhead(scope, r)
        /\ \A r : IsAhead(Live(recs, 1), r)' <=> IsAhead(Live(recs, 1), r)
    BY <1>1, <1>3 DEF Ids, OnePerId, IsAhead, Rank
  <2>4. /\ opts'.mode = "filter" /\ page' # 1
        /\ \A e \in found' : Passes(e)'
        /\ ~shifted' => OnePerId(found)' /\ \A e \in found' : ~IsAhead(scope, e.id)'
    BY <1>1, <1>4, <2>1, <2>3
  <2>5. ~usedCache' => \A r \in due' : AskedFor(r)' /\ Again(r)' = {} /\ r \notin Ids(found)' =>
           IF opts'.failedOnly THEN shifted' \/ (r \in scope' /\ IsAhead(scope, r)')
           ELSE IsAhead(Live(recs, 1), r)'
    BY <1>1, <1>3, <2>2, <2>3
  <2>6. QED  BY <2>4, <2>5 DEF ListingOK
<1>7. StartOK' /\ FetchingOK'
  BY <1>1 DEF RetryInv, WayOK, StartOK, FetchingOK, Ids
<1>8. phase' \in {"listing", "fetching"} /\ ~usedCache' =>
         \A e \in found' : e.id \in due => e.st = "failed"
  BY <1>1 DEF RetryInv, DueOK
<1>9. phase' # "start" => Targeted
  BY <1>1 DEF RetryInv, PhaseOK
<1>10. QED  BY <1>1, <1>2, <1>6, <1>7, <1>8, <1>9, ReadingKeeps DEF WayOK

LEMMA ResponsesExpireKeeps ==
  ASSUME RetryInv, ResponsesExpire
  PROVE  RetryInv'
<1>1. /\ gitlabVars' = gitlabVars /\ commandVars' = commandVars /\ observers' = observers
      /\ batch' = batch /\ objects' = objects /\ listing' = <<>> /\ responses' = <<>>
      /\ phase \in {"start", "listing", "fetching"}
  BY DEF ResponsesExpire, Selecting
<1>2. CacheTells(responses') /\ PagesTell(listing')
  BY <1>1 DEF CacheTells, PagesTell
<1>3. CacheTells(objects')
  BY <1>1 DEF RetryInv, ReadOK
<1>4. QED  BY <1>1, <1>2, <1>3, SameReading

LEMMA OtherCommandKeeps ==
  ASSUME RetryInv, OtherCommand
  PROVE  RetryInv'
<1>1. /\ gitlabVars' = gitlabVars /\ commandVars' = commandVars /\ observers' = observers
      /\ batch' = batch /\ phase \in {"start", "listing", "fetching"}
  BY DEF OtherCommand, Selecting
<1>2. /\ GitLabTypeOK /\ CacheTells(objects) /\ CacheTells(responses) /\ PagesTell(listing)
      /\ opts \in OptionSets /\ \A i \in DOMAIN opts.ids : opts.ids[i] \in DOMAIN recs
  BY DEF RetryInv, TypeOK, ReadOK
<1>3. ASSUME NEW k \in 1 .. Len(recs),
             listing' = StorePage(k, Rows(recs, PageRows(k), k)),
             objects' = objects, responses' = responses
      PROVE  RetryInv'
  <2>1. k \in Nat \ {0}
    BY <1>2, RecordsAre
  <2>2. PagesTell(listing')
    BY <1>2, <1>3, <2>1, PageTells, StoreTells
  <2>3. QED  BY <1>1, <1>2, <1>3, <2>2, SameReading
<1>4. ASSUME NEW i \in DOMAIN opts.ids, NEW st, st = recs[opts.ids[i]].status,
             responses' = Put(responses, {Row(i, st)}), cache_terminal_jobs({Row(i, st)}),
             listing' = listing
      PROVE  RetryInv'
  <2>1. st \in JobStatus /\ Tells(opts.ids[i], st)
    BY <1>2, <1>4, RecordsAre DEF Record, Tells
  <2>2. RowsTell({Row(i, st)})
    BY <1>2, <2>1, RowTells
  <2>3. CacheTells(responses')
    BY <1>2, <1>4, <2>2, PutTells
  <2>4. CacheTells(objects')
    BY <1>2, <1>4, <2>2, StoringTells
  <2>5. QED  BY <1>1, <1>2, <1>4, <2>3, <2>4, SameReading
<1>5. QED  BY <1>3, <1>4 DEF OtherCommand

-----------------------------------------------------------------------------
(* The selection and the prompt.                                           *)

\* The batch of some rows: every task waits.
LEMMA StartIs ==
  ASSUME NEW rows, RowsTell(rows), batch' = StartBatch(rows)
  PROVE  /\ BatchTypeOK' /\ DOMAIN batch' = rows
         /\ \A e \in rows : batch'[e] = "waiting"
<1>1. IsFiniteSet(rows) /\ rows \subseteq Entry
  BY DEF RowsTell
<1>2. DOMAIN batch' = rows /\ \A e \in rows : batch'[e] = "waiting"
  BY DEF StartBatch
<1>3. batch' \in [rows -> Phase]
  BY DEF StartBatch, Phase
<1>4. QED  BY <1>1, <1>2, <1>3 DEF BatchTypeOK

\* What is chosen of some rows is what was found.
LEMMA ChosenTell ==
  ASSUME NEW rows, RowsTell(rows), Selected(rows)
  PROVE  found' = CandidatesOf(rows) /\ RowsTell(found')
<1>1. CandidatesOf(rows) \in SUBSET rows
  BY DEF CandidatesOf
<1>2. QED  BY <1>1, SomeRowsTell DEF Selected

\* Of the rows that are chosen nothing is left to do, or the batch starts, or the
\* user is asked.
LEMMA SelectedKeeps ==
  ASSUME RetryInv, ReadWell,
         UNCHANGED <<gitlabVars, opts, bulk, confirmed, raised, due>>,
         phase \in {"start", "listing", "fetching"}, Targeted,
         NEW rows, RowsTell(rows), Selected(rows),
         \A e \in CandidatesOf(rows) : AskedFor(e.id),
         SelectedOnce' => OnePerId(CandidatesOf(rows)),
         ~usedCache' /\ (opts.failedOnly => ~shifted') =>
            \A r \in due : AskedFor(r) => Again(r) # {} \/ r \in Ids(CandidatesOf(rows))
  PROVE  RetryInv'
<1>1. PICK chosen : chosen = CandidatesOf(rows)
  OBVIOUS
<1>2. /\ recs' = recs /\ opts' = opts /\ bulk' = bulk
      /\ confirmed' = confirmed /\ raised' = raised /\ due' = due
  BY DEF gitlabVars
<1>3. RowsTell(chosen) /\ found' = chosen
  BY <1>1, ChosenTell
<1>4. \/ chosen = {} /\ phase' = "over" /\ exit' = 0 /\ batch' = batch
      \/ chosen # {} /\ opts.yes /\ phase' = "posting" /\ exit' = exit
         /\ batch' = StartBatch(chosen)
      \/ chosen # {} /\ ~opts.yes /\ phase' = "previewed" /\ exit' = exit /\ batch' = batch
  BY <1>1 DEF Selected, Exit
<1>5. Minted = {} /\ DOMAIN batch = {} /\ bulk = "none" /\ ~confirmed
  BY NothingSent DEF NothingPosted
<1>6. exit = Running
  BY StillRunning DEF RetryInv
<1>7. BatchTypeOK' /\ DOMAIN batch' \subseteq found'
      /\ (\A e \in DOMAIN batch' : batch'[e] = "waiting")
      /\ (phase' = "posting" => DOMAIN batch' = found')
      /\ (phase' # "posting" => DOMAIN batch' = {})
  <2>1. BatchTypeOK
    BY DEF RetryInv, TypeOK
  <2>2. CASE batch' = batch /\ phase' # "posting"
    BY <1>5, <2>1, <2>2 DEF BatchTypeOK
  <2>3. CASE batch' = StartBatch(chosen) /\ phase' = "posting"
    BY <1>3, <2>3, StartIs
  <2>4. QED  BY <1>4, <2>2, <2>3
<1>8. Minted' = {} /\ bulk' = "none" /\ Targeted' /\ ~confirmed'
  BY <1>2, <1>5, SameRecords
<1>9. TypeOK'
  <2>1. GitLabTypeOK'
    BY <1>2 DEF RetryInv, TypeOK, GitLabTypeOK, gitlabVars
  <2>2. exit' \in {Running, 0, 1, 2} /\ (exit' = Running <=> phase' # "over")
    <3>1. 0 # Running
      BY DEF Running
    <3>2. QED  BY <1>4, <1>6, <3>1
  <2>3. phase' \in {"previewed", "posting", "over"}
    BY <1>4
  <2>4. raised' \in {"none", "transport", "config"} /\ confirmed' \in BOOLEAN
    BY <1>2 DEF RetryInv, TypeOK
  <2>5. QED  BY <1>2, <1>7, <1>8, <2>1, <2>2, <2>3, <2>4, ReadTypes DEF TypeOK
<1>10. ReadOK'
  BY <1>2, ReadTypes
<1>11. PhaseOK'
  <2>1. phase' = "previewed" => ~opts'.yes
    BY <1>2, <1>4
  <2>2. phase' \in {"previewed", "posting", "over"}
    BY <1>4
  <2>3. QED  BY <1>7, <1>8, <2>1, <2>2 DEF PhaseOK, Prompted
<1>12. MintsOK'
  <2>1. DOMAIN batch' # {} => opts'.yes
    BY <1>2, <1>4, <1>7
  <2>2. \A e \in found' : AskedFor(e.id)'
    BY <1>1, <1>2, <1>3, SameRecords
  <2>3. SelectedOnce' => OnePerId(found)'
    BY <1>1, <1>3 DEF OnePerId
  <2>4. QED  BY <1>7, <1>8, <2>1, <2>2, <2>3 DEF MintsOK
<1>13. ExitOK'
  <2>1. exit' # 1 /\ exit' # 2 /\ (exit' = 0 => chosen = {})
    BY <1>4, <1>6 DEF Running
  <2>2. QED  BY <1>3, <1>8, <2>1 DEF ExitOK
<1>14. DueOK'
  <2>1. \A r \in due' : r \in DOMAIN recs' /\ recs'[r].status = "failed"
    BY <1>2 DEF RetryInv, DueOK
  <2>2. /\ \A r \in DOMAIN recs' : recs'[r].seen /\ recs'[r].pipe = 1
        /\ \A r \in due' : Again(r)' # {} \/ r \in Live(recs', 1)
    BY <1>2, <1>5, SameRecords DEF RetryInv, DueOK
  <2>3. ~usedCache' /\ (opts'.failedOnly => ~shifted') =>
           \A r \in due' : AskedFor(r)' => Again(r)' # {} \/ r \in Ids(found')
    BY <1>1, <1>2, <1>3, SameRecords
  <2>4. phase' \notin {"listing", "fetching"} /\ bulk' \notin {"accepted", "new"}
    BY <1>4, <1>8
  <2>5. Ids(found)' = Ids(found')
    BY DEF Ids
  <2>6. QED  BY <2>1, <2>2, <2>3, <2>4, <2>5 DEF DueOK
<1>15. WayOK'
  <2>1. phase' \notin {"start", "listing", "fetching"}
    BY <1>4
  <2>2. QED  BY <2>1, SelectionIsOver
<1>16. QED  BY <1>9, <1>10, <1>11, <1>12, <1>13, <1>14, <1>15 DEF RetryInv

\* A row that passes the filters, and --force or its status, is asked for.
LEMMA PassesIsAskedFor ==
  ASSUME NEW rows, RowsTell(rows), NEW e \in CandidatesOf(rows),
         opts.mode = "filter" => Passes(e), opts.mode = "ids" => e.id \in Range(opts.ids)
  PROVE  AskedFor(e.id)
<1>1. e \in rows /\ (opts.force \/ e.st \in Retryable)
  BY DEF CandidatesOf
<1>2. e.st \in JobFinal => recs[e.id].status = e.st
  BY <1>1 DEF RowsTell, Tells
<1>3. ~opts.force => recs[e.id].status \in Retryable
  BY <1>1, <1>2 DEF Retryable, JobFinal
<1>4. e.st = "failed" => recs[e.id].status = "failed"
  BY <1>2 DEF JobFinal
<1>5. QED  BY <1>3, <1>4 DEF AskedFor, Passes, IsAllowed

LEMMA JobsReadKeeps ==
  ASSUME RetryInv, JobsRead
  PROVE  RetryInv'
<1>1. /\ UNCHANGED <<gitlabVars, opts, bulk, confirmed, raised, due>>
      /\ responses' = responses /\ listing' = listing /\ requests' = requests
      /\ usedCache' = usedCache /\ shifted' = shifted /\ page' = page /\ scope' = scope
      /\ phase = "fetching" /\ \A i \in DOMAIN requests : requests[i] = "answered"
      /\ cache_terminal_jobs({e \in found : e.page \in DOMAIN requests})
      /\ Selected(Answers(found)) /\ opts' = opts
  BY DEF JobsRead, observers
<1>2. /\ CacheTells(objects) /\ CacheTells(responses) /\ PagesTell(listing)
      /\ RowsTell(found) /\ opts \in OptionSets
  BY DEF RetryInv, TypeOK, ReadOK
<1>3. PICK rows : rows = Answers(found)
  OBVIOUS
<1>4. /\ RowsTell(rows) /\ Ids(rows) = Ids(found)
      /\ \A e \in rows : /\ \E f \in found : f.id = e.id /\ f.page = e.page
                         /\ \E f \in found : f.id = e.id /\ f.st = e.st
      /\ \A e, f \in rows : e.id = f.id /\ e.page = f.page => e = f
  BY <1>2, <1>3, AnswersTell
<1>5. /\ opts.mode = "ids"
      /\ \A e \in found : e.page \in DOMAIN opts.ids /\ e.id = opts.ids[e.page]
      /\ \A i \in DOMAIN requests : opts.ids[i] \in Ids(found)
      /\ ~usedCache => DOMAIN requests = DOMAIN opts.ids
  BY <1>1 DEF RetryInv, WayOK, FetchingOK
<1>6. Selected(rows)
  BY <1>1, <1>3
<1>7. ReadWell
  <2>1. {e \in found : e.page \in DOMAIN requests} \in SUBSET found
    OBVIOUS
  <2>2. RowsTell({e \in found : e.page \in DOMAIN requests})
    BY <1>2, <2>1, SomeRowsTell
  <2>3. CacheTells(objects')
    BY <1>1, <1>2, <2>2, StoringTells
  <2>4. RowsTell(found')
    BY <1>4, <1>6, ChosenTell
  <2>5. QED  BY <1>1, <1>2, <2>3, <2>4 DEF ReadWell, RetryInv, TypeOK
<1>8. \A e \in rows : e.page \in DOMAIN opts.ids /\ e.id = opts.ids[e.page]
  BY <1>4, <1>5
<1>9. \A e \in CandidatesOf(rows) : AskedFor(e.id)
  <2>1. \A e \in CandidatesOf(rows) : e.id \in Range(opts.ids)
    BY <1>8 DEF CandidatesOf, Range
  <2>2. QED  BY <1>4, <1>5, <2>1, PassesIsAskedFor
<1>10. SelectedOnce' => OnePerId(CandidatesOf(rows))
  <2> SUFFICES ASSUME SelectedOnce', NEW e \in rows, NEW f \in rows, e.id = f.id
               PROVE  e = f
    BY DEF OnePerId, CandidatesOf
  <2>1. \A i, j \in DOMAIN opts.ids : opts.ids[i] = opts.ids[j] => i = j
    BY <1>1 DEF SelectedOnce
  <2>2. e.page = f.page
    BY <1>8, <2>1
  <2>3. QED  BY <1>4, <2>2
<1>11. ~usedCache' /\ (opts.failedOnly => ~shifted') =>
          \A r \in due : AskedFor(r) => Again(r) # {} \/ r \in Ids(CandidatesOf(rows))
  <2> SUFFICES ASSUME ~usedCache', NEW r \in due, AskedFor(r)
               PROVE  r \in Ids(CandidatesOf(rows))
    OBVIOUS
  <2>1. DOMAIN requests = DOMAIN opts.ids /\ \A e \in found : e.id \in due => e.st = "failed"
    BY <1>1, <1>5 DEF RetryInv, DueOK
  <2>2. r \in Ids(rows)
    BY <1>4, <1>5, <2>1 DEF AskedFor, Range
  <2>3. PICK e \in rows : e.id = r
    BY <2>2 DEF Ids
  <2>4. e.st = "failed"
    BY <1>4, <2>1, <2>3
  <2>5. e \in CandidatesOf(rows)
    BY <2>3, <2>4 DEF CandidatesOf, Retryable
  <2>6. QED  BY <2>3, <2>5 DEF Ids
<1>12. Targeted
  BY <1>5 DEF Targeted
<1>13. QED  BY <1>1, <1>4, <1>6, <1>7, <1>9, <1>10, <1>11, <1>12, SelectedKeeps

-----------------------------------------------------------------------------
(* The pages of the listing.                                               *)

\* How many are newer is a number, and less than how many there are.
LEMMA RankIs ==
  ASSUME GitLabTypeOK, NEW S \in SUBSET DOMAIN recs, NEW r
  PROVE  /\ Rank(S, r) \in Nat /\ Cardinality(S) \in Nat
         /\ r \in S => Rank(S, r) < Cardinality(S)
<1> DEFINE T == {s \in S : s > r}
<1>1. T \in SUBSET DOMAIN recs /\ T \in SUBSET S
  OBVIOUS
<1>2. IsFiniteSet(S) /\ Cardinality(S) \in Nat /\ Cardinality(T) \in Nat
  BY <1>1, RecordSetIsFinite
<1>3. ASSUME r \in S PROVE Cardinality(T) < Cardinality(S)
  <2>1. r \in Nat /\ r \notin T
    BY <1>3, RecordsAre
  <2>2. T # S
    BY <1>3, <2>1
  <2>3. QED  BY <1>1, <1>2, <2>2, FS_Subset
<1>4. Rank(S, r) = Cardinality(T)
  BY DEF Rank
<1> HIDE DEF T
<1>5. QED  BY <1>2, <1>3, <1>4

\* A page has the jobs in scope of which so many are newer.
LEMMA OnPage ==
  ASSUME GitLabTypeOK, NEW k \in Nat \ {0}, NEW r
  PROVE  /\ r \in PageRows(k) => r \in InScope
         /\ r \in PageRows(k) => Rank(InScope, r) >= PageSize * (k - 1)
         /\ r \in PageRows(k) => ~(Rank(InScope, r) >= PageSize * k)
         /\ r \in InScope /\ Rank(InScope, r) >= PageSize * (k - 1)
               /\ ~(Rank(InScope, r) >= PageSize * k) => r \in PageRows(k)
<1>1. InScope \in SUBSET DOMAIN recs
  BY DEF InScope, Live, Attempts
<1>2. Rank(InScope, r) \in Nat
  BY <1>1, RankIs
<1>3. PICK n : n = Rank(InScope, r)
  OBVIOUS
<1>4. PICK a : a = PageSize * (k - 1)
  OBVIOUS
<1>5. PICK b : b = PageSize * k
  OBVIOUS
<1>6. a \in Nat /\ b \in Nat /\ n \in Nat
  BY <1>2, <1>3, <1>4, <1>5, GitLabAssumption
<1>7. n = Cardinality(Newer(r))
  BY <1>3 DEF Rank, Newer
<1>8. r \in PageRows(k) <=> r \in InScope /\ n \in a .. b - 1
  BY <1>4, <1>5, <1>7 DEF PageRows
<1>9. n \in a .. b - 1 <=> n >= a /\ ~(n >= b)
  BY <1>6
<1>10. QED  BY <1>3, <1>4, <1>5, <1>8, <1>9

\* Rows of different jobs, each with fewer than b newer jobs.
Apart(rows, S, b) == OnePerId(rows) /\ \A e \in rows : ~(Rank(S, e.id) >= b)

\* A job that had failed, is asked for and was not read so far.
IsDue(r) == r \in due /\ AskedFor(r) /\ Again(r) = {}
Unread(rows, S, b) == \A r : IsDue(r) /\ r \notin Ids(rows) => r \in S /\ Rank(S, r) >= b

\* One page more.
LEMMA ApartPage ==
  ASSUME GitLabTypeOK, NEW k \in Nat \ {0}, NEW rows,
         k = 1 \/ Apart(rows, InScope, PageSize * (k - 1)), k = 1 => rows = {},
         NEW more \in SUBSET Rows(recs, PageRows(k), k)
  PROVE  Apart(rows \cup more, InScope, PageSize * k)
<1>1. PICK S : S = InScope
  OBVIOUS
<1>2. PICK a : a = PageSize * (k - 1)
  OBVIOUS
<1>3. PICK b : b = PageSize * k
  OBVIOUS
<1>4. a \in Nat /\ b \in Nat /\ a <= b
  <2>1. PageSize \in Nat
    BY GitLabAssumption
  <2>2. b = a + PageSize
    BY <1>2, <1>3, <2>1
  <2>3. a \in Nat
    BY <1>2, <2>1
  <2>4. QED  BY <2>1, <2>2, <2>3
<1>5. \A r : Rank(S, r) \in Nat
  <2>1. S \in SUBSET DOMAIN recs
    BY <1>1 DEF InScope, Live, Attempts
  <2>2. QED  BY <2>1, RankIs
<1>6. /\ OnePerId(more)
      /\ \A e \in more : Rank(S, e.id) >= a /\ ~(Rank(S, e.id) >= b)
  <2>1. OnePerId(Rows(recs, PageRows(k), k))
        /\ \A e \in Rows(recs, PageRows(k), k) : e.id \in PageRows(k)
    BY PageTells
  <2>2. \A e \in more : e.id \in PageRows(k)
    BY <2>1
  <2>3. OnePerId(more)
    BY <2>1 DEF OnePerId
  <2>4. \A e \in more : Rank(S, e.id) >= a
    BY <1>1, <1>2, <2>2, OnPage
  <2>5. \A e \in more : ~(Rank(S, e.id) >= b)
    BY <1>1, <1>3, <2>2, OnPage
  <2>6. QED  BY <2>3, <2>4, <2>5
<1>7. OnePerId(rows) /\ \A e \in rows : ~(Rank(S, e.id) >= a)
  BY <1>1, <1>2 DEF Apart, OnePerId
<1>8. \A e \in rows \cup more : ~(Rank(S, e.id) >= b)
  BY <1>4, <1>5, <1>6, <1>7
<1>9. OnePerId(rows \cup more)
  BY <1>6, <1>7 DEF OnePerId
<1>10. QED  BY <1>1, <1>3, <1>8, <1>9 DEF Apart

\* and the jobs that had failed are among its rows, or behind it.
LEMMA UnreadPage ==
  ASSUME GitLabTypeOK, NEW k \in Nat \ {0}, NEW rows, opts.mode = "filter",
         k = 1 \/ Unread(rows, InScope, PageSize * (k - 1)),
         \A r \in due : recs[r].status = "failed" /\ (Again(r) # {} \/ r \in Live(recs, 1)),
         NEW more, more = {e \in Rows(recs, PageRows(k), k) : Passes(e)}
  PROVE  Unread(rows \cup more, InScope, PageSize * k)
<1> SUFFICES ASSUME NEW r, IsDue(r), r \notin Ids(rows \cup more)
             PROVE  r \in InScope /\ Rank(InScope, r) >= PageSize * k
  BY DEF Unread
<1>1. r \in InScope /\ recs[r].status = "failed"
  BY DEF IsDue, InScope
<1>2. r \notin Ids(rows) /\ r \notin Ids(more)
  BY DEF Ids
<1>3. Rank(InScope, r) >= PageSize * (k - 1)
  <2>1. CASE k = 1
    <3>1. InScope \in SUBSET DOMAIN recs
      BY DEF InScope, Live, Attempts
    <3>2. Rank(InScope, r) \in Nat
      BY <3>1, RankIs
    <3>3. PICK n : n = Rank(InScope, r)
      OBVIOUS
    <3>4. PageSize * (k - 1) = 0
      BY <2>1, GitLabAssumption
    <3>5. n >= 0
      BY <3>2, <3>3
    <3>6. QED  BY <3>3, <3>4, <3>5
  <2>2. CASE Unread(rows, InScope, PageSize * (k - 1))
    BY <1>2, <2>2 DEF Unread
  <2>3. QED  BY <2>1, <2>2
<1>4. r \notin PageRows(k)
  <2> SUFFICES ASSUME r \in PageRows(k) PROVE r \in Ids(more)
    BY <1>2
  <2>1. PICK e \in Rows(recs, PageRows(k), k) : e.id = r /\ e.st = recs[r].status
    BY PageTells
  <2>2. Passes(e)
    BY <1>1, <2>1 DEF Passes, IsDue, AskedFor, IsAllowed
  <2>3. QED  BY <2>1, <2>2 DEF Ids
<1>5. QED  BY <1>1, <1>3, <1>4, OnPage

\* What is found is what the pages so far have.
LEMMA ReadSoFar ==
  ASSUME RetryInv, phase \in {"start", "listing"}, opts.mode = "filter"
  PROVE  /\ page = 1 => found = {} /\ ~usedCache /\ ~shifted
         /\ \A e \in found : Passes(e)
         /\ ~shifted => page = 1 \/ Apart(found, scope, PageSize * (page - 1))
         /\ ~usedCache => /\ page # 1 /\ opts.failedOnly /\ ~shifted =>
                                Unread(found, scope, PageSize * (page - 1))
                          /\ page # 1 /\ ~opts.failedOnly =>
                                Unread(found, Live(recs, 1), PageSize * (page - 1))
<1>1. CASE phase = "start"
  <2>1. found = {} /\ ~usedCache /\ page = 1 /\ ~shifted
    BY <1>1 DEF RetryInv, WayOK, StartOK
  <2>2. QED  BY <2>1
<1>2. CASE phase = "listing"
  <2>1. /\ page # 1
        /\ \A e \in found : Passes(e)
        /\ ~shifted => OnePerId(found) /\ \A e \in found : ~IsAhead(scope, e.id)
        /\ ~usedCache => \A r \in due :
              AskedFor(r) /\ Again(r) = {} /\ r \notin Ids(found) =>
                 IF opts.failedOnly THEN shifted \/ (r \in scope /\ IsAhead(scope, r))
                 ELSE IsAhead(Live(recs, 1), r)
    BY <1>2 DEF RetryInv, WayOK, ListingOK
  <2>2. \A r \in due : Again(r) # {} \/ r \in Live(recs, 1)
    BY <1>2, DueAre
  <2>3. ~shifted => Apart(found, scope, PageSize * (page - 1))
    BY <2>1 DEF Apart, IsAhead
  <2>4. ~usedCache /\ opts.failedOnly /\ ~shifted =>
           Unread(found, scope, PageSize * (page - 1))
    BY <2>1 DEF Unread, IsDue, IsAhead
  <2>5. ~usedCache /\ ~opts.failedOnly =>
           Unread(found, Live(recs, 1), PageSize * (page - 1))
    BY <2>1, <2>2 DEF Unread, IsDue, IsAhead
  <2>6. QED  BY <2>1, <2>3, <2>4, <2>5
<1>3. QED  BY <1>1, <1>2

LEMMA ReadPageKeeps ==
  ASSUME RetryInv, ReadPage
  PROVE  RetryInv'
<1> DEFINE stored == page \in DOMAIN listing
<1>1. PICK rows : rows = IF stored THEN listing[page] ELSE Rows(recs, PageRows(page), page)
  OBVIOUS
<1>2. PICK more : more = {e \in rows : Passes(e)}
  OBVIOUS
<1>3. PICK read : read = found \cup more
  OBVIOUS
<1>4. /\ phase \in {"start", "listing"} /\ opts.mode = "filter"
      /\ listing' = IF stored THEN listing ELSE StorePage(page, rows)
      /\ cache_terminal_jobs(rows)
      /\ usedCache' = (usedCache \/ stored)
      /\ shifted' = (shifted \/ (page # 1 /\ (stored \/ InScope # scope)))
      /\ \/ ~stored /\ HasNext(page) /\ ReadsOn(read)
         \/ (stored \/ ~HasNext(page)) /\ Selected(read) /\ page' = 1 /\ scope' = {}
      /\ UNCHANGED <<gitlabVars, opts, bulk, confirmed, raised, due>>
      /\ responses' = responses /\ requests' = requests /\ opts' = opts
      /\ recs' = recs /\ due' = due
  BY <1>1, <1>2, <1>3 DEF ReadPage, gitlabVars
<1>5. /\ CacheTells(objects) /\ CacheTells(responses) /\ PagesTell(listing)
      /\ RowsTell(found) /\ GitLabTypeOK /\ page \in Nat \ {0} /\ scope \subseteq DOMAIN recs
      /\ usedCache \in BOOLEAN /\ shifted \in BOOLEAN
  BY DEF RetryInv, TypeOK, ReadOK
<1> HIDE DEF stored
<1>6. RowsTell(rows) /\ OnePerId(rows)
  BY <1>1, <1>5, PageTells DEF PagesTell, stored
<1>7. RowsTell(read)
  <2>1. more \in SUBSET rows
    BY <1>2
  <2>2. RowsTell(more)
    BY <1>6, <2>1, SomeRowsTell
  <2>3. QED  BY <1>3, <1>5, <2>2, MoreRowsTell
<1>8. CacheTells(objects') /\ PagesTell(listing')
  <2>1. CacheTells(objects')
    BY <1>4, <1>5, <1>6, StoringTells
  <2>2. PagesTell(StorePage(page, rows))
    BY <1>5, <1>6, StoreTells
  <2>3. QED  BY <1>4, <1>5, <2>1, <2>2
<1>9. /\ page = 1 => found = {} /\ ~usedCache /\ ~shifted
      /\ \A e \in found : Passes(e)
      /\ ~shifted => page = 1 \/ Apart(found, scope, PageSize * (page - 1))
      /\ ~usedCache => /\ page # 1 /\ opts.failedOnly /\ ~shifted =>
                             Unread(found, scope, PageSize * (page - 1))
                       /\ page # 1 /\ ~opts.failedOnly =>
                             Unread(found, Live(recs, 1), PageSize * (page - 1))
  BY <1>4, ReadSoFar
<1>10. \A e \in read : Passes(e)
  BY <1>2, <1>3, <1>9
<1>11. \A r \in due : recs[r].status = "failed" /\ (Again(r) # {} \/ r \in Live(recs, 1))
  BY <1>4, DueAre
<1>12. ~shifted' => ~shifted /\ (page = 1 \/ (~stored /\ InScope = scope))
  BY <1>4, <1>5
<1>13. ~usedCache' => ~usedCache /\ ~stored
  BY <1>4, <1>5
<1>14. ~stored /\ ~shifted' => Apart(read, InScope, PageSize * page)
  <2> SUFFICES ASSUME ~stored, ~shifted' PROVE Apart(read, InScope, PageSize * page)
    OBVIOUS
  <2>1. more \in SUBSET Rows(recs, PageRows(page), page)
    BY <1>1, <1>2
  <2>2. page = 1 \/ Apart(found, InScope, PageSize * (page - 1))
    BY <1>9, <1>12
  <2>3. page = 1 => found = {}
    BY <1>9
  <2>4. QED  BY <1>3, <1>5, <2>1, <2>2, <2>3, ApartPage
<1>15. ~usedCache' /\ (opts.failedOnly => ~shifted') => Unread(read, InScope, PageSize * page)
  <2> SUFFICES ASSUME ~usedCache', opts.failedOnly => ~shifted'
               PROVE  Unread(read, InScope, PageSize * page)
    OBVIOUS
  <2>1. more = {e \in Rows(recs, PageRows(page), page) : Passes(e)}
    BY <1>1, <1>2, <1>13
  <2>2. page = 1 \/ Unread(found, InScope, PageSize * (page - 1))
    <3>1. CASE opts.failedOnly
      BY <1>9, <1>12, <1>13, <3>1
    <3>2. CASE ~opts.failedOnly
      <4>1. InScope = Live(recs, 1)
        BY <3>2 DEF InScope
      <4>2. QED  BY <1>9, <1>13, <3>2, <4>1
    <3>3. QED  BY <3>1, <3>2
  <2>3. QED  BY <1>3, <1>4, <1>5, <1>11, <2>1, <2>2, UnreadPage
<1>16. ~usedCache' => \A e \in read : e.id \in due => e.st = "failed"
  <2> SUFFICES ASSUME ~usedCache', NEW e \in read, e.id \in due PROVE e.st = "failed"
    OBVIOUS
  <2>1. CASE e \in found
    <3>1. phase # "start"
      BY <2>1 DEF RetryInv, WayOK, StartOK
    <3>2. phase = "listing"
      BY <1>4, <3>1
    <3>3. QED  BY <1>13, <2>1, <3>2 DEF RetryInv, DueOK
  <2>2. CASE e \in more
    <3>1. e \in Rows(recs, PageRows(page), page)
      BY <1>1, <1>2, <1>13, <2>2
    <3>2. e.st = recs[e.id].status
      BY <1>5, <3>1, PageTells
    <3>3. QED  BY <1>11, <3>2
  <2>3. QED  BY <1>3, <2>1, <2>2
<1>17. Targeted
  BY <1>4 DEF Targeted
<1>18. InScope \subseteq DOMAIN recs
  BY DEF InScope, Live, Attempts
<1>19. usedCache' \in BOOLEAN /\ shifted' \in BOOLEAN
  BY <1>4, <1>5
<1>20. CASE ~stored /\ HasNext(page) /\ ReadsOn(read)
  <2>1. /\ found' = read /\ phase' = "listing" /\ page' = page + 1
        /\ scope' = IF page = 1 THEN InScope ELSE scope
        /\ batch' = batch /\ exit' = exit
    BY <1>20 DEF ReadsOn
  <2>2. postingUnchanged
    BY <1>4, <2>1 DEF postingUnchanged
  <2>3. page' \in Nat \ {0} /\ page' # 1 /\ page' - 1 = page
    BY <1>5, <2>1
  <2>4. ReadWell
    <3>1. /\ DOMAIN requests' \subseteq DOMAIN opts.ids
          /\ \A i \in DOMAIN requests' : requests'[i] \in {"queued", "sent", "answered"}
      BY <1>4 DEF RetryInv, TypeOK
    <3>2. scope' \subseteq DOMAIN recs
      BY <1>5, <1>18, <2>1
    <3>3. QED  BY <1>4, <1>5, <1>7, <1>8, <1>19, <2>1, <2>3, <3>1, <3>2 DEF ReadWell
  <2>5. ~shifted' => scope' = InScope
    BY <1>12, <2>1
  <2>6. ListingOK'
    <3>1. \A S, r : IsAhead(S, r)' <=> Rank(S, r) >= PageSize * page
      BY <2>3 DEF IsAhead, Rank
    <3>2. \A e \in found' : Passes(e)'
      BY <1>4, <1>10, <2>1 DEF Passes, IsAllowed
    <3>3. ~shifted' => OnePerId(found)' /\ \A e \in found' : ~IsAhead(scope, e.id)'
      <4> SUFFICES ASSUME ~shifted'
                   PROVE  OnePerId(found)' /\ \A e \in found' : ~IsAhead(scope, e.id)'
        OBVIOUS
      <4>1. Apart(found', scope', PageSize * page)
        BY <1>14, <1>20, <2>1, <2>5
      <4>2. QED  BY <2>3, <4>1 DEF Apart, OnePerId, IsAhead, Rank
    <3>4. ~usedCache' => \A r \in due' :
             AskedFor(r)' /\ Again(r)' = {} /\ r \notin Ids(found)' =>
                IF opts'.failedOnly THEN shifted' \/ (r \in scope' /\ IsAhead(scope, r)')
                ELSE IsAhead(Live(recs, 1), r)'
      <4> SUFFICES ASSUME ~usedCache', NEW r \in due, AskedFor(r), Again(r) = {},
                          r \notin Ids(read)
                   PROVE  IF opts.failedOnly THEN shifted' \/ (r \in scope' /\ IsAhead(scope, r)')
                          ELSE IsAhead(Live(recs, 1), r)'
        BY <1>4, <2>1, SameRecords DEF Ids
      <4>1. (opts.failedOnly => ~shifted') => r \in InScope /\ Rank(InScope, r) >= PageSize * page
        BY <1>15 DEF Unread, IsDue
      <4>2. CASE opts.failedOnly
        <5>1. ~shifted' => r \in scope' /\ Rank(scope', r) >= PageSize * page
          BY <2>5, <4>1
        <5>2. ~shifted' => r \in scope' /\ IsAhead(scope, r)'
          BY <2>3, <5>1 DEF IsAhead, Rank
        <5>3. QED  BY <4>2, <5>2
      <4>3. CASE ~opts.failedOnly
        <5>1. InScope = Live(recs, 1) /\ Live(recs', 1) = Live(recs, 1)
          BY <1>4, <4>3, SameRecords DEF InScope
        <5>2. Rank(Live(recs, 1), r) >= PageSize * page
          BY <4>1, <4>3, <5>1
        <5>3. IsAhead(Live(recs, 1), r)'
          BY <2>3, <5>1, <5>2 DEF IsAhead, Rank
        <5>4. QED  BY <4>3, <5>3
      <4>4. QED  BY <4>2, <4>3
    <3>5. opts'.mode = "filter" /\ page' # 1
      BY <1>4, <2>3
    <3>6. QED  BY <3>2, <3>3, <3>4, <3>5 DEF ListingOK
  <2>7. WayOK'
    BY <2>1, <2>6 DEF WayOK, StartOK, FetchingOK
  <2>8. \A e \in found' : ~usedCache' => (e.id \in due => e.st = "failed")
    BY <1>16, <2>1
  <2>9. QED  BY <1>4, <1>17, <2>1, <2>2, <2>4, <2>7, <2>8, ReadingKeeps
<1>21. CASE (stored \/ ~HasNext(page)) /\ Selected(read) /\ page' = 1 /\ scope' = {}
  <2>1. RowsTell(found')
    BY <1>7, <1>21, ChosenTell
  <2>2. ReadWell
    <3>1. /\ DOMAIN requests' \subseteq DOMAIN opts.ids
          /\ \A i \in DOMAIN requests' : requests'[i] \in {"queued", "sent", "answered"}
      BY <1>4 DEF RetryInv, TypeOK
    <3>2. QED  BY <1>4, <1>5, <1>8, <1>19, <1>21, <2>1, <3>1 DEF ReadWell
  <2>3. \A e \in CandidatesOf(read) : AskedFor(e.id)
    <3>1. \A e \in CandidatesOf(read) : Passes(e)
      BY <1>10 DEF CandidatesOf
    <3>2. QED  BY <1>4, <1>7, <3>1, PassesIsAskedFor
  <2>4. SelectedOnce' => OnePerId(CandidatesOf(read))
    <3> SUFFICES ASSUME ~shifted' PROVE OnePerId(read)
      BY DEF SelectedOnce, OnePerId, CandidatesOf
    <3>1. CASE stored
      <4>1. found = {}
        BY <1>9, <1>12, <3>1
      <4>2. QED  BY <1>2, <1>3, <1>6, <4>1 DEF OnePerId
    <3>2. CASE ~stored
      BY <1>14, <3>2 DEF Apart
    <3>3. QED  BY <3>1, <3>2
  <2>5. ~usedCache' /\ (opts.failedOnly => ~shifted') =>
           \A r \in due : AskedFor(r) => Again(r) # {} \/ r \in Ids(CandidatesOf(read))
    <3> SUFFICES ASSUME ~usedCache', opts.failedOnly => ~shifted',
                        NEW r \in due, AskedFor(r), Again(r) = {}
                 PROVE  r \in Ids(CandidatesOf(read))
      OBVIOUS
    <3>1. r \in Ids(read)
      <4> SUFFICES ASSUME r \notin Ids(read) PROVE FALSE
        OBVIOUS
      <4>1. r \in InScope /\ Rank(InScope, r) >= PageSize * page
        BY <1>15 DEF Unread, IsDue
      <4>2. PICK n : n = Rank(InScope, r)
        OBVIOUS
      <4>3. PICK c : c = Cardinality(InScope)
        OBVIOUS
      <4>4. PICK b : b = PageSize * page
        OBVIOUS
      <4>5. b \in Nat
        BY <1>5, <4>4, GitLabAssumption
      <4>6. n \in Nat /\ c \in Nat /\ n < c
        BY <1>5, <1>18, <4>1, <4>2, <4>3, RankIs
      <4>7. ~(c > b)
        BY <1>13, <1>21, <4>3, <4>4 DEF HasNext
      <4>8. n >= b
        BY <4>1, <4>2, <4>4
      <4>9. QED  BY <4>5, <4>6, <4>7, <4>8
    <3>2. PICK e \in read : e.id = r
      BY <3>1 DEF Ids
    <3>3. e.st = "failed"
      BY <1>16, <3>2
    <3>4. e \in CandidatesOf(read)
      BY <3>2, <3>3 DEF CandidatesOf, Retryable
    <3>5. QED  BY <3>2, <3>4 DEF Ids
  <2>6. Selected(read) /\ phase \in {"start", "listing", "fetching"}
    BY <1>4, <1>21
  <2>7. QED  BY <1>4, <1>7, <1>17, <2>2, <2>3, <2>4, <2>5, <2>6, SelectedKeeps
<1>22. QED  BY <1>4, <1>20, <1>21

-----------------------------------------------------------------------------
(* From the prompt to the POSTs.                                           *)

\* Without a filter nothing is selected: the user is asked, or the POST is sent.
LEMMA StartBulkKeeps ==
  ASSUME RetryInv, StartBulk
  PROVE  RetryInv'
<1>1. /\ UNCHANGED gitlabVars /\ recs' = recs /\ opts' = opts /\ batch' = batch
      /\ selectionUnchanged /\ exit' = exit /\ confirmed' = confirmed /\ raised' = raised
      /\ objects' = objects /\ responses' = responses /\ listing' = listing
      /\ found' = found
  BY DEF StartBulk, gitlabVars, cacheVars, observers, selectionUnchanged
<1>2. /\ phase = "start" /\ ~Targeted
      /\ \/ opts.yes /\ phase' = "posting" /\ bulk' = "sent"
         \/ ~opts.yes /\ phase' = "confirming bulk" /\ bulk' = bulk
  BY DEF StartBulk
<1>3. Minted = {} /\ DOMAIN batch = {} /\ bulk = "none" /\ ~confirmed
  BY <1>2, NothingSent DEF NothingPosted
<1>4. Minted' = {} /\ DOMAIN batch' = {} /\ ~Targeted' /\ ~confirmed'
      /\ bulk' \in {"none", "sent"}
  BY <1>1, <1>2, <1>3, SameRecords
<1>5. TypeOK'
  <2>1. GitLabTypeOK' /\ BatchTypeOK'
    BY <1>1 DEF RetryInv, TypeOK, GitLabTypeOK, BatchTypeOK, gitlabVars
  <2>2. /\ DOMAIN batch' \subseteq found /\ DOMAIN recs \subseteq DOMAIN recs'
        /\ bulk' \in {"none", "sent", "accepted", "refused", "new", "error"}
        /\ raised' \in {"none", "transport", "config"} /\ confirmed' \in BOOLEAN
    BY <1>1, <1>4 DEF RetryInv, TypeOK
  <2>3. phase' \in {"confirming bulk", "posting"} /\ exit' = exit /\ phase # "over"
    BY <1>1, <1>2
  <2>4. QED  BY <1>1, <2>1, <2>2, <2>3, TypesStay DEF RetryInv
<1>6. ReadOK'
  BY <1>1, SameStays, NothingRead DEF RetryInv
<1>7. PhaseOK'
  <2>1. found' = {}
    BY <1>1, <1>2 DEF RetryInv, PhaseOK
  <2>2. \/ phase' = "posting" /\ bulk' = "sent"
        \/ phase' = "confirming bulk" /\ bulk' = "none" /\ ~opts'.yes
    BY <1>1, <1>2, <1>3
  <2>3. QED  BY <1>4, <2>1, <2>2 DEF PhaseOK, Prompted
<1>8. MintsOK'
  <2>1. bulk' # "none" => opts'.yes
    BY <1>1, <1>2, <1>3
  <2>2. phase' # "previewed"
    BY <1>2
  <2>3. QED  BY <1>4, <2>1, <2>2 DEF MintsOK
<1>9. exit' # 0 /\ exit' # 1 /\ exit' # 2
  BY <1>1, <1>2, StillRunning DEF RetryInv
<1>10. ExitOK'
  BY <1>9 DEF ExitOK
<1>11. DueOK'
  <2>1. phase' \notin {"listing", "fetching"} /\ bulk' \notin {"accepted", "new"}
    BY <1>2, <1>3
  <2>2. QED  BY <1>1, <1>2, <2>1, DueStays
<1>12. WayOK'
  <2>1. phase' \notin {"start", "listing", "fetching"}
    BY <1>2
  <2>2. QED  BY <2>1, SelectionIsOver
<1>13. QED  BY <1>5, <1>6, <1>7, <1>8, <1>10, <1>11, <1>12 DEF RetryInv

\* The user says yes: the batch starts, or the POST is sent.
LEMMA ConfirmKeeps ==
  ASSUME RetryInv, Confirm
  PROVE  RetryInv'
<1>1. /\ UNCHANGED gitlabVars /\ recs' = recs /\ opts' = opts
      /\ selectionUnchanged /\ exit' = exit /\ raised' = raised
      /\ objects' = objects /\ responses' = responses /\ listing' = listing
      /\ found' = found
  BY DEF Confirm, gitlabVars, cacheVars, selectionUnchanged
<1>2. /\ confirmed' = TRUE /\ phase' = "posting" /\ phase \in {"previewed", "confirming bulk"}
      /\ \/ phase = "previewed" /\ batch' = StartBatch(found) /\ bulk' = bulk
         \/ phase = "confirming bulk" /\ bulk' = "sent" /\ batch' = batch
  BY DEF Confirm, Prompted
<1>3. Minted = {} /\ DOMAIN batch = {} /\ bulk = "none"
  BY <1>2, NothingSent DEF NothingPosted
<1>4. Minted' = {} /\ (Targeted' <=> Targeted)
  BY <1>1, <1>3, SameRecords
<1>5. phase = "previewed" => Targeted
  BY DEF RetryInv, PhaseOK
<1>6. phase = "confirming bulk" => ~Targeted /\ found = {}
  BY DEF RetryInv, PhaseOK
<1>7. /\ GitLabTypeOK' /\ BatchTypeOK'
      /\ DOMAIN batch' = found' /\ \A e \in DOMAIN batch' : batch'[e] = "waiting"
  <2>1. GitLabTypeOK /\ BatchTypeOK /\ RowsTell(found)
    BY DEF RetryInv, TypeOK, ReadOK
  <2>2. GitLabTypeOK'
    BY <1>1, <2>1 DEF GitLabTypeOK, gitlabVars
  <2>3. CASE batch' = StartBatch(found)
    BY <1>1, <2>1, <2>2, <2>3, StartIs
  <2>4. CASE batch' = batch /\ phase = "confirming bulk"
    BY <1>1, <1>3, <1>6, <2>1, <2>2, <2>4 DEF BatchTypeOK
  <2>5. QED  BY <1>2, <2>3, <2>4
<1>8. /\ Targeted => bulk' = "none" /\ phase = "previewed"
      /\ ~Targeted => bulk' = "sent" /\ found' = {}
  BY <1>1, <1>2, <1>3, <1>5, <1>6
<1>9. TypeOK'
  <2>1. /\ DOMAIN batch' \subseteq found /\ DOMAIN recs \subseteq DOMAIN recs'
        /\ bulk' \in {"none", "sent", "accepted", "refused", "new", "error"}
        /\ confirmed' \in BOOLEAN
    BY <1>1, <1>2, <1>7, <1>8
  <2>2. raised' \in {"none", "transport", "config"}
    BY <1>1 DEF RetryInv, TypeOK
  <2>3. phase' \in {"confirming bulk", "posting"} /\ exit' = exit /\ phase # "over"
    BY <1>1, <1>2
  <2>4. QED  BY <1>1, <1>7, <2>1, <2>2, <2>3, TypesStay DEF RetryInv
<1>10. ReadOK'
  BY <1>1, SameStays, NothingRead DEF RetryInv
<1>11. PhaseOK'
  <2>1. phase' = "posting"
    BY <1>2
  <2>2. QED  BY <1>4, <1>7, <1>8, <2>1 DEF PhaseOK, Prompted
<1>12. MintsOK'
  <2>1. \A e \in found' : AskedFor(e.id)'
    <3>1. \A e \in found : AskedFor(e.id)
      BY <1>2, <1>6 DEF RetryInv, MintsOK
    <3>2. QED  BY <1>1, <3>1, SameRecords
  <2>2. SelectedOnce' => OnePerId(found)'
    <3>1. SelectedOnce => OnePerId(found)
      BY <1>2, <1>6 DEF RetryInv, MintsOK, OnePerId
    <3>2. SelectedOnce' = SelectedOnce /\ OnePerId(found)' = OnePerId(found)
      BY <1>1, SelectionIs DEF OnePerId
    <3>3. QED  BY <3>1, <3>2
  <2>3. QED  BY <1>2, <1>4, <1>7, <2>1, <2>2 DEF MintsOK
<1>13. exit' # 0 /\ exit' # 1 /\ exit' # 2
  BY <1>1, <1>2, StillRunning DEF RetryInv
<1>14. ExitOK'
  BY <1>13 DEF ExitOK
<1>15. DueOK'
  <2>1. phase' \notin {"listing", "fetching"} /\ bulk' \notin {"accepted", "new"}
    BY <1>2, <1>8
  <2>2. Targeted => phase' = "posting" /\ phase \in {"previewed", "posting"}
    BY <1>2, <1>8
  <2>3. QED  BY <1>1, <2>1, <2>2, DueStays
<1>16. WayOK'
  <2>1. phase' \notin {"start", "listing", "fetching"}
    BY <1>2
  <2>2. QED  BY <2>1, SelectionIsOver
<1>17. QED  BY <1>9, <1>10, <1>11, <1>12, <1>14, <1>15, <1>16 DEF RetryInv

-----------------------------------------------------------------------------
(* The batch.                                                              *)

\* A task that moves on, and nobody else.
LEMMA MoveIs ==
  ASSUME BatchTypeOK, NEW e \in DOMAIN batch, NEW ph \in Phase, Move(e, ph)
  PROVE  /\ BatchTypeOK' /\ DOMAIN batch' = DOMAIN batch
         /\ batch'[e] = ph /\ \A f \in DOMAIN batch : f # e => batch'[f] = batch[f]
<1>1. batch' = [batch EXCEPT ![e] = ph] /\ batch \in [DOMAIN batch -> Phase]
  BY DEF Move, BatchTypeOK
<1>2. DOMAIN batch' = DOMAIN batch /\ batch' \in [DOMAIN batch -> Phase]
  BY <1>1
<1>3. batch'[e] = ph /\ \A f \in DOMAIN batch : f # e => batch'[f] = batch[f]
  BY <1>1
<1>4. QED  BY <1>2, <1>3 DEF BatchTypeOK

\* Other phases of the tasks, which know of the same retries.
LEMMA PhasesKeep ==
  ASSUME RetryInv, recs' = recs, mode' = mode, selectionUnchanged, bulk' = bulk,
         confirmed' = confirmed, DOMAIN batch' = DOMAIN batch,
         \A f \in DOMAIN batch : batch'[f] \in {"accepted", "new"} =>
                                    batch[f] \in {"accepted", "new"},
         \A f \in DOMAIN batch : Written(batch[f]) => Written(batch'[f]),
         phase = "posting", phase' \in {"posting", "over"}
  PROVE  MintsOK'
<1>1. /\ Minted' = Minted /\ (Targeted' <=> Targeted)
      /\ \A r : AskedFor(r)' <=> AskedFor(r)
  BY SelectionIs, SameRecords
<1>2. /\ opts' = opts /\ found' = found /\ SelectedOnce' = SelectedOnce
      /\ OnePerId(found)' = OnePerId(found)
  BY SelectionIs DEF OnePerId
<1>3. Minted' # {} \/ DOMAIN batch' # {} \/ bulk' # "none" => opts'.yes \/ confirmed'
  BY <1>1, <1>2 DEF RetryInv, MintsOK
<1>4. /\ SelectedOnce' => \A r, s \in Minted' : recs'[r].of = recs'[s].of => r = s
      /\ \A r \in Minted' : recs'[r].of \in DOMAIN recs' /\ AskedFor(recs[r].of)'
  BY <1>1, <1>2 DEF RetryInv, MintsOK
<1>5. \A r \in Minted' : IF Targeted'
        THEN \E f \in DOMAIN batch' : f.id = recs'[r].of /\ Written(batch[f])'
        ELSE Written(bulk)'
  <2>1. \A ph : Written(ph)' <=> Written(ph)
    BY DEF Written, Truthful
  <2>2. \A f \in DOMAIN batch : Written(batch[f]) => Written(batch[f])'
    BY DEF Written, Truthful
  <2>3. Written(bulk) => Written(bulk)'
    BY DEF Written, Truthful
  <2>4. \A r \in Minted : IF Targeted
          THEN \E f \in DOMAIN batch : f.id = recs[r].of /\ Written(batch[f])
          ELSE Written(bulk)
    BY DEF RetryInv, MintsOK
  <2>5. QED  BY <1>1, <2>2, <2>3, <2>4
<1>6. \A f \in DOMAIN batch' :
         batch'[f] \in {"accepted", "new"} => \E r \in Minted' : recs'[r].of = f.id
  BY <1>1 DEF RetryInv, MintsOK
<1>7. DOMAIN batch' # {} => /\ \A f \in found' : AskedFor(f.id)'
                            /\ SelectedOnce' => OnePerId(found)'
  BY <1>1, <1>2 DEF RetryInv, MintsOK
<1>8. phase' # "previewed"
  OBVIOUS
<1>9. QED  BY <1>3, <1>4, <1>5, <1>6, <1>7, <1>8 DEF MintsOK

\* A task that sends its POST, or hears of it; GitLab refuses one.
LEMMA MoveKeeps ==
  ASSUME RetryInv, phase = "posting", Targeted,
         UNCHANGED <<gitlabVars, cacheVars, commandVars, observers>>,
         NEW e \in DOMAIN batch, NEW ph \in Phase, Move(e, ph),
         ph \in {"accepted", "new"} => batch[e] \in {"accepted", "new"},
         Written(batch[e]) => Written(ph)
  PROVE  RetryInv'
<1>1. /\ recs' = recs /\ mode' = mode /\ opts' = opts /\ objects' = objects
      /\ responses' = responses /\ listing' = listing /\ found' = found
      /\ selectionUnchanged /\ bulk' = bulk /\ confirmed' = confirmed
      /\ raised' = raised /\ phase' = "posting" /\ phase' = phase /\ exit' = exit
      /\ UNCHANGED gitlabVars
  BY DEF gitlabVars, cacheVars, commandVars, observers, selectionUnchanged
<1>2. /\ BatchTypeOK' /\ DOMAIN batch' = DOMAIN batch
      /\ batch'[e] = ph /\ \A f \in DOMAIN batch : f # e => batch'[f] = batch[f]
  BY MoveIs DEF RetryInv, TypeOK
<1>3. TypeOK'
  <2>1. GitLabTypeOK'
    BY <1>1 DEF RetryInv, TypeOK, GitLabTypeOK, gitlabVars
  <2>2. /\ DOMAIN batch' \subseteq found /\ DOMAIN recs \subseteq DOMAIN recs'
        /\ bulk' \in {"none", "sent", "accepted", "refused", "new", "error"}
        /\ raised' \in {"none", "transport", "config"} /\ confirmed' \in BOOLEAN
    BY <1>1, <1>2 DEF RetryInv, TypeOK
  <2>3. QED  BY <1>1, <1>2, <2>1, <2>2, TypesStay DEF RetryInv
<1>4. ReadOK'
  BY <1>1, SameStays, NothingRead DEF RetryInv
<1>5. PhaseOK'
  <2>1. Targeted' /\ bulk' = "none" /\ DOMAIN batch' = found'
    BY <1>1, <1>2, SameRecords DEF RetryInv, PhaseOK
  <2>2. QED  BY <1>1, <2>1 DEF PhaseOK, Prompted
<1>6. MintsOK'
  <2>1. \A f \in DOMAIN batch : batch'[f] \in {"accepted", "new"} =>
                                   batch[f] \in {"accepted", "new"}
    BY <1>2
  <2>2. \A f \in DOMAIN batch : Written(batch[f]) => Written(batch'[f])
    BY <1>2
  <2>3. QED  BY <1>1, <1>2, <2>1, <2>2, PhasesKeep
<1>7. exit' # 0 /\ exit' # 1 /\ exit' # 2
  BY <1>1, StillRunning DEF RetryInv
<1>8. ExitOK'
  BY <1>7 DEF ExitOK
<1>9. DueOK'
  BY <1>1, DueStays
<1>10. WayOK'
  BY <1>1, SelectionIsOver
<1>11. QED  BY <1>3, <1>4, <1>5, <1>6, <1>8, <1>9, <1>10 DEF RetryInv

\* A task is at one point of its way.
LEMMA StageIs ==
  ASSUME RetryInv, phase = "posting", Targeted,
         UNCHANGED <<gitlabVars, cacheVars, commandVars, observers>>,
         NEW e \in DOMAIN batch, Send(e) \/ Refuse(e) \/ Collect(e)
  PROVE  RetryInv'
<1>1. CASE Send(e)
  <2>1. Move(e, "sent") /\ batch[e] = "waiting" /\ "sent" \in Phase
    BY <1>1 DEF Send, Phase, OnWire
  <2>2. QED  BY <2>1, MoveKeeps DEF Written
<1>2. CASE Refuse(e)
  <2>1. Move(e, "refused") /\ batch[e] = "sent" /\ "refused" \in Phase
    BY <1>2 DEF Refuse, Phase, OnWire
  <2>2. QED  BY <2>1, MoveKeeps DEF Written
<1>3. CASE Collect(e)
  <2>1. "new" \in Phase /\ "error" \in Phase
    BY DEF Phase, Settled
  <2>2. CASE batch[e] = "accepted" /\ Move(e, "new")
    BY <2>1, <2>2, MoveKeeps DEF Written
  <2>3. CASE batch[e] = "accepted" /\ ~Truthful /\ Move(e, "error")
    BY <2>1, <2>3, MoveKeeps DEF Written
  <2>4. CASE batch[e] = "refused" /\ Move(e, "error")
    BY <2>1, <2>4, MoveKeeps DEF Written
  <2>5. QED  BY <1>3, <2>2, <2>3, <2>4 DEF Collect
<1>4. QED  BY <1>1, <1>2, <1>3

\* GitLab adds a record at the end, of a job it had.
LEMMA MintIs ==
  ASSUME GitLabTypeOK, NEW r \in DOMAIN recs, Mint(r, 1)
  PROVE  /\ GitLabTypeOK' /\ RecordsStay /\ FinalStays /\ mode' = mode
         /\ \E n : /\ n \notin DOMAIN recs /\ DOMAIN recs' = DOMAIN recs \cup {n}
                   /\ recs'[n].of = r
                   /\ Minted' = Minted \cup {n}
         /\ \A s \in Minted : s \in DOMAIN recs /\ recs'[s].of = recs[s].of
<1> DEFINE n == Len(recs) + 1
<1>1. /\ GitLabTypeOK' /\ RecordsStay /\ mode' = mode
      /\ DOMAIN recs' = DOMAIN recs \cup {n} /\ n \notin DOMAIN recs
      /\ recs'[n].by = 1 /\ recs'[n].of = r
  BY MintRecords
<1>2. PICK v \in BOOLEAN :
         Change(Append(recs, NewRecord(recs[r].pipe, recs[r].name, 1, r, v)))
  BY DEF Mint
<1>3. NewRecord(recs[r].pipe, recs[r].name, 1, r, v) \in Record
  <2>1. recs[r].pipe \in Nat \ {0} /\ recs[r].name \in Name /\ r \in Nat /\ 1 \in Nat
    BY RecordsAre DEF Record
  <2>2. QED  BY <2>1, NewRecordType
<1>4. \A q \in DOMAIN recs : recs'[q] = recs[q]
  BY <1>2, <1>3, AppendKeeps
<1> HIDE DEF n
<1>5. FinalStays
  BY <1>4 DEF FinalStays
<1>6. Minted' = Minted \cup {n}
  BY <1>1, <1>4 DEF Minted
<1>7. \A s \in Minted : s \in DOMAIN recs /\ recs'[s].of = recs[s].of
  BY <1>4 DEF Minted
<1>8. QED  BY <1>1, <1>5, <1>6, <1>7

\* GitLab accepts the retry of a task, whether or not somebody still waits for
\* the answer.
LEMMA AcceptKeeps ==
  ASSUME RetryInv, NEW e \in DOMAIN batch, Accept(e, 1),
         UNCHANGED <<cacheVars, commandVars, observers>>
  PROVE  RetryInv'
<1>1. /\ opts' = opts /\ objects' = objects
      /\ responses' = responses /\ listing' = listing /\ found' = found
      /\ bulk' = bulk /\ confirmed' = confirmed /\ raised' = raised
      /\ usedCache' = usedCache /\ shifted' = shifted /\ due' = due
      /\ phase' = phase /\ exit' = exit /\ selectionUnchanged
      /\ SelectedOnce' = SelectedOnce
  BY DEF cacheVars, commandVars, observers, selectionUnchanged, SelectedOnce
<1>2. batch[e] = "sent" /\ Mint(e.id, 1) /\ Move(e, "accepted") /\ "accepted" \in Phase
  BY DEF Accept, Phase, OnWire
<1>3. /\ BatchTypeOK' /\ DOMAIN batch' = DOMAIN batch
      /\ batch'[e] = "accepted" /\ \A f \in DOMAIN batch : f # e => batch'[f] = batch[f]
  BY <1>2, MoveIs DEF RetryInv, TypeOK
<1>4. e \in found /\ DOMAIN batch \subseteq found /\ RowsTell(found) /\ GitLabTypeOK
  BY DEF RetryInv, TypeOK, ReadOK
<1>5. e.id \in DOMAIN recs
  BY <1>4 DEF RowsTell, Tells
<1>6. /\ GitLabTypeOK' /\ RecordsStay /\ FinalStays /\ mode' = mode
      /\ \A s \in Minted : s \in DOMAIN recs /\ recs'[s].of = recs[s].of
  BY <1>2, <1>4, <1>5, MintIs
<1>7. PICK n : /\ n \notin DOMAIN recs /\ DOMAIN recs' = DOMAIN recs \cup {n}
               /\ recs'[n].of = e.id
               /\ Minted' = Minted \cup {n}
  BY <1>2, <1>4, <1>5, MintIs
<1>8. Targeted /\ Targeted' /\ bulk = "none" /\ phase \in {"posting", "over"}
  <2>1. Targeted /\ bulk = "none" /\ phase \in {"posting", "over"}
    BY DEF RetryInv, PhaseOK
  <2>2. QED  BY <1>1, <2>1 DEF Targeted
<1>9. /\ \A ph : Written(ph)' <=> Written(ph)
      /\ ~Written("sent") /\ Written("accepted")
  BY <1>6 DEF Written, Truthful
<1>10. SelectedOnce => \A r \in Minted : recs[r].of # e.id
  <2> SUFFICES ASSUME SelectedOnce, NEW r \in Minted, recs[r].of = e.id PROVE FALSE
    OBVIOUS
  <2>1. PICK f \in DOMAIN batch : f.id = recs[r].of /\ Written(batch[f])
    BY <1>8 DEF RetryInv, MintsOK
  <2>2. OnePerId(found)
    BY DEF RetryInv, MintsOK
  <2>3. f = e
    BY <1>4, <2>1, <2>2 DEF OnePerId
  <2>4. QED  BY <1>2, <1>9, <2>1, <2>3
<1>11. TypeOK'
  <2>1. /\ DOMAIN batch' \subseteq found /\ DOMAIN recs \subseteq DOMAIN recs'
        /\ bulk' \in {"none", "sent", "accepted", "refused", "new", "error"}
        /\ raised' \in {"none", "transport", "config"} /\ confirmed' \in BOOLEAN
    BY <1>1, <1>3, <1>4, <1>7 DEF RetryInv, TypeOK
  <2>2. QED  BY <1>1, <1>3, <1>6, <2>1, TypesStay DEF RetryInv
<1>12. ReadOK'
  BY <1>1, <1>6, NothingRead DEF RetryInv
<1>13. PhaseOK'
  BY <1>1, <1>3, <1>8 DEF RetryInv, PhaseOK, Prompted
<1>14. \A f \in found' : AskedFor(f.id)'
  <2>1. \A f \in found : f.id \in DOMAIN recs /\ AskedFor(f.id)
    BY <1>4 DEF RetryInv, MintsOK, RowsTell, Tells
  <2>2. QED  BY <1>1, <1>6, <2>1, StaysTrue
<1>15. MintsOK'
  <2>1. opts'.yes \/ confirmed'
    BY <1>1 DEF RetryInv, MintsOK
  <2>2. SelectedOnce' => \A r, s \in Minted' : recs'[r].of = recs'[s].of => r = s
    <3>1. SelectedOnce => \A r, s \in Minted : recs[r].of = recs[s].of => r = s
      BY DEF RetryInv, MintsOK
    <3> SUFFICES ASSUME SelectedOnce
                 PROVE  \A r, s \in Minted' : recs'[r].of = recs'[s].of => r = s
      BY <1>1
    <3>2. QED  BY <1>6, <1>7, <1>10, <3>1
  <2>3. \A r \in Minted' : recs'[r].of \in DOMAIN recs' /\ AskedFor(recs[r].of)'
    <3>1. \A r \in Minted : recs[r].of \in DOMAIN recs /\ AskedFor(recs[r].of)
      BY DEF RetryInv, MintsOK
    <3>2. ASSUME NEW r \in Minted, NEW of, of = recs[r].of
          PROVE  AskedFor(of)'
      BY <1>1, <1>6, <3>1, <3>2, StaysTrue
    <3>3. \A r \in Minted : AskedFor(recs[r].of)'
      BY <1>6, <3>2 DEF AskedFor
    <3>4. AskedFor(recs[n].of)'
      <4>1. AskedFor(e.id)'
        BY <1>1, <1>4, <1>14
      <4>2. QED  BY <1>7, <4>1 DEF AskedFor
    <3>5. \A r \in Minted' : recs'[r].of \in DOMAIN recs'
      BY <1>5, <1>6, <1>7, <3>1
    <3>6. QED  BY <1>7, <3>3, <3>4, <3>5
  <2>4. \A r \in Minted' : \E f \in DOMAIN batch' :
           f.id = recs'[r].of /\ Written(batch[f])'
    <3>1. ASSUME NEW r \in Minted
          PROVE  \E f \in DOMAIN batch' : f.id = recs'[r].of /\ Written(batch[f])'
      <4>1. PICK f \in DOMAIN batch : f.id = recs[r].of /\ Written(batch[f])
        BY <1>8 DEF RetryInv, MintsOK
      <4>2. f # e
        BY <1>2, <1>9, <4>1
      <4>3. Written(batch[f])'
        BY <1>3, <1>6, <4>1, <4>2 DEF Written, Truthful
      <4>4. QED  BY <1>3, <1>6, <4>1, <4>3
    <3>2. Written(batch[e])'
      BY <1>3 DEF Written
    <3>3. QED  BY <1>3, <1>7, <3>1, <3>2
  <2>5. \A f \in DOMAIN batch' : batch'[f] \in {"accepted", "new"} =>
                                    \E r \in Minted' : recs'[r].of = f.id
    <3> SUFFICES ASSUME NEW f \in DOMAIN batch', batch'[f] \in {"accepted", "new"}
                 PROVE  \E r \in Minted' : recs'[r].of = f.id
      OBVIOUS
    <3>1. CASE f = e
      BY <1>7, <3>1
    <3>2. CASE f # e
      <4>1. PICK r \in Minted : recs[r].of = f.id
        BY <1>3, <3>2 DEF RetryInv, MintsOK
      <4>2. QED  BY <1>6, <1>7, <4>1
    <3>3. QED  BY <3>1, <3>2
  <2>6. SelectedOnce' => OnePerId(found)'
    BY <1>1 DEF RetryInv, MintsOK, OnePerId
  <2>7. QED  BY <1>8, <1>14, <2>1, <2>2, <2>3, <2>4, <2>5, <2>6 DEF MintsOK
<1>16. ExitOK'
  <2>1. exit # 0
    BY <1>2, <1>4, <1>8 DEF RetryInv, ExitOK
  <2>2. exit = 1 => \E f \in DOMAIN batch : batch[f] = "error"
    BY <1>8 DEF RetryInv, ExitOK, NothingPosted
  <2>3. exit = 1 => \E f \in DOMAIN batch' : batch'[f] = "error"
    BY <1>2, <1>3, <2>2
  <2>4. exit = 2 => \/ raised = "transport"
                    \/ raised = "config" /\ \E f \in DOMAIN batch : batch[f] = "refused"
    BY <1>8 DEF RetryInv, ExitOK, NothingPosted
  <2>5. exit = 2 => \/ raised = "transport"
                    \/ raised = "config" /\ \E f \in DOMAIN batch' : batch'[f] = "refused"
    BY <1>2, <1>3, <2>4
  <2>6. QED  BY <1>1, <2>1, <2>3, <2>5 DEF ExitOK
<1>17. DueOK'
  <2>1. \A r \in due' : r \in DOMAIN recs /\ recs[r].status = "failed"
    BY <1>1 DEF RetryInv, DueOK
  <2>2. \A r \in due' : r \in DOMAIN recs' /\ recs'[r].status = "failed"
    BY <1>1, <1>6, <1>7, <2>1, StaysTrue
  <2>3. phase' \notin {"previewed", "listing", "fetching"} /\ bulk' \notin {"accepted", "new"}
    BY <1>1, <1>8
  <2>4. ~usedCache' /\ (opts'.failedOnly => ~shifted') /\ (phase' = "posting" \/ exit' = 0) =>
           \A r \in due' : AskedFor(r)' => Again(r)' # {} \/ r \in Ids(found')
    <3> SUFFICES ASSUME ~usedCache', opts'.failedOnly => ~shifted',
                        phase' = "posting" \/ exit' = 0,
                        NEW r \in due', AskedFor(r)', r \notin Ids(found')
                 PROVE  Again(r)' # {}
      OBVIOUS
    <3>1. AskedFor(r)
      BY <1>1, <1>6, <2>1, StaysTrue
    <3>2. Again(r) # {}
      BY <1>1, <1>8, <3>1 DEF RetryInv, DueOK
    <3>3. QED  BY <1>1, <1>6, <3>2, StaysTrue
  <2>5. Minted' # {} /\ Ids(found)' = Ids(found')
    BY <1>7 DEF Ids
  <2>6. QED  BY <2>2, <2>3, <2>4, <2>5 DEF DueOK
<1>18. WayOK'
  <2>1. phase' \notin {"start", "listing", "fetching"}
    BY <1>1, <1>8
  <2>2. QED  BY <2>1, SelectionIsOver
<1>19. QED  BY <1>11, <1>12, <1>13, <1>15, <1>16, <1>17, <1>18 DEF RetryInv

\* Cancelling drops the tasks that wait, or lets one of them be sent.
LEMMA CancelIs ==
  ASSUME BatchTypeOK,
         \/ batch' = Cancelled
         \/ \E e \in DOMAIN batch :
               batch[e] = "waiting" /\ batch' = [Cancelled EXCEPT ![e] = "sent"]
  PROVE  /\ BatchTypeOK' /\ DOMAIN batch' = DOMAIN batch
         /\ \A f \in DOMAIN batch : IF batch[f] = "waiting" THEN batch'[f] \in {"dropped", "sent"}
                                    ELSE batch'[f] = batch[f]
<1>1. /\ DOMAIN Cancelled = DOMAIN batch
      /\ \A f \in DOMAIN batch :
            Cancelled[f] = IF batch[f] = "waiting" THEN "dropped" ELSE batch[f]
  BY DEF Cancelled
<1>2. batch \in [DOMAIN batch -> Phase] /\ "dropped" \in Phase /\ "sent" \in Phase
  BY DEF BatchTypeOK, Phase, OnWire
<1>3. Cancelled \in [DOMAIN batch -> Phase]
  BY <1>1, <1>2 DEF Cancelled
<1> HIDE DEF Cancelled
<1>4. CASE batch' = Cancelled
  <2>1. DOMAIN batch' = DOMAIN batch /\ batch' \in [DOMAIN batch -> Phase]
    BY <1>1, <1>3, <1>4
  <2>2. QED  BY <1>1, <1>4, <2>1 DEF BatchTypeOK
<1>5. ASSUME NEW e \in DOMAIN batch, batch[e] = "waiting",
             batch' = [Cancelled EXCEPT ![e] = "sent"]
      PROVE  /\ BatchTypeOK' /\ DOMAIN batch' = DOMAIN batch
             /\ \A f \in DOMAIN batch :
                   IF batch[f] = "waiting" THEN batch'[f] \in {"dropped", "sent"}
                   ELSE batch'[f] = batch[f]
  <2>1. DOMAIN batch' = DOMAIN batch /\ batch' \in [DOMAIN batch -> Phase]
    BY <1>1, <1>2, <1>3, <1>5
  <2>2. batch'[e] = "sent" /\ \A f \in DOMAIN batch : f # e => batch'[f] = Cancelled[f]
    BY <1>1, <1>5
  <2>3. \A f \in DOMAIN batch : IF batch[f] = "waiting" THEN batch'[f] \in {"dropped", "sent"}
                                ELSE batch'[f] = batch[f]
    BY <1>1, <1>5, <2>2
  <2>4. QED  BY <2>1, <2>3 DEF BatchTypeOK
<1>6. QED  BY <1>4, <1>5

\* A POST raises: the command ends with 2, and says what it was.
LEMMA RaisesKeeps ==
  ASSUME RetryInv, phase = "posting", NEW what \in {"transport", "config"}, Raises(what),
         what = "config" => bulk = "refused" \/ \E e \in DOMAIN batch : batch[e] = "refused"
  PROVE  RetryInv'
<1>1. /\ recs' = recs /\ mode' = mode /\ opts' = opts /\ objects' = objects
      /\ responses' = responses /\ listing' = listing /\ found' = found
      /\ bulk' = bulk /\ confirmed' = confirmed /\ selectionUnchanged
      /\ raised' = what /\ phase' = "over" /\ exit' = 2
      /\ UNCHANGED gitlabVars
  BY DEF Raises, Exit, gitlabVars, cacheVars, selectionUnchanged
<1>2. /\ BatchTypeOK' /\ DOMAIN batch' = DOMAIN batch
      /\ \A f \in DOMAIN batch : IF batch[f] = "waiting" THEN batch'[f] \in {"dropped", "sent"}
                                 ELSE batch'[f] = batch[f]
  <2>1. BatchTypeOK
    BY DEF RetryInv, TypeOK
  <2>2. \/ batch' = Cancelled
        \/ \E e \in DOMAIN batch :
              batch[e] = "waiting" /\ batch' = [Cancelled EXCEPT ![e] = "sent"]
    BY DEF Raises
  <2>3. QED  BY <2>1, <2>2, CancelIs
<1>3. exit' \in {0, 1, 2} /\ exit' # 0 /\ exit' # 1
  BY <1>1
<1>4. TypeOK'
  <2>1. GitLabTypeOK'
    BY <1>1 DEF RetryInv, TypeOK, GitLabTypeOK, gitlabVars
  <2>2. /\ DOMAIN batch' \subseteq found /\ DOMAIN recs \subseteq DOMAIN recs'
        /\ bulk' \in {"none", "sent", "accepted", "refused", "new", "error"}
        /\ raised' \in {"none", "transport", "config"} /\ confirmed' \in BOOLEAN
    BY <1>1, <1>2 DEF RetryInv, TypeOK
  <2>3. QED  BY <1>1, <1>2, <1>3, <2>1, <2>2, TypesStay DEF RetryInv
<1>5. ReadOK'
  BY <1>1, SameStays, NothingRead DEF RetryInv
<1>6. PhaseOK'
  <2>1. /\ Targeted' <=> Targeted
        /\ Targeted => bulk = "none"
        /\ ~Targeted => DOMAIN batch = {} /\ found = {}
    BY <1>1, SameRecords DEF RetryInv, PhaseOK
  <2>2. QED  BY <1>1, <1>2, <2>1 DEF PhaseOK, Prompted
<1>7. MintsOK'
  <2>1. \A f \in DOMAIN batch : batch'[f] \in {"accepted", "new"} =>
                                   batch[f] \in {"accepted", "new"}
    BY <1>2
  <2>2. \A f \in DOMAIN batch : Written(batch[f]) => Written(batch'[f])
    BY <1>2 DEF Written
  <2>3. QED  BY <1>1, <1>2, <2>1, <2>2, PhasesKeep
<1>8. ExitOK'
  <2>1. what = "config" =>
           bulk' = "refused" \/ \E e \in DOMAIN batch' : batch'[e] = "refused"
    BY <1>1, <1>2
  <2>2. QED  BY <1>1, <1>3, <2>1 DEF ExitOK
<1>9. DueOK'
  BY <1>1, <1>3, DueStays
<1>10. WayOK'
  BY <1>1, SelectionIsOver
<1>11. QED  BY <1>4, <1>5, <1>6, <1>7, <1>8, <1>9, <1>10 DEF RetryInv

LEMMA BreaksKeep ==
  ASSUME RetryInv, TransportBreaks \/ ConfigBreaks
  PROVE  RetryInv'
<1>1. CASE TransportBreaks
  <2>1. phase = "posting" /\ Raises("transport")
    BY <1>1 DEF TransportBreaks
  <2>2. QED  BY <2>1, RaisesKeeps
<1>2. CASE ConfigBreaks
  <2>1. /\ phase = "posting" /\ Raises("config")
        /\ bulk = "refused" \/ \E e \in DOMAIN batch : batch[e] = "refused"
    BY <1>2 DEF ConfigBreaks
  <2>2. QED  BY <2>1, RaisesKeeps
<1>3. QED  BY <1>1, <1>2

-----------------------------------------------------------------------------
(* The surroundings.                                                       *)

\* GitLab goes on between two pages: of the jobs in scope those that are still to
\* come are not moved to a page that has been read.
LEMMA ServerLists ==
  ASSUME RetryInv, phase = "listing",
         NEW r \in DOMAIN recs, JobFinishes(r) \/ OtherRetry(r) \/ Publish(r),
         UNCHANGED <<opts, phase, page, found, scope, shifted, usedCache, due>>
  PROVE  ListingOK'
<1>1. GitLabTypeOK /\ page \in Nat \ {0} /\ RowsTell(found)
  BY DEF RetryInv, TypeOK, ReadOK
<1>2. /\ opts.mode = "filter" /\ page # 1
      /\ \A e \in found : Passes(e)
      /\ ~shifted => OnePerId(found) /\ \A e \in found : ~IsAhead(scope, e.id)
      /\ ~usedCache => \A q \in due : AskedFor(q) /\ Again(q) = {} /\ q \notin Ids(found) =>
            IF opts.failedOnly THEN shifted \/ (q \in scope /\ IsAhead(scope, q))
            ELSE IsAhead(Live(recs, 1), q)
  BY DEF RetryInv, WayOK, ListingOK
<1>3. \A q \in DOMAIN recs : recs[q].seen /\ recs[q].pipe = 1
  BY NothingSent DEF RetryInv, DueOK, NothingPosted
<1>4. /\ RecordsStay /\ FinalStays
      /\ \A q \in Live(recs, 1) : q \in Live(recs', 1) \/ Again(q)' # {}
  BY <1>1, <1>3, GitLabGoesOn
<1>5. JobFinishes(r) \/ OtherRetry(r)
  BY <1>1, <1>3, PublishStays
<1>6. \A q \in due : /\ q \in DOMAIN recs /\ recs[q].status = "failed"
                     /\ Again(q) # {} \/ q \in Live(recs, 1)
  BY DueAre
<1>7. \A e \in found' : Passes(e)'
  <2> SUFFICES ASSUME NEW e \in found PROVE Passes(e)'
    OBVIOUS
  <2>1. e.id \in DOMAIN recs
    BY <1>1 DEF RowsTell, Tells
  <2>2. recs'[e.id].name = recs[e.id].name
    BY <1>4, <2>1 DEF RecordsStay
  <2>3. Passes(e)
    BY <1>2
  <2>4. QED  BY <2>2, <2>3 DEF Passes, IsAllowed
<1>8. ~shifted' => OnePerId(found)' /\ \A e \in found' : ~IsAhead(scope, e.id)'
  BY <1>2 DEF OnePerId, IsAhead, Rank
<1>9. ASSUME ~usedCache', NEW q \in due', AskedFor(q)', Again(q)' = {}, q \notin Ids(found)'
      PROVE  IF opts'.failedOnly THEN shifted' \/ (q \in scope' /\ IsAhead(scope, q)')
             ELSE IsAhead(Live(recs, 1), q)'
  <2>1. q \in DOMAIN recs /\ recs[q].status = "failed"
    BY <1>6, <1>9
  <2>2. AskedFor(q)
    BY <1>4, <1>9, <2>1, StaysTrue
  <2>3. Again(q) = {}
    BY <1>4, <1>9, StaysTrue
  <2>4. q \in due /\ q \notin Ids(found) /\ ~usedCache
    BY <1>9 DEF Ids
  <2>5. CASE opts.failedOnly
    <3>1. shifted \/ (q \in scope /\ IsAhead(scope, q))
      BY <1>2, <2>2, <2>3, <2>4, <2>5
    <3>2. IsAhead(scope, q)' <=> IsAhead(scope, q)
      BY DEF IsAhead, Rank
    <3>3. QED  BY <2>5, <3>1, <3>2
  <2>6. CASE ~opts.failedOnly
    <3>1. IsAhead(Live(recs, 1), q)
      BY <1>2, <2>2, <2>3, <2>4, <2>6
    <3>2. q \in Live(recs', 1)
      BY <1>4, <1>6, <1>9, <2>3
    <3>3. Rank(Live(recs', 1), q) >= Rank(Live(recs, 1), q)
      BY <1>1, <1>5, <2>1, <3>2, LiveGoesOn DEF Rank
    <3>4. PICK n : n = Rank(Live(recs', 1), q)
      OBVIOUS
    <3>5. PICK m : m = Rank(Live(recs, 1), q)
      OBVIOUS
    <3>6. PICK a : a = PageSize * (page - 1)
      OBVIOUS
    <3>7. a \in Nat /\ m \in Nat
      <4>1. a \in Nat
        BY <1>1, <3>6, GitLabAssumption
      <4>2. Live(recs, 1) \in SUBSET DOMAIN recs
        BY DEF Live, Attempts
      <4>3. QED  BY <1>1, <3>5, <4>1, <4>2, RankIs
    <3>8. n \in Nat
      <4>1. Live(recs', 1) \in SUBSET DOMAIN recs'
        BY DEF Live, Attempts
      <4>2. GitLabTypeOK'
        BY <1>1, GitLabGoesOn
      <4>3. {s \in Live(recs', 1) : s > q} \in SUBSET DOMAIN recs'
        BY <4>1
      <4>4. IsFiniteSet(DOMAIN recs')
        <5>1. Len(recs') \in Nat /\ DOMAIN recs' = 1 .. Len(recs')
          BY <4>2, LenProperties DEF GitLabTypeOK
        <5>2. QED  BY <5>1, FS_Interval
      <4>5. Cardinality({s \in Live(recs', 1) : s > q}) \in Nat
        BY <4>3, <4>4, FS_Subset, FS_CardinalityType
      <4>6. QED  BY <3>4, <4>5 DEF Rank
    <3>9. m >= a
      BY <3>1, <3>5, <3>6 DEF IsAhead
    <3>10. n >= m
      BY <3>3, <3>4, <3>5
    <3>11. n >= a
      BY <3>7, <3>8, <3>9, <3>10
    <3>12. IsAhead(Live(recs, 1), q)'
      BY <3>4, <3>6, <3>11 DEF IsAhead, Rank
    <3>13. QED  BY <2>6, <3>12
  <2>7. QED  BY <2>5, <2>6
<1>10. opts'.mode = "filter" /\ page' # 1
  BY <1>2
<1>11. QED  BY <1>7, <1>8, <1>9, <1>10 DEF ListingOK

\* What was read stays true, and no job is lost from its list.
LEMMA ServerKeeps ==
  ASSUME RetryInv, phase # "over",
         NEW r \in DOMAIN recs, JobFinishes(r) \/ OtherRetry(r) \/ Publish(r),
         UNCHANGED <<batch, cacheVars, commandVars, observers>>
  PROVE  RetryInv'
<1>1. /\ opts' = opts /\ objects' = objects /\ batch' = batch
      /\ responses' = responses /\ listing' = listing /\ found' = found
      /\ bulk' = bulk /\ confirmed' = confirmed /\ raised' = raised
      /\ usedCache' = usedCache /\ shifted' = shifted /\ due' = due
      /\ phase' = phase /\ exit' = exit /\ selectionUnchanged
      /\ page' = page /\ requests' = requests /\ scope' = scope
  BY DEF cacheVars, commandVars, observers, selectionUnchanged
<1>2. GitLabTypeOK /\ GitLabNext
  BY DEF RetryInv, TypeOK, GitLabNext
<1>3. /\ GitLabTypeOK' /\ RecordsStay /\ FinalStays
      /\ \A q \in DOMAIN recs' \ DOMAIN recs : recs'[q].by = 0
      /\ (\A q \in DOMAIN recs : recs[q].seen /\ recs[q].pipe = 1) =>
            /\ \A q \in DOMAIN recs' : recs'[q].seen /\ recs'[q].pipe = 1
            /\ \A q \in Live(recs, 1) : q \in Live(recs', 1) \/ Again(q)' # {}
  BY <1>2, GitLabGoesOn
<1>4. DOMAIN recs \subseteq DOMAIN recs'
  BY <1>3 DEF RecordsStay
<1>5. Minted' = Minted /\ \A s \in Minted : s \in DOMAIN recs /\ recs'[s].of = recs[s].of
  <2>1. \A q \in DOMAIN recs' \ DOMAIN recs : recs'[q].by # 1
    BY <1>3
  <2>2. QED  BY <1>3, <2>1, MintedStays
<1>6. /\ Targeted' <=> Targeted
      /\ SelectedOnce' = SelectedOnce /\ OnePerId(found)' = OnePerId(found)
      /\ Ids(found)' = Ids(found)
  BY <1>1, SelectionIs DEF Targeted, OnePerId, Ids
<1>7. \A ph : Written(ph)' <=> Written(ph)
  BY <1>2, ServerRecords DEF Written, Truthful
<1>8. TypeOK'
  <2>1. BatchTypeOK'
    BY <1>1 DEF RetryInv, TypeOK, BatchTypeOK
  <2>2. /\ DOMAIN batch' \subseteq found
        /\ bulk' \in {"none", "sent", "accepted", "refused", "new", "error"}
        /\ raised' \in {"none", "transport", "config"} /\ confirmed' \in BOOLEAN
    BY <1>1 DEF RetryInv, TypeOK
  <2>3. QED  BY <1>1, <1>3, <1>4, <2>1, <2>2, TypesStay DEF RetryInv
<1>9. ReadOK'
  BY <1>1, <1>3, NothingRead DEF RetryInv
<1>10. PhaseOK'
  BY <1>1, <1>6 DEF RetryInv, PhaseOK, Prompted
<1>11. MintsOK'
  <2>1. Minted' # {} \/ DOMAIN batch' # {} \/ bulk' # "none" => opts'.yes \/ confirmed'
    BY <1>1, <1>5 DEF RetryInv, MintsOK
  <2>2. SelectedOnce' => \A q, s \in Minted' : recs'[q].of = recs'[s].of => q = s
    BY <1>5, <1>6 DEF RetryInv, MintsOK
  <2>3. \A q \in Minted' : recs'[q].of \in DOMAIN recs' /\ AskedFor(recs[q].of)'
    <3>1. \A q \in Minted : recs[q].of \in DOMAIN recs /\ AskedFor(recs[q].of)
      BY DEF RetryInv, MintsOK
    <3>2. ASSUME NEW q \in Minted, NEW of, of = recs[q].of
          PROVE  AskedFor(of)'
      BY <1>1, <1>3, <3>1, <3>2, StaysTrue
    <3>3. \A q \in Minted : AskedFor(recs[q].of)'
      BY <1>5, <3>2 DEF AskedFor
    <3>4. QED  BY <1>4, <1>5, <3>1, <3>3
  <2>4. \A q \in Minted' : IF Targeted'
          THEN \E e \in DOMAIN batch' : e.id = recs'[q].of /\ Written(batch[e])'
          ELSE Written(bulk)'
    <3>1. \A q \in Minted : IF Targeted
            THEN \E e \in DOMAIN batch : e.id = recs[q].of /\ Written(batch[e])
            ELSE Written(bulk)
      BY DEF RetryInv, MintsOK
    <3>2. Written(bulk)' <=> Written(bulk)
      BY <1>1, <1>7 DEF Written
    <3>3. \A e \in DOMAIN batch : Written(batch[e])' <=> Written(batch[e])
      BY <1>1, <1>7 DEF Written
    <3>4. QED  BY <1>1, <1>5, <1>6, <3>1, <3>2, <3>3
  <2>5. \A e \in DOMAIN batch' :
           batch'[e] \in {"accepted", "new"} => \E q \in Minted' : recs'[q].of = e.id
    BY <1>1, <1>5 DEF RetryInv, MintsOK
  <2>6. phase' = "previewed" \/ DOMAIN batch' # {} =>
           /\ \A e \in found' : AskedFor(e.id)'
           /\ SelectedOnce' => OnePerId(found)'
    <3>1. \A e \in found : e.id \in DOMAIN recs
      BY DEF RetryInv, ReadOK, RowsTell, Tells
    <3>2. phase = "previewed" \/ DOMAIN batch # {} =>
             /\ \A e \in found : AskedFor(e.id)
             /\ SelectedOnce => OnePerId(found)
      BY DEF RetryInv, MintsOK
    <3>3. phase = "previewed" \/ DOMAIN batch # {} => \A e \in found : AskedFor(e.id)'
      BY <1>1, <1>3, <3>1, <3>2, StaysTrue
    <3>4. QED  BY <1>1, <1>6, <3>2, <3>3
  <2>7. QED  BY <2>1, <2>2, <2>3, <2>4, <2>5, <2>6 DEF MintsOK
<1>12. exit' # 0 /\ exit' # 1 /\ exit' # 2
  BY <1>1, StillRunning DEF RetryInv
<1>13. ExitOK'
  BY <1>12 DEF ExitOK
<1>14. DueOK'
  <2>1. \A q \in due' : q \in DOMAIN recs /\ recs[q].status = "failed"
    BY <1>1 DEF RetryInv, DueOK
  <2>2. \A q \in due' : q \in DOMAIN recs' /\ recs'[q].status = "failed"
    BY <1>1, <1>3, <1>4, <2>1, StaysTrue
  <2>3. \A q : Again(q) # {} => Again(q)' # {}
    BY <1>1, <1>3, StaysTrue
  <2>4. Minted' = {} => /\ \A q \in DOMAIN recs' : recs'[q].seen /\ recs'[q].pipe = 1
                        /\ \A q \in due' : Again(q)' # {} \/ q \in Live(recs', 1)
    <3>1. Minted = {} => /\ \A q \in DOMAIN recs : recs[q].seen /\ recs[q].pipe = 1
                         /\ \A q \in due : Again(q) # {} \/ q \in Live(recs, 1)
      BY DEF RetryInv, DueOK
    <3>2. QED  BY <1>1, <1>3, <1>5, <2>3, <3>1
  <2>5. phase' \in {"listing", "fetching"} /\ ~usedCache' =>
           \A e \in found' : e.id \in due' => e.st = "failed"
    BY <1>1 DEF RetryInv, DueOK
  <2>6. Targeted' /\ ~usedCache' /\ (opts'.failedOnly => ~shifted')
              /\ (phase' \in {"previewed", "posting"} \/ exit' = 0) =>
           \A q \in due' : AskedFor(q)' => Again(q)' # {} \/ q \in Ids(found')
    <3> SUFFICES ASSUME Targeted', ~usedCache', opts'.failedOnly => ~shifted',
                        phase' \in {"previewed", "posting"},
                        NEW q \in due', AskedFor(q)', Again(q)' = {}
                 PROVE  q \in Ids(found')
      BY <1>12
    <3>1. AskedFor(q)
      BY <1>1, <1>3, <2>1, StaysTrue
    <3>2. QED  BY <1>1, <1>6, <2>3, <3>1 DEF RetryInv, DueOK
  <2>7. bulk' \in {"accepted", "new"} => \A q \in due' : Again(q)' # {}
    BY <1>1, <2>3 DEF RetryInv, DueOK
  <2>8. Ids(found)' = Ids(found')
    BY DEF Ids
  <2>9. QED  BY <2>2, <2>4, <2>5, <2>6, <2>7, <2>8 DEF DueOK
<1>15. WayOK'
  <2>1. StartOK' /\ FetchingOK'
    BY <1>1, <1>6 DEF RetryInv, WayOK, StartOK, FetchingOK
  <2>2. ListingOK'
    <3>1. CASE phase = "listing"
      BY <1>1, <3>1, ServerLists
    <3>2. CASE phase # "listing"
      BY <1>1, <3>2 DEF ListingOK
    <3>3. QED  BY <3>1, <3>2
  <2>3. QED  BY <2>1, <2>2 DEF WayOK
<1>16. QED  BY <1>8, <1>9, <1>10, <1>11, <1>13, <1>14, <1>15 DEF RetryInv

\* A POST whose task was left behind is served all the same.
LEMMA GitLabStepKeeps ==
  ASSUME RetryInv, GitLabStep
  PROVE  RetryInv'
<1>1. CASE /\ phase # "over"
           /\ \E r \in DOMAIN recs : JobFinishes(r) \/ OtherRetry(r) \/ Publish(r)
           /\ UNCHANGED batch
  BY <1>1, ServerKeeps DEF GitLabStep, cacheVars, commandVars, observers
<1>2. CASE phase = "over" /\ \E e \in DOMAIN batch : Accept(e, 1)
  BY <1>2, AcceptKeeps DEF GitLabStep
<1>3. QED  BY <1>1, <1>2 DEF GitLabStep

LEMMA BatchStepKeeps ==
  ASSUME RetryInv, BatchStep
  PROVE  RetryInv'
<1>1. PICK e \in DOMAIN batch : Send(e) \/ Accept(e, 1) \/ Refuse(e) \/ Collect(e)
  BY DEF BatchStep
<1>2. phase = "posting" /\ Targeted /\ UNCHANGED <<cacheVars, commandVars, observers>>
  BY DEF BatchStep
<1>3. CASE Accept(e, 1)
  BY <1>2, <1>3, AcceptKeeps
<1>4. CASE Send(e) \/ Refuse(e) \/ Collect(e)
  <2>1. UNCHANGED gitlabVars
    BY <1>4 DEF Send, Refuse, Collect
  <2>2. QED  BY <1>2, <1>4, <2>1, StageIs
<1>5. QED  BY <1>1, <1>3, <1>4

-----------------------------------------------------------------------------
(* The retry of the whole pipeline.                                        *)

\* GitLab retries some of its jobs: each gets one successor, and nothing else
\* is new.
LEMMA RetriedAllIs ==
  ASSUME GitLabTypeOK, NEW S \in SUBSET DOMAIN recs, Change(RetriedAll(recs, S))
  PROVE  /\ GitLabTypeOK' /\ DOMAIN recs \subseteq DOMAIN recs'
         /\ \A q \in DOMAIN recs : recs'[q] = recs[q]
         /\ \A q \in DOMAIN recs' \ DOMAIN recs : recs'[q].by = 1 /\ recs'[q].of \in S
         /\ \A p, q \in DOMAIN recs' \ DOMAIN recs : recs'[p].of = recs'[q].of => p = q
         /\ \A r \in S : \E q \in DOMAIN recs' \ DOMAIN recs : recs'[q].of = r
<1> DEFINE n == Cardinality(S)
           order == SetToSeq(S)
           m == Len(recs)
           new == [i \in 1 .. n |-> NewRecord(1, recs[order[i]].name, 1, order[i], TRUE)]
           all == recs \o new
<1>1. IsFiniteSet(S)
  BY RecordSetIsFinite
<1>2. /\ n \in Nat /\ order \in [1 .. n -> S]
      /\ \A i, j \in 1 .. n : order[i] = order[j] => i = j
      /\ \A r \in S : \E i \in 1 .. n : order[i] = r
  BY <1>1, SetToSeqLists
<1>3. /\ recs \in Seq(Record) /\ m \in Nat /\ DOMAIN recs = 1 .. m
      /\ \A r \in DOMAIN recs : recs[r] \in Record
  BY RecordsAre DEF GitLabTypeOK
<1>4. RetriedAll(recs, S) = all
  <2>1. DOMAIN order = 1 .. n
    BY <1>2
  <2>2. QED  BY <2>1 DEF RetriedAll
<1> HIDE DEF n, order, m
<1>5. /\ new \in [1 .. n -> Record]
      /\ \A i \in 1 .. n : new[i].by = 1 /\ new[i].of = order[i]
  <2> SUFFICES ASSUME NEW i \in 1 .. n
               PROVE  new[i] \in Record /\ new[i].by = 1 /\ new[i].of = order[i]
    OBVIOUS
  <2>1. order[i] \in DOMAIN recs
    BY <1>2
  <2>2. order[i] \in Nat /\ recs[order[i]].name \in Name /\ 1 \in Nat \ {0} /\ 1 \in Nat
    BY <1>3, <2>1 DEF Record
  <2>3. NewRecord(1, recs[order[i]].name, 1, order[i], TRUE) \in Record
    BY <2>2, NewRecordType
  <2>4. QED  BY <2>3 DEF NewRecord
<1> HIDE DEF new
<1>6. new \in Seq(Record) /\ Len(new) = n
  <2>1. new \in Seq(Record)
    BY <1>2, <1>5, SeqDef
  <2>2. QED  BY <1>2, <1>5, <2>1, LenProperties
<1>7. /\ all \in Seq(Record) /\ Len(all) = m + n
      /\ \A i \in 1 .. (m + n) : all[i] = IF i <= m THEN recs[i] ELSE new[i - m]
  BY <1>3, <1>6, ConcatProperties DEF m
<1> HIDE DEF all
<1>8. GitLabTypeOK' /\ recs' = all
  BY <1>4, <1>7, ChangeKeeps
<1>9. DOMAIN recs' = 1 .. (m + n)
  BY <1>7, <1>8, LenProperties
<1>10. \A q \in DOMAIN recs : q \in DOMAIN recs' /\ recs'[q] = recs[q]
  BY <1>2, <1>3, <1>7, <1>8, <1>9
<1>11. ASSUME NEW q \in DOMAIN recs' \ DOMAIN recs
       PROVE  q \in Int /\ q - m \in 1 .. n /\ recs'[q] = new[q - m]
  BY <1>2, <1>3, <1>7, <1>8, <1>9, <1>11
<1>12. ASSUME NEW i \in 1 .. n
       PROVE  /\ m + i \in DOMAIN recs' \ DOMAIN recs /\ recs'[m + i] = new[i]
  <2>1. m + i \in 1 .. (m + n) /\ ~(m + i <= m) /\ (m + i) - m = i
    BY <1>2, <1>3
  <2>2. QED  BY <1>3, <1>7, <1>8, <1>9, <2>1
<1>13. \A q \in DOMAIN recs' \ DOMAIN recs : recs'[q].by = 1 /\ recs'[q].of \in S
  BY <1>2, <1>5, <1>11
<1>14. ASSUME NEW p \in DOMAIN recs' \ DOMAIN recs, NEW q \in DOMAIN recs' \ DOMAIN recs,
              recs'[p].of = recs'[q].of
       PROVE  p = q
  <2>1. p - m = q - m
    BY <1>2, <1>5, <1>11, <1>14
  <2>2. QED  BY <1>3, <1>11, <2>1
<1>15. ASSUME NEW r \in S
       PROVE  \E q \in DOMAIN recs' \ DOMAIN recs : recs'[q].of = r
  <2>1. PICK i \in 1 .. n : order[i] = r
    BY <1>2
  <2>2. recs'[m + i].of = r /\ m + i \in DOMAIN recs' \ DOMAIN recs
    BY <1>5, <1>12, <2>1
  <2>3. QED  BY <2>2
<1>16. QED  BY <1>8, <1>10, <1>13, <1>14, <1>15

\* GitLab serves the retry of the pipeline, and somebody may still wait for it.
LEMMA ServeBulkKeeps ==
  ASSUME RetryInv, ServeBulk
  PROVE  RetryInv'
<1> DEFINE again == {r \in Live(recs, 1) : recs[r].status \in Retryable}
<1>1. /\ opts' = opts /\ objects' = objects /\ batch' = batch
      /\ responses' = responses /\ listing' = listing /\ found' = found
      /\ confirmed' = confirmed /\ raised' = raised /\ due' = due
      /\ phase' = phase /\ exit' = exit /\ bulk = "sent" /\ selectionUnchanged
  BY DEF ServeBulk, cacheVars, observers, selectionUnchanged
<1>2. \/ Change(RetriedAll(recs, again)) /\ bulk' = "accepted"
      \/ UNCHANGED gitlabVars /\ bulk' = "refused"
  BY DEF ServeBulk
<1>3. GitLabTypeOK /\ again \in SUBSET DOMAIN recs
  BY DEF RetryInv, TypeOK, Live, Attempts
<1>4. /\ ~Targeted /\ DOMAIN batch = {} /\ found = {} /\ opts.mode = "bulk"
      /\ phase \in {"posting", "over"}
  <2>1. ~Targeted /\ DOMAIN batch = {} /\ found = {} /\ phase \in {"posting", "over"}
    BY <1>1 DEF RetryInv, PhaseOK
  <2>2. QED  BY <2>1 DEF Targeted
<1>5. Minted = {}
  BY <1>1, <1>4 DEF RetryInv, MintsOK, Written
<1>6. /\ GitLabTypeOK' /\ RecordsStay /\ FinalStays
      /\ \A r \in DOMAIN recs : r \in DOMAIN recs' /\ recs'[r] = recs[r]
      /\ \A q \in DOMAIN recs' \ DOMAIN recs :
            recs'[q].by = 1 /\ recs'[q].of \in again /\ bulk' = "accepted"
      /\ \A p, q \in DOMAIN recs' \ DOMAIN recs : recs'[p].of = recs'[q].of => p = q
      /\ bulk' = "accepted" => \A r \in again : Again(r)' # {}
  <2>1. CASE Change(RetriedAll(recs, again)) /\ bulk' = "accepted"
    <3>1. /\ GitLabTypeOK' /\ DOMAIN recs \subseteq DOMAIN recs'
          /\ \A q \in DOMAIN recs : recs'[q] = recs[q]
          /\ \A q \in DOMAIN recs' \ DOMAIN recs : recs'[q].by = 1 /\ recs'[q].of \in again
          /\ \A p, q \in DOMAIN recs' \ DOMAIN recs : recs'[p].of = recs'[q].of => p = q
          /\ \A r \in again : \E q \in DOMAIN recs' \ DOMAIN recs : recs'[q].of = r
      BY <1>3, <2>1, RetriedAllIs
    <3> HIDE DEF again
    <3>2. RecordsStay /\ FinalStays
      BY <3>1 DEF RecordsStay, FinalStays
    <3>3. \A r \in again : Again(r)' # {}
      BY <3>1 DEF Again
    <3>4. QED  BY <2>1, <3>1, <3>2, <3>3
  <2>2. CASE UNCHANGED gitlabVars /\ bulk' = "refused"
    <3>1. GitLabTypeOK' /\ recs' = recs
      BY <1>3, <2>2 DEF gitlabVars, GitLabTypeOK
    <3>2. QED  BY <2>2, <3>1, SameStays
  <2>3. QED  BY <1>2, <2>1, <2>2
<1>7. Minted' = DOMAIN recs' \ DOMAIN recs
  BY <1>5, <1>6 DEF Minted
<1>8. ~Targeted' /\ bulk' \in {"accepted", "refused"}
  BY <1>1, <1>2, <1>4 DEF Targeted
<1>9. TypeOK'
  <2>1. BatchTypeOK'
    BY <1>1 DEF RetryInv, TypeOK, BatchTypeOK
  <2>2. /\ DOMAIN batch' \subseteq found /\ DOMAIN recs \subseteq DOMAIN recs'
        /\ bulk' \in {"none", "sent", "accepted", "refused", "new", "error"}
        /\ raised' \in {"none", "transport", "config"} /\ confirmed' \in BOOLEAN
    BY <1>1, <1>6, <1>8 DEF RetryInv, TypeOK
  <2>3. QED  BY <1>1, <1>6, <2>1, <2>2, TypesStay DEF RetryInv
<1>10. ReadOK'
  BY <1>1, <1>6, NothingRead DEF RetryInv
<1>11. PhaseOK'
  BY <1>1, <1>4, <1>8 DEF PhaseOK, Prompted
<1>12. MintsOK'
  <2>1. opts'.yes \/ confirmed'
    BY <1>1 DEF RetryInv, MintsOK
  <2>2. \A q \in Minted' : recs'[q].of \in DOMAIN recs' /\ AskedFor(recs[q].of)'
    <3> SUFFICES ASSUME NEW q \in Minted'
                 PROVE  recs'[q].of \in DOMAIN recs' /\ AskedFor(recs[q].of)'
      OBVIOUS
    <3>1. recs'[q].of \in DOMAIN recs' /\ recs'[recs'[q].of].status \in Retryable
      BY <1>3, <1>6, <1>7
    <3>2. QED  BY <1>1, <1>4, <3>1 DEF AskedFor
  <2>3. \A q \in Minted' : Written(bulk)'
    BY <1>6, <1>7 DEF Written
  <2>4. \A p, q \in Minted' : recs'[p].of = recs'[q].of => p = q
    BY <1>6, <1>7
  <2>5. DOMAIN batch' = {} /\ phase' # "previewed"
    BY <1>1, <1>4
  <2>6. QED  BY <1>8, <2>1, <2>2, <2>3, <2>4, <2>5 DEF MintsOK
<1>13. exit' # 0 /\ exit' # 1 /\ (exit' = 2 => raised' = "transport")
  <2>1. exit = 0 => FALSE
    BY <1>1, <1>4 DEF RetryInv, ExitOK
  <2>2. exit = 1 => FALSE
    BY <1>1, <1>4 DEF RetryInv, ExitOK, NothingPosted
  <2>3. exit = 2 => raised = "transport"
    BY <1>1, <1>4 DEF RetryInv, ExitOK, NothingPosted
  <2>4. QED  BY <1>1, <2>1, <2>2, <2>3
<1>14. ExitOK'
  BY <1>13 DEF ExitOK
<1>15. DueOK'
  <2>1. \A r \in due' : r \in DOMAIN recs /\ recs[r].status = "failed"
    BY <1>1 DEF RetryInv, DueOK
  <2>2. \A r \in due' : r \in DOMAIN recs' /\ recs'[r].status = "failed"
    BY <1>6, <2>1
  <2>3. /\ \A r \in DOMAIN recs : recs[r].seen /\ recs[r].pipe = 1
        /\ \A r \in due : Again(r) # {} \/ r \in Live(recs, 1)
    BY <1>5 DEF RetryInv, DueOK
  <2>4. bulk' = "accepted" => \A r \in due' : Again(r)' # {}
    <3>1. \A r : Again(r) # {} => Again(r)' # {}
      BY <1>1, <1>6, StaysTrue
    <3>2. \A r \in due : Again(r) # {} \/ r \in again
      BY <1>1, <2>1, <2>3 DEF Retryable
    <3>3. QED  BY <1>1, <1>6, <3>1, <3>2
  <2>5. Minted' = {} => /\ \A r \in DOMAIN recs' : recs'[r].seen /\ recs'[r].pipe = 1
                        /\ \A r \in due' : Again(r)' # {} \/ r \in Live(recs', 1)
    <3> SUFFICES ASSUME Minted' = {}
                 PROVE  /\ \A r \in DOMAIN recs' : recs'[r].seen /\ recs'[r].pipe = 1
                        /\ \A r \in due' : Again(r)' # {} \/ r \in Live(recs', 1)
      OBVIOUS
    <3>1. DOMAIN recs' = DOMAIN recs
      BY <1>6, <1>7
    <3>2. Live(recs', 1) = Live(recs, 1)
      <4>1. Attempts(recs', 1) = Attempts(recs, 1)
        BY <1>6, <3>1 DEF Attempts
      <4>2. \A r \in Attempts(recs, 1) : recs'[r] = recs[r]
        BY <1>6 DEF Attempts
      <4>3. QED  BY <4>1, <4>2 DEF Live
    <3>3. \A r : Again(r)' = Again(r)
      BY <1>6, <3>1 DEF Again
    <3>4. QED  BY <1>1, <1>6, <2>3, <3>1, <3>2, <3>3
  <2>6. phase' \notin {"listing", "fetching"} /\ bulk' # "new"
    BY <1>1, <1>4, <1>8
  <2>7. QED  BY <1>8, <2>2, <2>4, <2>5, <2>6 DEF DueOK
<1>16. WayOK'
  <2>1. phase' \notin {"start", "listing", "fetching"}
    BY <1>1, <1>4
  <2>2. QED  BY <2>1, SelectionIsOver
<1>17. QED  BY <1>9, <1>10, <1>11, <1>12, <1>14, <1>15, <1>16 DEF RetryInv

-----------------------------------------------------------------------------
(* The invariant.                                                          *)

\* The pipeline's jobs when the command starts.
LEMMA FirstRecords ==
  ASSUME Init
  PROVE  /\ GitLabTypeOK
         /\ DOMAIN recs = 1 .. Len(JobNames)
         /\ \A r \in DOMAIN recs :
               /\ recs[r].by = 0 /\ recs[r].pipe = 1 /\ recs[r].seen
<1> DEFINE n == Len(JobNames)
<1>1. n \in Nat /\ DOMAIN JobNames = 1 .. n /\ \A i \in 1 .. n : JobNames[i] \in Name
  BY GitLabAssumption, LenProperties DEF Name
<1> HIDE DEF n
<1>2. PICK st \in [1 .. n -> JobStatus] :
         recs = [i \in 1 .. n |-> [NewRecord(1, JobNames[i], 0, 0, TRUE) EXCEPT !.status = st[i]]]
  BY DEF Init, n
<1>3. ASSUME NEW i \in 1 .. n
      PROVE  /\ recs[i] \in Record
             /\ recs[i].by = 0 /\ recs[i].pipe = 1 /\ recs[i].seen
  <2>1. recs[i] = [NewRecord(1, JobNames[i], 0, 0, TRUE) EXCEPT !.status = st[i]]
    BY <1>2
  <2>2. st[i] \in JobStatus /\ JobNames[i] \in Name /\ 1 \in Nat \ {0} /\ 0 \in Nat
    BY <1>1, <1>2
  <2>3. recs[i] = [pipe |-> 1, name |-> JobNames[i], status |-> st[i],
                   by |-> 0, of |-> 0, seen |-> TRUE]
    BY <2>1 DEF NewRecord
  <2>4. QED  BY <2>2, <2>3 DEF Record
<1>4. recs \in [1 .. n -> Record]
  BY <1>2, <1>3
<1>5. recs \in Seq(Record) /\ DOMAIN recs = 1 .. n
  BY <1>1, <1>4, SeqDef
<1>6. pstat \in Seq(PipelineStatus) /\ green \subseteq DOMAIN pstat /\ mode \in Modes
  <2>1. pstat = <<"running">> /\ green = {} /\ mode \in Modes
    BY DEF Init
  <2>2. "running" \in PipelineStatus
    BY DEF PipelineStatus
  <2>3. QED  BY <2>1, <2>2
<1>7. QED  BY <1>3, <1>5, <1>6 DEF GitLabTypeOK, n

LEMMA RetryStarts ==
  ASSUME Init
  PROVE  RetryInv
<1>1. /\ objects = <<>> /\ responses = <<>> /\ listing = <<>>
      /\ opts \in OptionSets /\ phase = "start" /\ page = 1 /\ found = {}
      /\ requests = <<>> /\ bulk = "none" /\ exit = Running /\ confirmed = FALSE
      /\ raised = "none" /\ usedCache = FALSE /\ scope = {} /\ shifted = FALSE
      /\ due = FailedNow /\ batch = NoBatch
  BY DEF Init
<1>2. /\ GitLabTypeOK
      /\ DOMAIN recs = 1 .. Len(JobNames)
      /\ \A r \in DOMAIN recs : recs[r].by = 0 /\ recs[r].pipe = 1 /\ recs[r].seen
  BY FirstRecords
<1>3. DOMAIN batch = {} /\ BatchTypeOK
  <2>1. DOMAIN batch = {} /\ batch \in [DOMAIN batch -> Phase]
    BY <1>1 DEF NoBatch
  <2>2. QED  BY <2>1, FS_EmptySet DEF BatchTypeOK
<1>4. Minted = {}
  BY <1>2 DEF Minted
<1>5. due \subseteq DOMAIN recs /\ \A r \in due : recs[r].status = "failed" /\ r \in Live(recs, 1)
  BY <1>1 DEF FailedNow, Live, Attempts
<1>6. TypeOK
  <2>1. DOMAIN objects = {} /\ DOMAIN responses = {} /\ DOMAIN listing = {}
        /\ DOMAIN requests = {}
    BY <1>1
  <2>2. exit \in {Running, 0, 1, 2} /\ (exit = Running <=> phase # "over")
    BY <1>1
  <2>3. page \in Nat \ {0}
    BY <1>1
  <2>4. QED  BY <1>1, <1>2, <1>3, <1>5, <2>1, <2>2, <2>3 DEF TypeOK
<1>7. ReadOK
  <2>1. \A i \in DOMAIN opts.ids : opts.ids[i] \in DOMAIN recs
    <3>1. opts.ids \in Seq(1 .. Len(JobNames))
      BY <1>1, OptionsAssumption DEF Options
    <3>2. QED  BY <1>2, <3>1, ElementOfSeq, LenProperties
  <2>2. CacheTells(objects) /\ CacheTells(responses) /\ PagesTell(listing)
    BY <1>1 DEF CacheTells, PagesTell
  <2>3. RowsTell(found)
    BY <1>1, FS_EmptySet DEF RowsTell, Bounded
  <2>4. QED  BY <2>1, <2>2, <2>3 DEF ReadOK
<1>8. PhaseOK
  BY <1>1, <1>3 DEF PhaseOK, Prompted
<1>9. MintsOK
  BY <1>1, <1>3, <1>4 DEF MintsOK
<1>10. exit # 0 /\ exit # 1 /\ exit # 2
  BY <1>1 DEF Running
<1>11. ExitOK
  BY <1>10 DEF ExitOK
<1>12. DueOK
  BY <1>1, <1>2, <1>5, <1>10 DEF DueOK
<1>13. WayOK
  BY <1>1 DEF WayOK, StartOK, FetchingOK, ListingOK
<1>14. QED  BY <1>6, <1>7, <1>8, <1>9, <1>11, <1>12, <1>13 DEF RetryInv

LEMMA RetryStutters ==
  ASSUME RetryInv, UNCHANGED vars
  PROVE  RetryInv'
<1>1. /\ gitlabVars' = gitlabVars /\ commandVars' = commandVars /\ observers' = observers
      /\ batch' = batch /\ objects' = objects /\ responses' = responses
      /\ listing' = listing
  BY DEF vars, cacheVars
<1>2. CASE phase \in {"start", "listing", "fetching"}
  <2>1. CacheTells(objects') /\ CacheTells(responses') /\ PagesTell(listing')
    BY <1>1 DEF RetryInv, ReadOK
  <2>2. QED  BY <1>1, <1>2, <2>1, SameReading
<1>3. CASE phase \notin {"start", "listing", "fetching"}
  <2>1. /\ recs' = recs /\ mode' = mode /\ opts' = opts /\ phase' = phase
        /\ found' = found /\ bulk' = bulk /\ exit' = exit /\ confirmed' = confirmed
        /\ raised' = raised /\ usedCache' = usedCache /\ shifted' = shifted /\ due' = due
        /\ UNCHANGED gitlabVars /\ selectionUnchanged /\ (Targeted' <=> Targeted)
    BY <1>1 DEF gitlabVars, cacheVars, commandVars, observers, selectionUnchanged, Targeted
  <2>2. TypeOK'
    <3>1. GitLabTypeOK' /\ BatchTypeOK'
      BY <1>1 DEF RetryInv, TypeOK, GitLabTypeOK, BatchTypeOK, gitlabVars
    <3>2. /\ DOMAIN batch' \subseteq found /\ DOMAIN recs \subseteq DOMAIN recs'
          /\ bulk' \in {"none", "sent", "accepted", "refused", "new", "error"}
          /\ raised' \in {"none", "transport", "config"} /\ confirmed' \in BOOLEAN
      BY <1>1, <2>1 DEF RetryInv, TypeOK
    <3>3. QED  BY <2>1, <3>1, <3>2, TypesStay DEF RetryInv
  <2>3. ReadOK'
    BY <1>1, <2>1, SameStays, NothingRead DEF RetryInv
  <2>4. PhaseOK'
    BY <1>1, <2>1 DEF RetryInv, PhaseOK, Prompted
  <2>5. Minted' = Minted /\ NothingPosted' = NothingPosted
        /\ SelectedOnce' = SelectedOnce /\ OnePerId(found)' = OnePerId(found)
        /\ Ids(found)' = Ids(found)
    BY <1>1, <2>1, SameRecords DEF NothingPosted, SelectedOnce, OnePerId, Ids, Minted
  <2>6. ExitOK'
    BY <1>1, <2>1, <2>5 DEF RetryInv, ExitOK
  <2>7. MintsOK'
    <3>1. \A ph : Written(ph)' <=> Written(ph)
      BY <2>1 DEF Written, Truthful
    <3>2. Written(bulk)' <=> Written(bulk)
      BY <2>1, <3>1 DEF Written
    <3>3. \A e \in DOMAIN batch : Written(batch[e])' <=> Written(batch[e])
      BY <1>1, <3>1 DEF Written
    <3>4. \A r \in Minted' : IF Targeted'
            THEN \E e \in DOMAIN batch' : e.id = recs'[r].of /\ Written(batch[e])'
            ELSE Written(bulk)'
      BY <1>1, <2>1, <2>5, <3>2, <3>3 DEF RetryInv, MintsOK
    <3>5. \A r : AskedFor(r)' <=> AskedFor(r)
      BY <2>1, SameRecords
    <3>6. QED  BY <1>1, <2>1, <2>5, <3>4, <3>5 DEF RetryInv, MintsOK
  <2>8. DueOK'
    BY <1>1, <2>1, <2>5, SameRecords DEF RetryInv, DueOK
  <2>9. WayOK'
    BY <1>3, <2>1, SelectionIsOver
  <2>10. QED  BY <2>2, <2>3, <2>4, <2>6, <2>7, <2>8, <2>9 DEF RetryInv
<1>4. QED  BY <1>2, <1>3

LEMMA RetryStep ==
  ASSUME RetryInv, [Next]_vars
  PROVE  RetryInv'
<1>1. CASE UsageError \/ SelectionFails
  BY <1>1, UsageErrorKeeps
<1>2. CASE ReadPage
  BY <1>2, ReadPageKeeps
<1>3. CASE SelectByIds
  BY <1>3, SelectByIdsKeeps
<1>4. CASE JobsRead
  BY <1>4, JobsReadKeeps
<1>5. CASE \E i \in DOMAIN requests : GetJob(i) \/ JobAnswers(i)
  BY <1>5, GetJobKeeps, JobAnswersKeeps
<1>6. CASE Decline
  BY <1>6, DeclineKeeps
<1>7. CASE Confirm
  BY <1>7, ConfirmKeeps
<1>8. CASE BatchStep
  BY <1>8, BatchStepKeeps
<1>9. CASE BatchOver
  BY <1>9, BatchOverKeeps
<1>10. CASE TransportBreaks \/ ConfigBreaks
  BY <1>10, BreaksKeep
<1>11. CASE StartBulk
  BY <1>11, StartBulkKeeps
<1>12. CASE ServeBulk
  BY <1>12, ServeBulkKeeps
<1>13. CASE BulkAnswered
  BY <1>13, BulkAnsweredKeeps
<1>14. CASE GitLabStep
  BY <1>14, GitLabStepKeeps
<1>15. CASE OtherCommand
  BY <1>15, OtherCommandKeeps
<1>16. CASE ResponsesExpire
  BY <1>16, ResponsesExpireKeeps
<1>17. CASE UNCHANGED vars
  BY <1>17, RetryStutters
<1>18. QED
  BY <1>1, <1>2, <1>3, <1>4, <1>5, <1>6, <1>7, <1>8, <1>9, <1>10, <1>11, <1>12,
     <1>13, <1>14, <1>15, <1>16, <1>17 DEF Next, CommandStep

-----------------------------------------------------------------------------
(* The theorems.                                                           *)

\* The invariant holds of every command line, while GitLab moves the jobs from page
\* to page and whatever the caches have: what was read is still so where it matters,
\* each accepted retry is from a task of the command, and each job that had failed
\* is among what was found, ahead of the reader, or has been retried.
THEOREM RetryInvariant == Spec => []RetryInv
<1>1. Init => RetryInv
  BY RetryStarts
<1>2. RetryInv /\ [Next]_vars => RetryInv'
  BY RetryStep
<1>3. QED  BY <1>1, <1>2, PTL DEF Spec

\* Every variable of the command, of the caches and of GitLab keeps its type.
THEOREM RetryTypeCorrect == Spec => []TypeOK
<1>1. RetryInv => TypeOK
  BY DEF RetryInv
<1>2. QED  BY <1>1, RetryInvariant, PTL

\* Every job that ddgl retry has GitLab mint was confirmed, and retries a job that
\* the filters ask for and that had failed or been canceled (or --force was given),
\* whatever the caches answered.  A job that was selected once is retried once.
THEOREM WritesWanted == Spec => []WritesAreWanted
<1>1. RetryInv => WritesAreWanted
  <2> SUFFICES ASSUME RetryInv, NEW r \in Minted
               PROVE  /\ opts.yes \/ confirmed
                      /\ AskedFor(recs[r].of)
                      /\ SelectedOnce => \A s \in Minted : recs[s].of = recs[r].of => s = r
    BY DEF WritesAreWanted
  <2>1. opts.yes \/ confirmed
    BY DEF RetryInv, MintsOK
  <2>2. AskedFor(recs[r].of)
    BY DEF RetryInv, MintsOK
  <2>3. SelectedOnce => \A s \in Minted : recs[s].of = recs[r].of => s = r
    BY DEF RetryInv, MintsOK
  <2>4. QED  BY <2>1, <2>2, <2>3
<1>2. QED  BY <1>1, RetryInvariant, PTL

\* The exit code of ddgl retry.  0: every selected job has a replacement that the
\* command had GitLab mint.  1: the prompt was declined, with nothing written, or an
\* error status answered a POST for which, if GitLab is truthful, nothing was
\* minted.  2: nothing was written, or a POST got no answer, or the answer to one of
\* several ended the batch.
THEOREM ExitTruthful == Spec => []ExitTellsTheTruth
<1>1. RetryInv => ExitTellsTheTruth
  <2> SUFFICES ASSUME RetryInv
               PROVE  ExitTellsTheTruth
    OBVIOUS
  <2>1. /\ ~Targeted => found = {} /\ DOMAIN batch = {}
        /\ Targeted => bulk = "none"
        /\ DOMAIN batch \subseteq found
    BY DEF RetryInv, PhaseOK, TypeOK
  <2>2. \A r \in Minted : IF Targeted
           THEN \E e \in DOMAIN batch : e.id = recs[r].of /\ Written(batch[e])
           ELSE Written(bulk)
    BY DEF RetryInv, MintsOK
  <2>3. exit = 0 => \A e \in found : Ours(e.id) # {}
    <3> SUFFICES ASSUME exit = 0, NEW e \in found
                 PROVE  Ours(e.id) # {}
      OBVIOUS
    <3>1. e \in DOMAIN batch /\ batch[e] = "new"
      BY <2>1 DEF RetryInv, ExitOK
    <3>2. PICK s \in Minted : recs[s].of = e.id
      BY <3>1 DEF RetryInv, MintsOK
    <3>3. QED  BY <3>2 DEF Minted, Again, Ours
  <2>4. bulk = "error" => (Truthful => Minted = {})
    BY <2>1, <2>2 DEF Written
  <2>5. (\E e \in DOMAIN batch : batch[e] = "error") =>
           (Truthful /\ SelectedOnce =>
               \A e \in DOMAIN batch : batch[e] = "error" => Ours(e.id) = {})
    <3> SUFFICES ASSUME Truthful, SelectedOnce, NEW e \in DOMAIN batch, batch[e] = "error",
                        NEW s \in Ours(e.id)
                 PROVE  FALSE
      OBVIOUS
    <3>1. s \in Minted /\ recs[s].of = e.id
      BY DEF Ours, Again, Minted
    <3>2. PICK f \in DOMAIN batch : f.id = e.id /\ Written(batch[f])
      BY <2>1, <2>2, <3>1
    <3>3. OnePerId(found)
      BY DEF RetryInv, MintsOK
    <3>4. f = e
      BY <2>1, <3>2, <3>3 DEF OnePerId
    <3>5. QED  BY <3>2, <3>4 DEF Written
  <2>6. exit = 1 => \/ Minted = {} /\ ~opts.yes /\ ~confirmed
                    \/ bulk = "error"
                    \/ \E e \in DOMAIN batch : batch[e] = "error"
    BY DEF RetryInv, ExitOK, NothingPosted
  <2>7. exit = 2 /\ Minted # {} => \/ raised = "transport"
                                   \/ raised = "config" /\ \E e, f \in found : e # f
    <3> SUFFICES ASSUME exit = 2, NEW r \in Minted, raised # "transport"
                 PROVE  raised = "config" /\ \E e, f \in found : e # f
      OBVIOUS
    <3>1. raised = "config" /\ (bulk = "refused" \/ \E e \in DOMAIN batch : batch[e] = "refused")
      BY DEF RetryInv, ExitOK, NothingPosted
    <3>2. bulk # "refused"
      BY <2>1, <2>2 DEF Written
    <3>3. PICK e \in DOMAIN batch : batch[e] = "refused"
      BY <3>1, <3>2
    <3>4. PICK f \in DOMAIN batch : Written(batch[f])
      BY <2>1, <2>2, <3>3
    <3>5. e # f
      BY <3>3, <3>4 DEF Written
    <3>6. QED  BY <2>1, <3>1, <3>5
  <2>8. QED  BY <2>3, <2>4, <2>5, <2>6, <2>7 DEF ExitTellsTheTruth
<1>2. QED  BY <1>1, RetryInvariant, PTL

\* When ddgl retry succeeds without having used a cache, each job that had failed
\* when it started and that the filters ask for runs again, however GitLab moves the
\* rows from page to page; with scope=failed when the listing of each page was that
\* of the first.
THEOREM NoFailureIsMissed == Spec => []NoFailureMissed
<1>1. RetryInv => NoFailureMissed
  <2> SUFFICES ASSUME RetryInv, exit = 0, ~usedCache, opts.failedOnly => ~shifted,
                      NEW r \in due, AskedFor(r)
               PROVE  Again(r) # {}
    BY DEF NoFailureMissed
  <2>1. CASE Targeted
    <3>1. CASE r \in Ids(found)
      <4>1. PICK e \in found : e.id = r
        BY <3>1 DEF Ids
      <4>2. e \in DOMAIN batch /\ batch[e] = "new"
        BY <2>1, <4>1 DEF RetryInv, ExitOK
      <4>3. PICK s \in Minted : recs[s].of = e.id
        BY <4>2 DEF RetryInv, MintsOK
      <4>4. QED  BY <4>1, <4>3 DEF Minted, Again
    <3>2. CASE r \notin Ids(found)
      BY <2>1, <3>2 DEF RetryInv, DueOK
    <3>3. QED  BY <3>1, <3>2
  <2>2. CASE ~Targeted
    BY <2>2 DEF RetryInv, ExitOK, DueOK
  <2>3. QED  BY <2>1, <2>2
<1>2. QED  BY <1>1, RetryInvariant, PTL
=============================================================================
