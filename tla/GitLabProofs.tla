----------------------------- MODULE GitLabProofs -----------------------------
(***************************************************************************)
(* The server, for every number of jobs, pipelines and records: what its   *)
(* steps keep.  The proofs about the commands that talk to it cite these   *)
(* lemmas.                                                                 *)
(***************************************************************************)
EXTENDS GitLab, SequencesExt, SequenceTheorems, FiniteSetTheorems, TLAPS

-----------------------------------------------------------------------------
(* GitLab: its records keep their types, are never removed, and are        *)
(* created by whom they say.                                               *)

\* The status GitLab computes for a pipeline is one of its statuses.
LEMMA VerdictType ==
  ASSUME NEW rs, NEW p
  PROVE  Verdict(rs, p) \in PipelineStatus
  BY DEF Verdict, PipelineStatus, Finished

\* A change of a job's status keeps the types of the records.
LEMMA ChangeKeeps ==
  ASSUME GitLabTypeOK, NEW rs \in Seq(Record), Change(rs)
  PROVE  /\ GitLabTypeOK'
         /\ recs' = rs /\ DOMAIN pstat' = DOMAIN pstat /\ mode' = mode
<1>1. pstat \in [1 .. Len(pstat) -> PipelineStatus] /\ Len(pstat) \in Nat
  BY LenProperties DEF GitLabTypeOK
<1>2. pstat' \in [1 .. Len(pstat) -> PipelineStatus]
  BY <1>1, VerdictType DEF Change, Report
<1>3. pstat' \in Seq(PipelineStatus)
  BY <1>1, <1>2, SeqDef
<1>4. DOMAIN pstat = 1 .. Len(pstat) /\ DOMAIN pstat' = 1 .. Len(pstat)
  BY <1>1, <1>2
<1>5. green' \subseteq DOMAIN pstat'
  BY <1>4 DEF Change, Report, GitLabTypeOK
<1>6. QED  BY <1>3, <1>4, <1>5 DEF Change, GitLabTypeOK

\* A new record of a job has the type of a record.
LEMMA NewRecordType ==
  ASSUME NEW p \in Nat \ {0}, NEW n \in Name, NEW k \in Nat, NEW r \in Nat,
         NEW v \in BOOLEAN
  PROVE  /\ NewRecord(p, n, k, r, v) \in Record
         /\ NewRecord(p, n, k, r, v).by = k
  BY DEF NewRecord, Record, JobStatus

\* A record is added at the end and none is changed.
LEMMA AppendKeeps ==
  ASSUME GitLabTypeOK, NEW rec \in Record, Change(Append(recs, rec))
  PROVE  /\ GitLabTypeOK' /\ mode' = mode
         /\ DOMAIN pstat' = DOMAIN pstat
         /\ DOMAIN recs' = DOMAIN recs \cup {Len(recs) + 1}
         /\ Len(recs) + 1 \notin DOMAIN recs
         /\ \A r \in DOMAIN recs : recs'[r] = recs[r]
         /\ recs'[Len(recs) + 1] = rec
<1>1. recs \in Seq(Record) /\ Len(recs) \in Nat /\ DOMAIN recs = 1 .. Len(recs)
  BY LenProperties DEF GitLabTypeOK
<1>2. /\ Append(recs, rec) \in Seq(Record)
      /\ Len(Append(recs, rec)) = Len(recs) + 1
      /\ \A i \in 1 .. Len(recs) : Append(recs, rec)[i] = recs[i]
      /\ Append(recs, rec)[Len(recs) + 1] = rec
  BY <1>1, AppendProperties
<1>3. DOMAIN Append(recs, rec) = 1 .. (Len(recs) + 1)
  BY <1>2, LenProperties
<1>4. /\ GitLabTypeOK' /\ mode' = mode /\ DOMAIN pstat' = DOMAIN pstat
      /\ recs' = Append(recs, rec)
  BY <1>2, ChangeKeeps
<1>5. QED  BY <1>1, <1>2, <1>3, <1>4

\* One field of a record, which is not its creator, is changed.
LEMMA ExceptKeeps ==
  ASSUME GitLabTypeOK, NEW i \in DOMAIN recs, NEW rec \in Record,
         rec.by = recs[i].by, Change([recs EXCEPT ![i] = rec])
  PROVE  /\ GitLabTypeOK' /\ mode' = mode
         /\ DOMAIN pstat' = DOMAIN pstat /\ DOMAIN recs' = DOMAIN recs
         /\ \A r \in DOMAIN recs : recs'[r].by = recs[r].by
<1>1. recs \in Seq(Record) /\ DOMAIN recs = 1 .. Len(recs)
  BY LenProperties DEF GitLabTypeOK
<1>2. [recs EXCEPT ![i] = rec] \in Seq(Record)
  BY <1>1, ExceptSeq
<1>3. QED  BY <1>1, <1>2, ChangeKeeps

\* What GitLab does on its own: nothing is removed, and nothing it adds is ddgl's.
LEMMA GitLabKeeps ==
  ASSUME GitLabTypeOK, GitLabNext
  PROVE  /\ GitLabTypeOK' /\ mode' = mode
         /\ DOMAIN pstat \subseteq DOMAIN pstat'
         /\ DOMAIN recs \subseteq DOMAIN recs'
         /\ \A r \in DOMAIN recs' :
               recs'[r].by = IF r \in DOMAIN recs THEN recs[r].by ELSE 0
<1>1. /\ recs \in Seq(Record) /\ Len(recs) \in Nat /\ DOMAIN recs = 1 .. Len(recs)
      /\ \A r \in DOMAIN recs : recs[r] \in Record
  BY LenProperties, ElementOfSeq DEF GitLabTypeOK
<1>2. CASE CreatePipeline
  <2> DEFINE new == [i \in DOMAIN JobNames |->
                        NewRecord(Len(pstat) + 1, JobNames[i], 0, 0, TRUE)]
  <2>1. /\ pstat \in Seq(PipelineStatus) /\ Len(pstat) \in Nat
        /\ DOMAIN pstat = 1 .. Len(pstat)
    BY LenProperties DEF GitLabTypeOK
  <2>2. /\ Append(pstat, "running") \in Seq(PipelineStatus)
        /\ Len(Append(pstat, "running")) = Len(pstat) + 1
    BY <2>1, AppendProperties DEF PipelineStatus
  <2>3. /\ Len(JobNames) \in Nat /\ DOMAIN JobNames = 1 .. Len(JobNames)
        /\ \A i \in DOMAIN JobNames : JobNames[i] \in Name
    BY GitLabAssumption, LenProperties DEF Name
  <2>4. \A i \in DOMAIN JobNames : new[i] \in Record /\ new[i].by = 0
    <3>1. Len(pstat) + 1 \in Nat \ {0} /\ 0 \in Nat /\ TRUE \in BOOLEAN
      BY <2>1
    <3>2. QED  BY <2>3, <3>1 DEF NewRecord, Record, JobStatus
  <2>5. new \in [1 .. Len(JobNames) -> Record]
    BY <2>3, <2>4
  <2>6. new \in Seq(Record) /\ Len(new) = Len(JobNames)
    <3> HIDE DEF new
    <3>1. new \in Seq(Record)
      BY <2>3, <2>5, SeqDef
    <3>2. DOMAIN new = 1 .. Len(JobNames)
      BY <2>5
    <3>3. QED  BY <2>3, <3>1, <3>2
  <2>7. /\ recs \o new \in Seq(Record)
        /\ Len(recs \o new) = Len(recs) + Len(JobNames)
        /\ \A i \in 1 .. (Len(recs) + Len(JobNames)) :
              (recs \o new)[i] = IF i <= Len(recs) THEN recs[i] ELSE new[i - Len(recs)]
    <3> HIDE DEF new
    <3>1. /\ recs \o new \in Seq(Record)
          /\ Len(recs \o new) = Len(recs) + Len(new)
          /\ \A i \in 1 .. (Len(recs) + Len(new)) :
                (recs \o new)[i] =
                    IF i <= Len(recs) THEN recs[i] ELSE new[i - Len(recs)]
      BY <1>1, <2>6, ConcatProperties
    <3>2. QED  BY <2>6, <3>1
  <2>8. recs' = recs \o new /\ pstat' = Append(pstat, "running") /\ mode' = mode
    BY <1>2 DEF CreatePipeline, Report
  <2>9. DOMAIN recs' = 1 .. (Len(recs) + Len(JobNames))
    BY <2>7, <2>8, LenProperties
  <2> HIDE DEF new
  <2>10. ASSUME NEW r \in DOMAIN recs'
         PROVE  recs'[r].by = IF r \in DOMAIN recs THEN recs[r].by ELSE 0
    <3>1. CASE r \in DOMAIN recs
      BY <1>1, <2>3, <2>7, <2>8, <2>9, <3>1
    <3>2. CASE r \notin DOMAIN recs
      <4>1. r - Len(recs) \in DOMAIN JobNames
        BY <1>1, <2>3, <2>9, <3>2
      <4>2. recs'[r] = new[r - Len(recs)]
        BY <1>1, <2>3, <2>7, <2>8, <2>9, <3>2
      <4>3. QED  BY <2>4, <3>2, <4>1, <4>2
    <3>3. QED  BY <3>1, <3>2
  <2>11. DOMAIN pstat \subseteq DOMAIN pstat'
    BY <2>1, <2>2, <2>8, LenProperties
  <2>12. DOMAIN recs \subseteq DOMAIN recs'
    BY <1>1, <2>3, <2>9
  <2>13. green' \subseteq DOMAIN pstat'
    BY <1>2, <2>8, <2>11 DEF CreatePipeline, Report, GitLabTypeOK
  <2>14. QED  BY <2>2, <2>7, <2>8, <2>10, <2>11, <2>12, <2>13 DEF GitLabTypeOK
<1>3. ASSUME NEW r \in DOMAIN recs, JobFinishes(r)
      PROVE  /\ GitLabTypeOK' /\ mode' = mode
             /\ DOMAIN pstat' = DOMAIN pstat /\ DOMAIN recs' = DOMAIN recs
             /\ \A s \in DOMAIN recs : recs'[s].by = recs[s].by
  <2>1. PICK s \in Endings : Change([recs EXCEPT ![r].status = s])
    BY <1>3 DEF JobFinishes
  <2>2. [recs[r] EXCEPT !.status = s] \in Record
    BY <1>1, GitLabAssumption DEF Record, JobStatus
  <2>3. [recs[r] EXCEPT !.status = s].by = recs[r].by
    BY <1>1 DEF Record
  <2>4. [recs EXCEPT ![r].status = s] = [recs EXCEPT ![r] = [recs[r] EXCEPT !.status = s]]
    OBVIOUS
  <2>5. QED  BY <2>1, <2>2, <2>3, <2>4, ExceptKeeps
<1>4. ASSUME NEW r \in DOMAIN recs, Publish(r)
      PROVE  /\ GitLabTypeOK' /\ mode' = mode
             /\ DOMAIN pstat' = DOMAIN pstat /\ DOMAIN recs' = DOMAIN recs
             /\ \A s \in DOMAIN recs : recs'[s].by = recs[s].by
  <2>1. Change([recs EXCEPT ![r].seen = TRUE])
    BY <1>4 DEF Publish
  <2>2. [recs[r] EXCEPT !.seen = TRUE] \in Record
    BY <1>1 DEF Record
  <2>3. [recs[r] EXCEPT !.seen = TRUE].by = recs[r].by
    BY <1>1 DEF Record
  <2>4. [recs EXCEPT ![r].seen = TRUE] = [recs EXCEPT ![r] = [recs[r] EXCEPT !.seen = TRUE]]
    OBVIOUS
  <2>5. QED  BY <2>1, <2>2, <2>3, <2>4, ExceptKeeps
<1>5. ASSUME NEW r \in DOMAIN recs, OtherRetry(r)
      PROVE  /\ GitLabTypeOK' /\ mode' = mode
             /\ DOMAIN pstat' = DOMAIN pstat /\ DOMAIN recs \subseteq DOMAIN recs'
             /\ \A s \in DOMAIN recs' :
                   recs'[s].by = IF s \in DOMAIN recs THEN recs[s].by ELSE 0
  <2> DEFINE rec == NewRecord(recs[r].pipe, recs[r].name, 0, r, TRUE)
  <2>1. rec \in Record /\ rec.by = 0
    <3>1. r \in Nat /\ 0 \in Nat /\ TRUE \in BOOLEAN
      BY <1>1
    <3>2. recs[r].pipe \in Nat \ {0} /\ recs[r].name \in Name
      BY <1>1 DEF Record
    <3>3. QED  BY <3>1, <3>2 DEF NewRecord, Record, JobStatus
  <2>2. Change(Append(recs, rec))
    BY <1>5 DEF OtherRetry
  <2>3. QED  BY <2>1, <2>2, AppendKeeps
<1>6. ASSUME NEW p \in DOMAIN pstat, UpdateStatus(p)
      PROVE  /\ GitLabTypeOK' /\ UNCHANGED <<recs, mode>>
             /\ DOMAIN pstat' = DOMAIN pstat
  <2>1. pstat \in Seq(PipelineStatus) /\ DOMAIN pstat = 1 .. Len(pstat)
    BY LenProperties DEF GitLabTypeOK
  <2>2. [pstat EXCEPT ![p] = Verdict(recs, p)] \in Seq(PipelineStatus)
    BY <2>1, VerdictType, ExceptSeq
  <2>3. DOMAIN pstat' = DOMAIN pstat
    BY <1>6 DEF UpdateStatus, Report
  <2>4. green' \subseteq DOMAIN pstat'
    BY <1>6, <2>3 DEF UpdateStatus, Report, GitLabTypeOK
  <2>5. QED  BY <1>6, <2>2, <2>3, <2>4 DEF UpdateStatus, Report, GitLabTypeOK
<1>7. QED
  BY <1>2, <1>3, <1>4, <1>5, <1>6 DEF GitLabNext

\* An accepted retry adds exactly one record, which names the run it is for.
LEMMA MintKeeps ==
  ASSUME GitLabTypeOK, NEW r \in DOMAIN recs, NEW k \in Nat, Mint(r, k)
  PROVE  /\ GitLabTypeOK' /\ mode' = mode
         /\ DOMAIN pstat' = DOMAIN pstat
         /\ DOMAIN recs' = DOMAIN recs \cup {Len(recs) + 1}
         /\ Len(recs) + 1 \notin DOMAIN recs
         /\ \A s \in DOMAIN recs : recs'[s].by = recs[s].by
         /\ recs'[Len(recs) + 1].by = k
<1>1. recs[r] \in Record /\ r \in Nat
  BY LenProperties, ElementOfSeq DEF GitLabTypeOK
<1>2. PICK v \in BOOLEAN :
         Change(Append(recs, NewRecord(recs[r].pipe, recs[r].name, k, r, v)))
  BY DEF Mint
<1>3. /\ NewRecord(recs[r].pipe, recs[r].name, k, r, v) \in Record
      /\ NewRecord(recs[r].pipe, recs[r].name, k, r, v).by = k
  BY <1>1, NewRecordType DEF Record
<1>4. QED  BY <1>2, <1>3, AppendKeeps

\* Nothing is removed, and of a record only its status and whether it is shown
\* change.
RecordsStay ==
    \A r \in DOMAIN recs :
        /\ r \in DOMAIN recs'
        /\ recs'[r].by = recs[r].by
        /\ recs'[r].of = recs[r].of
        /\ recs'[r].pipe = recs[r].pipe
        /\ recs'[r].name = recs[r].name
        /\ recs[r].seen => recs'[r].seen

\* A record whose status is final keeps it.
FinalStays ==
    \A r \in DOMAIN recs :
        recs[r].status # "active" => recs'[r].status = recs[r].status

\* What a record added by somebody else is like.
AddedIsOthers ==
    \A r \in DOMAIN recs' \ DOMAIN recs :
        /\ recs'[r].by = 0
        /\ recs'[r].seen

\* GitLab on its own adds records that are shown and are nobody's retry.
LEMMA ServerRecords ==
  ASSUME GitLabTypeOK, GitLabNext
  PROVE  RecordsStay /\ AddedIsOthers /\ mode' = mode /\ GitLabTypeOK'
<1>1. /\ recs \in Seq(Record) /\ Len(recs) \in Nat /\ DOMAIN recs = 1 .. Len(recs)
      /\ \A r \in DOMAIN recs : recs[r] \in Record
  BY LenProperties, ElementOfSeq DEF GitLabTypeOK
<1>2. /\ mode' = mode /\ GitLabTypeOK' /\ DOMAIN recs \subseteq DOMAIN recs'
      /\ \A r \in DOMAIN recs' :
            recs'[r].by = IF r \in DOMAIN recs THEN recs[r].by ELSE 0
  BY GitLabKeeps
<1>3. CASE CreatePipeline
  <2> DEFINE new == [i \in DOMAIN JobNames |->
                        NewRecord(Len(pstat) + 1, JobNames[i], 0, 0, TRUE)]
  <2>1. recs' = recs \o new
    BY <1>3 DEF CreatePipeline
  <2>2. /\ Len(JobNames) \in Nat /\ DOMAIN JobNames = 1 .. Len(JobNames)
        /\ \A i \in DOMAIN JobNames : JobNames[i] \in Name
        /\ Len(pstat) + 1 \in Nat \ {0}
    BY GitLabAssumption, LenProperties DEF Name, GitLabTypeOK
  <2>3. new \in [1 .. Len(JobNames) -> Record]
    BY <2>2 DEF NewRecord, Record, JobStatus
  <2>4. \A i \in DOMAIN JobNames : new[i].seen
    BY DEF NewRecord
  <2> HIDE DEF new
  <2>5. /\ DOMAIN recs' = 1 .. (Len(recs) + Len(JobNames))
        /\ \A i \in 1 .. (Len(recs) + Len(JobNames)) :
              recs'[i] = IF i <= Len(recs) THEN recs[i] ELSE new[i - Len(recs)]
    <3>1. new \in Seq(Record)
      BY <2>2, <2>3, SeqDef
    <3>2. Len(new) = Len(JobNames)
      BY <2>2, <2>3, <3>1
    <3>3. /\ recs \o new \in Seq(Record)
          /\ Len(recs \o new) = Len(recs) + Len(new)
          /\ \A i \in 1 .. (Len(recs) + Len(new)) :
                (recs \o new)[i] =
                    IF i <= Len(recs) THEN recs[i] ELSE new[i - Len(recs)]
      BY <1>1, <3>1, ConcatProperties
    <3>4. QED  BY <2>1, <3>2, <3>3, LenProperties
  <2>6. RecordsStay
    BY <1>1, <2>2, <2>5 DEF RecordsStay
  <2>7. ASSUME NEW r \in DOMAIN recs' \ DOMAIN recs
        PROVE  recs'[r].seen
    <3>1. recs'[r] = new[r - Len(recs)] /\ r - Len(recs) \in DOMAIN JobNames
      BY <1>1, <2>2, <2>5
    <3>2. QED  BY <2>4, <3>1
  <2>8. AddedIsOthers
    BY <1>2, <2>7 DEF AddedIsOthers
  <2>9. QED  BY <1>2, <2>6, <2>8
<1>4. ASSUME NEW r \in DOMAIN recs, JobFinishes(r)
      PROVE  RecordsStay /\ AddedIsOthers
  <2>1. PICK s \in Endings : recs' = [recs EXCEPT ![r].status = s]
    BY <1>4 DEF JobFinishes, Change
  <2> DEFINE rec == [recs[r] EXCEPT !.status = s]
  <2>2. DOMAIN recs' = DOMAIN recs
    BY <2>1
  <2>3. \A q \in DOMAIN recs :
           recs'[q] = IF q = r THEN rec ELSE recs[q]
    <3>1. [recs EXCEPT ![r].status = s] = [recs EXCEPT ![r] = rec]
      OBVIOUS
    <3> HIDE DEF rec
    <3>2. QED  BY <1>1, <2>1, <3>1
  <2>6. /\ rec.by = recs[r].by /\ rec.of = recs[r].of
        /\ rec.pipe = recs[r].pipe /\ rec.name = recs[r].name
        /\ recs[r].seen => rec.seen
    BY <1>1 DEF Record
  <2> HIDE DEF rec
  <2>4. RecordsStay
    BY <1>1, <2>2, <2>3, <2>6 DEF RecordsStay
  <2>5. QED  BY <2>2, <2>4 DEF AddedIsOthers
<1>5. ASSUME NEW r \in DOMAIN recs, Publish(r)
      PROVE  RecordsStay /\ AddedIsOthers
  <2>1. recs' = [recs EXCEPT ![r].seen = TRUE]
    BY <1>5 DEF Publish, Change
  <2> DEFINE rec == [recs[r] EXCEPT !.seen = TRUE]
  <2>2. DOMAIN recs' = DOMAIN recs
    BY <2>1
  <2>3. \A q \in DOMAIN recs :
           recs'[q] = IF q = r THEN rec ELSE recs[q]
    <3>1. [recs EXCEPT ![r].seen = TRUE] = [recs EXCEPT ![r] = rec]
      OBVIOUS
    <3> HIDE DEF rec
    <3>2. QED  BY <1>1, <2>1, <3>1
  <2>6. /\ rec.by = recs[r].by /\ rec.of = recs[r].of
        /\ rec.pipe = recs[r].pipe /\ rec.name = recs[r].name
        /\ recs[r].seen => rec.seen
    BY <1>1 DEF Record
  <2> HIDE DEF rec
  <2>4. RecordsStay
    BY <1>1, <2>2, <2>3, <2>6 DEF RecordsStay
  <2>5. QED  BY <2>2, <2>4 DEF AddedIsOthers
<1>6. ASSUME NEW r \in DOMAIN recs, OtherRetry(r)
      PROVE  RecordsStay /\ AddedIsOthers
  <2> DEFINE rec == NewRecord(recs[r].pipe, recs[r].name, 0, r, TRUE)
  <2>1. rec \in Record /\ rec.by = 0 /\ rec.seen
    <3>1. r \in Nat /\ 0 \in Nat /\ TRUE \in BOOLEAN
      BY <1>1
    <3>2. recs[r].pipe \in Nat \ {0} /\ recs[r].name \in Name
      BY <1>1 DEF Record
    <3>3. QED  BY <3>1, <3>2 DEF NewRecord, Record, JobStatus
  <2>2. Change(Append(recs, rec))
    BY <1>6 DEF OtherRetry
  <2> HIDE DEF rec
  <2>3. /\ DOMAIN recs' = DOMAIN recs \cup {Len(recs) + 1}
        /\ \A q \in DOMAIN recs : recs'[q] = recs[q]
        /\ recs'[Len(recs) + 1] = rec
    BY <2>1, <2>2, AppendKeeps
  <2>4. QED  BY <2>1, <2>3 DEF RecordsStay, AddedIsOthers
<1>7. ASSUME NEW p \in DOMAIN pstat, UpdateStatus(p)
      PROVE  RecordsStay /\ AddedIsOthers
  <2>1. recs' = recs
    BY <1>7 DEF UpdateStatus
  <2>2. QED  BY <2>1 DEF RecordsStay, AddedIsOthers
<1>8. QED
  BY <1>2, <1>3, <1>4, <1>5, <1>6, <1>7 DEF GitLabNext

\* An accepted retry: the one record it adds is of the same job.
LEMMA MintRecords ==
  ASSUME GitLabTypeOK, NEW r \in DOMAIN recs, NEW k \in Nat, Mint(r, k)
  PROVE  /\ GitLabTypeOK' /\ mode' = mode /\ DOMAIN pstat' = DOMAIN pstat
         /\ RecordsStay
         /\ DOMAIN recs' = DOMAIN recs \cup {Len(recs) + 1}
         /\ Len(recs) + 1 \notin DOMAIN recs
         /\ recs'[Len(recs) + 1].by = k
         /\ recs'[Len(recs) + 1].of = r
         /\ recs'[Len(recs) + 1].pipe = recs[r].pipe
         /\ recs'[Len(recs) + 1].name = recs[r].name
         /\ Prompt => recs'[Len(recs) + 1].seen
<1>1. recs[r] \in Record /\ r \in Nat
  BY LenProperties, ElementOfSeq DEF GitLabTypeOK
<1>2. PICK v \in BOOLEAN :
         /\ Change(Append(recs, NewRecord(recs[r].pipe, recs[r].name, k, r, v)))
         /\ Prompt => v
  BY DEF Mint
<1> DEFINE rec == NewRecord(recs[r].pipe, recs[r].name, k, r, v)
<1>3. /\ rec \in Record /\ rec.by = k /\ rec.of = r
      /\ rec.pipe = recs[r].pipe /\ rec.name = recs[r].name
  BY <1>1, NewRecordType DEF Record, NewRecord
<1>4. Prompt => rec.seen
  BY <1>2 DEF NewRecord
<1> HIDE DEF rec
<1>5. /\ GitLabTypeOK' /\ mode' = mode /\ DOMAIN pstat' = DOMAIN pstat
      /\ DOMAIN recs' = DOMAIN recs \cup {Len(recs) + 1}
      /\ Len(recs) + 1 \notin DOMAIN recs
      /\ \A q \in DOMAIN recs : recs'[q] = recs[q]
      /\ recs'[Len(recs) + 1] = rec
  BY <1>2, <1>3, AppendKeeps DEF rec
<1>6. RecordsStay
  BY <1>5 DEF RecordsStay
<1>7. QED  BY <1>3, <1>4, <1>5, <1>6

-----------------------------------------------------------------------------
(* The rows of a listing.                                                  *)

\* The rows of a set of records are finitely many entries, one per record.
LEMMA RowsProperties ==
  ASSUME GitLabTypeOK, NEW S \in SUBSET DOMAIN recs, NEW k \in Nat \ {0}
  PROVE  /\ Rows(recs, S, k) \subseteq Entry
         /\ IsFiniteSet(Rows(recs, S, k))
         /\ \A e \in Rows(recs, S, k) : e.id \in DOMAIN recs
<1>1. /\ Len(recs) \in Nat /\ DOMAIN recs = 1 .. Len(recs)
      /\ \A r \in DOMAIN recs : recs[r] \in Record
  BY LenProperties, ElementOfSeq DEF GitLabTypeOK
<1>2. IsFiniteSet(S)
  <2>1. IsFiniteSet(1 .. Len(recs))
    BY <1>1, FS_Interval
  <2>2. QED  BY <1>1, <2>1, FS_Subset
<1>3. Rows(recs, S, k) \subseteq Entry
  BY <1>1 DEF Rows, Entry, Record
<1>4. \A e \in Rows(recs, S, k) : e.id \in DOMAIN recs
  BY DEF Rows
<1>5. IsFiniteSet(Rows(recs, S, k))
  <2> DEFINE row == [r \in S |-> [id |-> r, st |-> recs[r].status, page |-> k]]
  <2>1. row \in Surjection(S, Rows(recs, S, k))
    BY DEF Surjection, Rows
  <2>2. QED  BY <1>2, <2>1, FS_Surjection
<1>6. QED  BY <1>3, <1>4, <1>5

\* An injection shows that a set is no larger.
LEMMA InjectionCounts ==
  ASSUME NEW S, NEW T, IsFiniteSet(T), NEW f \in [S -> T],
         \A x, y \in S : f[x] = f[y] => x = y
  PROVE  IsFiniteSet(S) /\ Cardinality(S) <= Cardinality(T)
<1>1. f \in Injection(S, T)
  BY DEF Injection, IsInjective
<1>2. QED  BY <1>1, FS_Injection

\* Sets of records are finite.
LEMMA RecordSetIsFinite ==
  ASSUME GitLabTypeOK, NEW S \in SUBSET DOMAIN recs
  PROVE  IsFiniteSet(S) /\ Cardinality(S) \in Nat
<1>1. Len(recs) \in Nat /\ DOMAIN recs = 1 .. Len(recs)
  BY LenProperties DEF GitLabTypeOK
<1>2. IsFiniteSet(DOMAIN recs)
  BY <1>1, FS_Interval
<1>3. QED  BY <1>2, FS_Subset, FS_CardinalityType

\* A set that fits on a page is its first page.
LEMMA FitsOnce ==
  ASSUME GitLabTypeOK, NEW S \in SUBSET DOMAIN recs, Cardinality(S) <= PageSize
  PROVE  FirstPage(S) = S
<1>1. IsFiniteSet(S) /\ Cardinality(S) \in Nat
  BY RecordSetIsFinite
<1>2. ASSUME NEW r \in S
      PROVE  Cardinality({s \in S : s > r}) < PageSize
  <2> DEFINE T == {s \in S : s > r}
  <2>1. r \in Nat
    BY LenProperties DEF GitLabTypeOK
  <2>2. T \in SUBSET S /\ r \notin T
    BY <2>1
  <2> HIDE DEF T
  <2>3. /\ Cardinality(T) <= Cardinality(S) /\ Cardinality(T) # Cardinality(S)
        /\ Cardinality(T) \in Nat
    BY <1>1, <2>2, FS_Subset, FS_CardinalityType
  <2>4. PageSize \in Nat
    BY GitLabAssumption
  <2>5. Cardinality(T) < PageSize
    BY <1>1, <2>3, <2>4
  <2>6. QED  BY <2>5 DEF T
<1>3. QED  BY <1>2 DEF FirstPage, Newest

-----------------------------------------------------------------------------
(* The steps of GitLab one by one, and what they do to the newest records  *)
(* of a pipeline's jobs.                                                   *)

\* A new pipeline brings records of its own and leaves the others alone.
LEMMA CreateIs ==
  ASSUME GitLabTypeOK, CreatePipeline
  PROVE  /\ GitLabTypeOK' /\ mode' = mode
         /\ DOMAIN pstat = 1 .. Len(pstat) /\ Len(pstat) \in Nat
         /\ DOMAIN pstat' = 1 .. Len(pstat) + 1
         /\ \A r \in DOMAIN recs : r \in DOMAIN recs' /\ recs'[r] = recs[r]
         /\ \A r \in DOMAIN recs' \ DOMAIN recs : recs'[r].pipe = Len(pstat) + 1
<1>1. /\ recs \in Seq(Record) /\ Len(recs) \in Nat /\ DOMAIN recs = 1 .. Len(recs)
      /\ pstat \in Seq(PipelineStatus) /\ Len(pstat) \in Nat
      /\ DOMAIN pstat = 1 .. Len(pstat)
  BY LenProperties DEF GitLabTypeOK
<1>2. GitLabTypeOK' /\ mode' = mode
  BY GitLabKeeps DEF GitLabNext
<1>3. DOMAIN pstat' = 1 .. Len(pstat) + 1
  <2>1. /\ Append(pstat, "running") \in Seq(PipelineStatus)
        /\ Len(Append(pstat, "running")) = Len(pstat) + 1
    BY <1>1, AppendProperties DEF PipelineStatus
  <2>2. pstat' = Append(pstat, "running")
    BY DEF CreatePipeline, Report
  <2>3. QED  BY <2>1, <2>2, LenProperties
<1> DEFINE new == [i \in DOMAIN JobNames |->
                      NewRecord(Len(pstat) + 1, JobNames[i], 0, 0, TRUE)]
<1>4. recs' = recs \o new
  BY DEF CreatePipeline
<1>5. /\ Len(JobNames) \in Nat /\ DOMAIN JobNames = 1 .. Len(JobNames)
      /\ \A i \in DOMAIN JobNames : JobNames[i] \in Name
      /\ Len(pstat) + 1 \in Nat \ {0}
  BY <1>1, GitLabAssumption, LenProperties DEF Name
<1>6. new \in [1 .. Len(JobNames) -> Record]
  BY <1>5 DEF NewRecord, Record, JobStatus
<1>7. \A i \in DOMAIN JobNames : new[i].pipe = Len(pstat) + 1
  BY DEF NewRecord
<1> HIDE DEF new
<1>8. /\ DOMAIN recs' = 1 .. (Len(recs) + Len(JobNames))
      /\ \A i \in 1 .. (Len(recs) + Len(JobNames)) :
            recs'[i] = IF i <= Len(recs) THEN recs[i] ELSE new[i - Len(recs)]
  <2>1. new \in Seq(Record)
    BY <1>5, <1>6, SeqDef
  <2>2. Len(new) = Len(JobNames)
    BY <1>5, <1>6, <2>1
  <2>3. /\ recs \o new \in Seq(Record)
        /\ Len(recs \o new) = Len(recs) + Len(new)
        /\ \A i \in 1 .. (Len(recs) + Len(new)) :
              (recs \o new)[i] = IF i <= Len(recs) THEN recs[i] ELSE new[i - Len(recs)]
    BY <1>1, <2>1, ConcatProperties
  <2>4. QED  BY <1>4, <2>2, <2>3, LenProperties
<1>9. \A r \in DOMAIN recs : r \in DOMAIN recs' /\ recs'[r] = recs[r]
  BY <1>1, <1>5, <1>8
<1>10. ASSUME NEW r \in DOMAIN recs' \ DOMAIN recs
       PROVE  recs'[r].pipe = Len(pstat) + 1
  <2>1. recs'[r] = new[r - Len(recs)] /\ r - Len(recs) \in DOMAIN JobNames
    BY <1>1, <1>5, <1>8
  <2>2. QED  BY <1>7, <2>1
<1>11. QED  BY <1>1, <1>2, <1>3, <1>9, <1>10

\* A job that finishes changes its status, from active, and nothing else.
LEMMA FinishIs ==
  ASSUME GitLabTypeOK, NEW r \in DOMAIN recs, JobFinishes(r)
  PROVE  /\ GitLabTypeOK' /\ mode' = mode /\ DOMAIN pstat' = DOMAIN pstat
         /\ DOMAIN recs' = DOMAIN recs
         /\ \A q \in DOMAIN recs :
               /\ recs'[q].name = recs[q].name /\ recs'[q].pipe = recs[q].pipe
               /\ recs'[q].seen = recs[q].seen
               /\ recs[q].status # "active" => recs'[q].status = recs[q].status
<1>1. PICK s \in Endings : Change([recs EXCEPT ![r].status = s])
  BY DEF JobFinishes
<1>2. \A q \in DOMAIN recs : recs[q] \in Record
  BY LenProperties, ElementOfSeq DEF GitLabTypeOK
<1> DEFINE rec == [recs[r] EXCEPT !.status = s]
<1>3. /\ rec \in Record /\ rec.by = recs[r].by /\ rec.name = recs[r].name
      /\ rec.pipe = recs[r].pipe /\ rec.seen = recs[r].seen
  BY <1>2, GitLabAssumption DEF Record, JobStatus
<1>4. [recs EXCEPT ![r].status = s] = [recs EXCEPT ![r] = rec]
  OBVIOUS
<1> HIDE DEF rec
<1>5. /\ GitLabTypeOK' /\ mode' = mode /\ DOMAIN pstat' = DOMAIN pstat
      /\ DOMAIN recs' = DOMAIN recs
  BY <1>1, <1>3, <1>4, ExceptKeeps
<1>6. recs' = [recs EXCEPT ![r] = rec]
  BY <1>1, <1>4 DEF Change
<1>7. \A q \in DOMAIN recs : recs'[q] = IF q = r THEN rec ELSE recs[q]
  BY <1>6
<1>8. recs[r].status = "active"
  BY DEF JobFinishes
<1>9. QED  BY <1>3, <1>5, <1>7, <1>8

\* A retry by somebody else adds one record, of the job whose newest one it
\* retries.
LEMMA OtherRetryIs ==
  ASSUME GitLabTypeOK, NEW r \in DOMAIN recs, OtherRetry(r)
  PROVE  /\ GitLabTypeOK' /\ mode' = mode /\ DOMAIN pstat' = DOMAIN pstat
         /\ DOMAIN recs' = DOMAIN recs \cup {Len(recs) + 1}
         /\ Len(recs) \in Nat /\ DOMAIN recs = 1 .. Len(recs)
         /\ \A q \in DOMAIN recs : recs'[q] = recs[q]
         /\ recs'[Len(recs) + 1].name = recs[r].name
         /\ recs'[Len(recs) + 1].pipe = recs[r].pipe
         /\ recs'[Len(recs) + 1].status = "active"
         /\ recs'[Len(recs) + 1].seen
         /\ r \in Live(recs, recs[r].pipe)
<1> DEFINE rec == NewRecord(recs[r].pipe, recs[r].name, 0, r, TRUE)
<1>1. /\ Len(recs) \in Nat /\ DOMAIN recs = 1 .. Len(recs)
      /\ recs[r] \in Record
  BY LenProperties, ElementOfSeq DEF GitLabTypeOK
<1>2. /\ rec \in Record /\ rec.name = recs[r].name /\ rec.pipe = recs[r].pipe
      /\ rec.status = "active" /\ rec.seen
  BY <1>1, NewRecordType DEF Record, NewRecord
<1>3. Change(Append(recs, rec)) /\ r \in Live(recs, recs[r].pipe)
  BY DEF OtherRetry
<1> HIDE DEF rec
<1>4. /\ GitLabTypeOK' /\ mode' = mode /\ DOMAIN pstat' = DOMAIN pstat
      /\ DOMAIN recs' = DOMAIN recs \cup {Len(recs) + 1}
      /\ \A q \in DOMAIN recs : recs'[q] = recs[q]
      /\ recs'[Len(recs) + 1] = rec
  BY <1>2, <1>3, AppendKeeps
<1>5. QED  BY <1>1, <1>2, <1>3, <1>4

\* The newest records of a pipeline do not change when another one is created,
LEMMA CreateLive ==
  ASSUME GitLabTypeOK, CreatePipeline, NEW p, p # Len(pstat) + 1
  PROVE  Live(recs', p) = Live(recs, p)
<1>1. /\ \A r \in DOMAIN recs : r \in DOMAIN recs' /\ recs'[r] = recs[r]
      /\ \A r \in DOMAIN recs' \ DOMAIN recs : recs'[r].pipe # p
  BY CreateIs
<1>2. Attempts(recs', p) = Attempts(recs, p)
  BY <1>1 DEF Attempts
<1>3. \A r \in Attempts(recs, p) : recs'[r] = recs[r]
  BY <1>1 DEF Attempts
<1>4. QED  BY <1>2, <1>3 DEF Live

\* nor when a job finishes;
LEMMA FinishLive ==
  ASSUME GitLabTypeOK, NEW r \in DOMAIN recs, JobFinishes(r), NEW p
  PROVE  Live(recs', p) = Live(recs, p)
<1>1. /\ DOMAIN recs' = DOMAIN recs
      /\ \A q \in DOMAIN recs :
            /\ recs'[q].name = recs[q].name /\ recs'[q].pipe = recs[q].pipe
            /\ recs'[q].seen = recs[q].seen
  BY FinishIs
<1>2. Attempts(recs', p) = Attempts(recs, p) /\ Attempts(recs, p) \subseteq DOMAIN recs
  BY <1>1 DEF Attempts
<1>3. QED  BY <1>1, <1>2 DEF Live

\* a retry puts the new record in the place of the one it retries.
LEMMA OtherRetryLive ==
  ASSUME GitLabTypeOK, NEW r \in DOMAIN recs, OtherRetry(r), NEW p
  PROVE  Live(recs', p) = IF p = recs[r].pipe
                          THEN (Live(recs, p) \ {r}) \cup {Len(recs) + 1}
                          ELSE Live(recs, p)
<1> DEFINE n == Len(recs) + 1
<1>1. /\ DOMAIN recs' = DOMAIN recs \cup {n}
      /\ Len(recs) \in Nat /\ DOMAIN recs = 1 .. Len(recs)
      /\ \A q \in DOMAIN recs : recs'[q] = recs[q]
      /\ recs'[n].name = recs[r].name /\ recs'[n].pipe = recs[r].pipe
      /\ recs'[n].seen /\ r \in Live(recs, recs[r].pipe)
  BY OtherRetryIs
<1>2. n \notin DOMAIN recs /\ \A q \in DOMAIN recs : q < n /\ q <= n /\ ~(n <= q) /\ n <= n
  BY <1>1
<1> HIDE DEF n
<1>3. CASE p # recs[r].pipe
  <2>1. Attempts(recs', p) = Attempts(recs, p) /\ Attempts(recs, p) \subseteq DOMAIN recs
    BY <1>1, <1>3 DEF Attempts
  <2>2. Live(recs', p) = Live(recs, p)
    BY <1>1, <2>1 DEF Live
  <2>3. QED  BY <1>3, <2>2
<1>4. CASE p = recs[r].pipe
  <2>1. /\ Attempts(recs', p) = Attempts(recs, p) \cup {n}
        /\ Attempts(recs, p) \subseteq DOMAIN recs
    BY <1>1, <1>4 DEF Attempts
  <2>2. /\ r \in Attempts(recs, p)
        /\ \A s \in Attempts(recs, p) : recs[s].name = recs[r].name => s <= r
    BY <1>1, <1>4 DEF Live
  <2>3. n \in Live(recs', p)
    BY <1>1, <1>2, <2>1 DEF Live
  <2>4. ASSUME NEW q \in Attempts(recs, p)
        PROVE  q \in Live(recs', p) <=> q \in Live(recs, p) /\ q # r
    <3>1. q \in Live(recs', p)
             <=> /\ recs'[n].name = recs'[q].name => n <= q
                 /\ \A s \in Attempts(recs, p) : recs'[s].name = recs'[q].name => s <= q
      BY <2>1 DEF Live
    <3>2. q \in Live(recs', p)
             <=> /\ recs[r].name # recs[q].name
                 /\ \A s \in Attempts(recs, p) : recs[s].name = recs[q].name => s <= q
      BY <1>1, <1>2, <2>1, <3>1
    <3>3. q \in Live(recs', p) <=> recs[r].name # recs[q].name /\ q \in Live(recs, p)
      BY <3>2 DEF Live
    <3>4. q \in Live(recs, p) => (recs[r].name = recs[q].name <=> q = r)
      <4>1. ASSUME q \in Live(recs, p), recs[r].name = recs[q].name
            PROVE  q = r
        <5>1. r <= q /\ q <= r
          BY <2>2, <4>1 DEF Live
        <5>2. q \in Nat /\ r \in Nat
          BY <1>1, <2>1
        <5>3. QED  BY <5>1, <5>2
      <4>2. QED  BY <4>1
    <3>5. QED  BY <3>3, <3>4
  <2>5. /\ Live(recs', p) \subseteq Attempts(recs, p) \cup {n}
        /\ Live(recs, p) \subseteq Attempts(recs, p)
        /\ n \notin Attempts(recs, p)
    BY <1>2, <2>1 DEF Live
  <2>6. Live(recs', p) = (Live(recs, p) \ {r}) \cup {n}
    BY <2>3, <2>4, <2>5
  <2>7. QED  BY <1>4, <2>6 DEF n
<1>5. QED  BY <1>3, <1>4

\* A pipeline has at most one newest record of each name.
LEMMA LiveIsSmall ==
  ASSUME GitLabTypeOK, NEW p
  PROVE  /\ IsFiniteSet(Name) /\ Cardinality(Name) \in Nat
         /\ Cardinality(Name) <= Len(JobNames)
         /\ Live(recs, p) \in SUBSET DOMAIN recs
         /\ Cardinality(Live(recs, p)) <= Cardinality(Name)
<1> DEFINE L == Live(recs, p)
<1>1. /\ L \in SUBSET DOMAIN recs
      /\ \A r \in L : r \in Nat /\ recs[r].name \in Name
      /\ \A r, s \in L : recs[s].name = recs[r].name => s <= r
  <2>1. \A r \in DOMAIN recs : r \in Nat /\ recs[r] \in Record
    BY LenProperties, ElementOfSeq DEF GitLabTypeOK
  <2>2. QED  BY <2>1 DEF Live, Attempts, Record
<1>2. Len(JobNames) \in Nat /\ DOMAIN JobNames = 1 .. Len(JobNames)
  BY GitLabAssumption, LenProperties
<1>3. IsFiniteSet(Name) /\ Cardinality(Name) <= Len(JobNames)
  <2>1. [i \in 1 .. Len(JobNames) |-> JobNames[i]]
           \in Surjection(1 .. Len(JobNames), Name)
    BY <1>2 DEF Surjection, Name
  <2>2. ASSUME NEW n \in Nat
        PROVE  IsFiniteSet(1 .. n) /\ Cardinality(1 .. n) = n
    <3>1. /\ IsFiniteSet(1 .. n)
          /\ Cardinality(1 .. n) = IF 1 > n THEN 0 ELSE n - 1 + 1
      BY FS_Interval
    <3>2. QED  BY <3>1
  <2>3. QED  BY <1>2, <2>1, <2>2, FS_Surjection
<1>4. Cardinality(L) <= Cardinality(Name)
  <2> DEFINE f == [r \in L |-> recs[r].name]
  <2>1. f \in [L -> Name]
    BY <1>1
  <2>2. \A r, s \in L : f[r] = f[s] => r = s
    BY <1>1
  <2> HIDE DEF f, L
  <2>3. QED  BY <1>3, <2>1, <2>2, InjectionCounts
<1>5. QED  BY <1>1, <1>3, <1>4, FS_CardinalityType

\* A job that finishes stays where it is in the listing; a retry adds the newest
\* record and hides an older one of its name, which puts no other further to the
\* front.
LEMMA LiveGoesOn ==
  ASSUME GitLabTypeOK, NEW q \in DOMAIN recs, JobFinishes(q) \/ OtherRetry(q), NEW p
  PROVE  /\ Live(recs', p) \cap DOMAIN recs \subseteq Live(recs, p)
         /\ \A r \in Live(recs', p) \cap DOMAIN recs :
               Cardinality({s \in Live(recs', p) : s > r})
                  >= Cardinality({s \in Live(recs, p) : s > r})
<1> DEFINE L == Live(recs, p)  M == Live(recs', p)
<1>1. L \in SUBSET DOMAIN recs /\ \A r \in DOMAIN recs : r \in Nat
  BY LenProperties, LiveIsSmall DEF GitLabTypeOK
<1>2. \A r : Cardinality({s \in L : s > r}) \in Nat /\ IsFiniteSet({s \in L : s > r})
  <2>1. \A r : {s \in L : s > r} \in SUBSET DOMAIN recs
    BY <1>1
  <2> HIDE DEF L
  <2>2. QED  BY <2>1, RecordSetIsFinite
<1>3. CASE M = L
  <2> HIDE DEF M, L
  <2>1. QED  BY <1>2, <1>3 DEF M, L
<1>4. CASE JobFinishes(q)
  BY <1>3, <1>4, FinishLive
<1>5. CASE OtherRetry(q) /\ p # recs[q].pipe
  BY <1>3, <1>5, OtherRetryLive
<1>6. CASE OtherRetry(q) /\ p = recs[q].pipe
  <2> DEFINE n == Len(recs) + 1
  <2>1. M = (L \ {q}) \cup {n}
    BY <1>6, OtherRetryLive
  <2>2. /\ n \notin DOMAIN recs /\ n \in Nat
        /\ \A r \in DOMAIN recs : n > r
    BY LenProperties DEF GitLabTypeOK
  <2> HIDE DEF M, L, n
  <2>3. ASSUME NEW r \in DOMAIN recs
        PROVE  Cardinality({s \in M : s > r}) >= Cardinality({s \in L : s > r})
    <3> DEFINE S == {s \in L : s > r}
    <3>1. {s \in M : s > r} = (S \ {q}) \cup {n}
      BY <1>1, <2>1, <2>2, <2>3
    <3>2. n \notin S \ {q} /\ IsFiniteSet(S) /\ Cardinality(S) \in Nat
      BY <1>1, <1>2, <2>2
    <3> HIDE DEF S
    <3>3. /\ IsFiniteSet(S \ {q})
          /\ Cardinality(S \ {q}) = IF q \in S THEN Cardinality(S) - 1 ELSE Cardinality(S)
      BY <3>2, FS_RemoveElement
    <3>4. Cardinality((S \ {q}) \cup {n}) = Cardinality(S \ {q}) + 1
      BY <3>2, <3>3, FS_AddElement
    <3>5. Cardinality((S \ {q}) \cup {n}) >= Cardinality(S)
      BY <3>2, <3>3, <3>4
    <3>6. QED  BY <3>1, <3>5 DEF S
  <2>4. M \cap DOMAIN recs \subseteq L
    BY <2>1, <2>2
  <2>5. QED  BY <2>3, <2>4 DEF M, L
<1>7. QED  BY <1>4, <1>5, <1>6

-----------------------------------------------------------------------------
(* Sets in some order.                                                     *)

\* The order SetToSeq puts a finite set in holds each element once.
LEMMA SetToSeqLists ==
  ASSUME NEW S, IsFiniteSet(S)
  PROVE  /\ Cardinality(S) \in Nat
         /\ SetToSeq(S) \in [1 .. Cardinality(S) -> S]
         /\ \A i, j \in 1 .. Cardinality(S) : SetToSeq(S)[i] = SetToSeq(S)[j] => i = j
         /\ \A x \in S : \E i \in 1 .. Cardinality(S) : SetToSeq(S)[i] = x
<1> DEFINE n == Cardinality(S)
<1>1. n \in Nat /\ ExistsBijection(1 .. n, S)
  BY FS_CardinalityType
<1>2. PICK b \in Bijection(1 .. n, S) : TRUE
  BY <1>1 DEF ExistsBijection
<1>3. b \in [1 .. n -> S] /\ IsInjective(b)
  BY <1>2 DEF Bijection, Injection, IsInjective
<1>4. SetToSeq(S) \in [1 .. n -> S] /\ IsInjective(SetToSeq(S))
  BY <1>3 DEF SetToSeq
<1>5. SetToSeq(S) \in Injection(1 .. n, S)
  BY <1>4 DEF Injection, IsInjective
<1>6. Cardinality(1 .. n) = n /\ IsFiniteSet(1 .. n)
  <2>1. /\ IsFiniteSet(1 .. n)
        /\ Cardinality(1 .. n) = IF 1 > n THEN 0 ELSE n - 1 + 1
    BY <1>1, FS_Interval
  <2>2. QED  BY <1>1, <2>1
<1>7. SetToSeq(S) \in Surjection(1 .. n, S)
  BY <1>5, <1>6, FS_Injection
<1>8. \A i, j \in 1 .. n : SetToSeq(S)[i] = SetToSeq(S)[j] => i = j
  BY <1>4 DEF IsInjective
<1>9. QED  BY <1>1, <1>4, <1>7, <1>8 DEF Surjection
=============================================================================
