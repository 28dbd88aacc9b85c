----------------------------- MODULE RetryBatch -----------------------------
(***************************************************************************)
(* core/retry.py retry_jobs on top of core/_concurrency.py gather_bounded: *)
(* one POST per selected job, at most MaxInFlight of them in flight, each  *)
(* POST's outcome collected separately.                                    *)
(*                                                                         *)
(* The server half of a POST (accepted or refused) and the client half     *)
(* (the answer arrives) are different steps, so an answer can be lost      *)
(* after GitLab has already minted the new job.                            *)
(***************************************************************************)
EXTENDS GitLab

CONSTANT MaxInFlight  \* MAX_CONCURRENT_REQUESTS

ASSUME RetryBatchAssumption == MaxInFlight \in Nat \ {0}

VARIABLE batch  \* the phase of each selected job's _retry_one task

\* waiting: the task waits for the semaphore.  sent: the POST is on its way.
\* accepted, refused: GitLab has decided, the answer is on its way.
\* new, error: the RetryOutcome.  dropped: cancelled before it was sent.
OnWire == {"sent", "accepted", "refused"}
Settled == {"new", "error"}
Phase == OnWire \cup Settled \cup {"waiting", "dropped"}

NoBatch == [e \in {} |-> "waiting"]
StartBatch(selected) == [e \in selected |-> "waiting"]

InFlight == {e \in DOMAIN batch : batch[e] \in OnWire}
Accepted == {e \in DOMAIN batch : batch[e] \in {"accepted", "new"}}
BatchSettled == \A e \in DOMAIN batch : batch[e] \in Settled

Move(e, phase) == batch' = [batch EXCEPT ![e] = phase]

\* asyncio.Semaphore wakes its waiters in order.
Send(e) ==
    /\ batch[e] = "waiting"
    /\ Cardinality(InFlight) < MaxInFlight
    /\ \A f \in DOMAIN batch : batch[f] = "waiting" => f = e \/ Before(e, f)
    /\ Move(e, "sent")
    /\ UNCHANGED gitlabVars

\* GitLab accepts.  The client has the answer, or has stopped listening.
Accept(e, run) ==
    /\ batch[e] = "sent"
    /\ Mint(e.id, run)
    /\ Move(e, "accepted")

\* Any HTTP error status: 403, 404, a 429 on every attempt, a 5xx.  Collect makes
\* an outcome of each, save one: the 404 that names the project is a ConfigError,
\* which ends the batch (Attach.BatchBroken, RetryCommand.ConfigBreaks).
Refuse(e) ==
    /\ batch[e] = "sent"
    /\ Move(e, "refused")
    /\ UNCHANGED gitlabVars

\* The answer arrives: _retry_one turns it into a RetryOutcome.
Collect(e) ==
    /\ \/ batch[e] = "accepted" /\ Move(e, "new")
       \/ batch[e] = "accepted" /\ ~Truthful /\ Move(e, "error")
       \/ batch[e] = "refused" /\ Move(e, "error")
    /\ UNCHANGED gitlabVars

\* Cancelling the tasks keeps what is on the wire: GitLab may still act on it.
Cancelled == [e \in DOMAIN batch |->
                 IF batch[e] = "waiting" THEN "dropped" ELSE batch[e]]

BatchTypeOK ==
    /\ DOMAIN batch \subseteq Entry
    /\ IsFiniteSet(DOMAIN batch)
    /\ batch \in [DOMAIN batch -> Phase]
=============================================================================
