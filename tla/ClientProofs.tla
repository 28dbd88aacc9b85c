----------------------------- MODULE ClientProofs -----------------------------
(***************************************************************************)
(* client.py, for every number of attempts, pages, rows and concurrent     *)
(* reads, and every set of status codes.                                   *)
(*                                                                         *)
(* The request loop: a POST is served at most once, what its caller is     *)
(* told is true, and a GET uses every attempt.  The readers of listings: a *)
(* listing read while it does not change is whole, and MAX_PAGES is the    *)
(* same line for all of them.  Their invariant says where a call is: one   *)
(* that goes from page to page has read those before want, all of them     *)
(* from GitLab; one that gathers has read the pages it has no task for.    *)
(***************************************************************************)
EXTENDS HttpRequest, PagedFetch, FiniteSetTheorems, TLAPS

-----------------------------------------------------------------------------
(* The request loop.                                                       *)

\* An attempt behind the current one is over; the one ahead is untouched.
AttemptsInOrder ==
    /\ cpc = "start" => attempt = 1 /\ wire[1] = "unsent"
    /\ cpc = "backoff" => attempt < MaxAttempts
    /\ \A a \in Attempt : a > attempt => wire[a] = "unsent"
    /\ \A a \in Attempt : wire[a] = "unsent" => answer[a] = 0

\* What an answer says of its attempt.
AnswersAreTrue ==
    \A a \in Attempt :
        /\ answer[a] \in Refusals => wire[a] = "rejected"
        /\ answer[a] \in 200 .. 299 => wire[a] = "served"

\* A POST leaves an attempt behind only after GitLab has rejected it.
PostLeavesRejected ==
    method = "POST" =>
        /\ \A a \in Attempt : a < attempt => wire[a] = "rejected"
        /\ cpc = "backoff" => wire[attempt] = "rejected"

\* The outcome is the answer to the current attempt.
OutcomeIsAnswer ==
    /\ cpc # "done" => outcome = NoOutcome
    /\ outcome.code # 0 => outcome.code = answer[attempt]
    /\ outcome.kind = "value" => outcome.code \in 200 .. 299

RequestInv == RequestTypeOK /\ AttemptsInOrder /\ AnswersAreTrue /\ PostLeavesRejected
        /\ OutcomeIsAnswer

-----------------------------------------------------------------------------

\* The invariant holds when _request is called.
LEMMA HttpInit == RequestInit => RequestInv
  BY HttpAssumption
  DEF RequestInit, RequestInv, RequestTypeOK, AttemptsInOrder, AnswersAreTrue, PostLeavesRejected,
      OutcomeIsAnswer, NoOutcome, Attempt, Refusals

\* What a step of the network or of GitLab does to the attempt it is about.
LEMMA ServerEffect ==
  ASSUME RequestInv, NEW a \in Attempt,
         Serve(a) \/ Reject(a) \/ GatewayAnswers(a) \/ Lose(a)
  PROVE  /\ wire[a] = "travelling"
         /\ \E w \in {"travelling", "served", "rejected", "lost"}, c \in Codes \cup {0} :
               /\ wire' = [wire EXCEPT ![a] = w]
               /\ answer' = [answer EXCEPT ![a] = c]
               /\ answer[a] # 0 => c = answer[a]
               /\ c \in Refusals => w = "rejected"
               /\ c \in 200 .. 299 => w = "served"
         /\ UNCHANGED <<method, attempt, cpc, outcome>>
<1> DEFINE Effect(w, c) == /\ wire' = [wire EXCEPT ![a] = w]
                           /\ answer' = [answer EXCEPT ![a] = c]
                           /\ answer[a] # 0 => c = answer[a]
                           /\ c \in Refusals => w = "rejected"
                           /\ c \in 200 .. 299 => w = "served"
<1>0. /\ wire \in [Attempt -> {"unsent", "travelling", "served", "rejected", "lost"}]
      /\ answer \in [Attempt -> Codes \cup {0}]
      /\ Codes \subseteq 200 .. 599
  BY HttpAssumption DEF RequestInv, RequestTypeOK
<1>1. wire[a] = "travelling"
  BY DEF Serve, Reject, GatewayAnswers, Lose
<1>2. answer[a] \notin Refusals /\ answer[a] \notin 200 .. 299
  BY <1>1 DEF RequestInv, AnswersAreTrue
<1>3. UNCHANGED <<method, attempt, cpc, outcome>>
  BY DEF Serve, Reject, GatewayAnswers, Lose
<1>4. ASSUME NEW codes, Answers(a, codes)
      PROVE  \E c \in Codes : /\ answer' = [answer EXCEPT ![a] = c]
                              /\ answer[a] # 0 => c = answer[a]
                              /\ answer[a] = 0 => c \in codes
  <2>1. PICK c \in codes \cap Codes :
            answer' = IF answer[a] = 0 THEN [answer EXCEPT ![a] = c] ELSE answer
    BY <1>4 DEF Answers
  <2>2. CASE answer[a] = 0
    BY <2>1, <2>2
  <2>3. CASE answer[a] # 0
    <3>1. answer[a] \in Codes  BY <1>0, <2>3
    <3>2. answer = [answer EXCEPT ![a] = answer[a]]  BY <1>0
    <3>3. QED  BY <2>1, <2>3, <3>1, <3>2
  <2>4. QED  BY <2>2, <2>3
<1>5. CASE Serve(a)
  <2>1. PICK c \in Codes : /\ answer' = [answer EXCEPT ![a] = c]
                           /\ answer[a] # 0 => c = answer[a]
                           /\ answer[a] = 0 =>
                                 c \in (200 .. 299) \cup (500 .. 599) \cup {408}
    BY <1>4, <1>5 DEF Serve
  <2>2. c \notin Refusals
    BY <1>2, <2>1 DEF Refusals
  <2>3. wire' = [wire EXCEPT ![a] = "served"]
    BY <1>5 DEF Serve
  <2>4. Effect("served", c)  BY <1>2, <2>1, <2>2, <2>3
  <2>5. QED  BY <1>1, <1>3, <2>4
<1>6. CASE Reject(a)
  <2>1. PICK c \in Codes : /\ answer' = [answer EXCEPT ![a] = c]
                           /\ answer[a] # 0 => c = answer[a]
                           /\ answer[a] = 0 => c \in 300 .. 599
    BY <1>4, <1>6 DEF Reject
  <2>2. c \notin 200 .. 299
    BY <1>2, <2>1
  <2>3. wire' = [wire EXCEPT ![a] = "rejected"]
    BY <1>6 DEF Reject
  <2>4. Effect("rejected", c)  BY <1>2, <2>1, <2>2, <2>3
  <2>5. QED  BY <1>1, <1>3, <2>4
<1>7. CASE GatewayAnswers(a)
  <2>1. PICK c \in Codes : /\ answer' = [answer EXCEPT ![a] = c]
                           /\ answer[a] # 0 => c = answer[a]
                           /\ answer[a] = 0 => c \in 500 .. 599
    BY <1>4, <1>7 DEF GatewayAnswers
  <2>2. c \notin Refusals /\ c \notin 200 .. 299
    BY <1>2, <2>1 DEF Refusals
  <2>3. wire' = [wire EXCEPT ![a] = "travelling"]
    BY <1>0, <1>1, <1>7 DEF GatewayAnswers
  <2>4. Effect("travelling", c)  BY <1>2, <2>1, <2>2, <2>3
  <2>5. QED  BY <1>1, <1>3, <2>4
<1>8. CASE Lose(a)
  <2>1. answer' = [answer EXCEPT ![a] = answer[a]]
    BY <1>0, <1>8 DEF Lose
  <2>2. wire' = [wire EXCEPT ![a] = "lost"]
    BY <1>8 DEF Lose
  <2>3. Effect("lost", answer[a])  BY <1>2, <2>1, <2>2
  <2>4. answer[a] \in Codes \cup {0}  BY <1>0
  <2>5. QED  BY <1>1, <1>3, <2>3, <2>4
<1>9. QED  BY <1>5, <1>6, <1>7, <1>8

\* What GitLab and the network do keeps the invariant.
LEMMA ServerKeeps ==
  ASSUME RequestInv, NEW a \in Attempt,
         Serve(a) \/ Reject(a) \/ GatewayAnswers(a) \/ Lose(a)
  PROVE  RequestInv'
<1>1. wire[a] = "travelling" /\ UNCHANGED <<method, attempt, cpc, outcome>>
  BY ServerEffect
<1>2. PICK w \in {"travelling", "served", "rejected", "lost"}, c \in Codes \cup {0} :
         /\ wire' = [wire EXCEPT ![a] = w]
         /\ answer' = [answer EXCEPT ![a] = c]
         /\ answer[a] # 0 => c = answer[a]
         /\ c \in Refusals => w = "rejected"
         /\ c \in 200 .. 299 => w = "served"
  BY ServerEffect
<1>3. RequestTypeOK'
  BY <1>1, <1>2 DEF RequestInv, RequestTypeOK
<1>4. AttemptsInOrder'
  BY <1>1, <1>2, HttpAssumption DEF RequestInv, RequestTypeOK, AttemptsInOrder, Attempt
<1>5. AnswersAreTrue'
  BY <1>1, <1>2 DEF RequestInv, RequestTypeOK, AnswersAreTrue
<1>6. PostLeavesRejected'
  BY <1>1, <1>2, HttpAssumption DEF RequestInv, RequestTypeOK, PostLeavesRejected, Attempt
<1>7. OutcomeIsAnswer'
  <2>1. answer[attempt] # 0 => answer'[attempt] = answer[attempt]
    BY <1>2 DEF RequestInv, RequestTypeOK
  <2>2. QED  BY <1>1, <2>1 DEF RequestInv, RequestTypeOK, OutcomeIsAnswer
<1>8. QED  BY <1>3, <1>4, <1>5, <1>6, <1>7 DEF RequestInv

\* The loop sends the next attempt.
LEMMA SendKeeps ==
  ASSUME RequestInv, NEW a \in Attempt, SendAttempt(a), cpc # "done",
         \A b \in Attempt : b >= a => wire[b] = "unsent",
         method = "POST" => \A b \in Attempt : b < a => wire[b] = "rejected"
  PROVE  RequestInv'
<1> USE DEF RequestInv, SendAttempt
<1>1. RequestTypeOK'
  BY DEF RequestTypeOK
<1>2. AttemptsInOrder'
  BY HttpAssumption DEF RequestTypeOK, AttemptsInOrder, Attempt
<1>3. AnswersAreTrue'
  <2>1. answer[a] = 0
    BY DEF AttemptsInOrder, Attempt
  <2>2. answer[a] \notin Refusals /\ answer[a] \notin 200 .. 299
    BY <2>1 DEF Refusals
  <2>3. QED  BY <2>2 DEF RequestTypeOK, AnswersAreTrue
<1>4. PostLeavesRejected'
  BY HttpAssumption DEF RequestTypeOK, PostLeavesRejected, Attempt
<1>5. OutcomeIsAnswer'
  BY DEF RequestTypeOK, OutcomeIsAnswer, NoOutcome
<1>6. QED  BY <1>1, <1>2, <1>3, <1>4, <1>5

\* The loop ends.
LEMMA ReturnKeeps ==
  ASSUME RequestInv, NEW how, NEW code, Return(how, code),
         UNCHANGED <<method, attempt, wire, answer>>,
         how \in {"value", "ConfigError", "NotFoundError", "GitLabAPIError",
                   "TransportError", "CancelledError"},
         code \in Codes \cup {0},
         code # 0 => code = answer[attempt],
         how = "value" => code \in 200 .. 299,
         cpc # "start"
  PROVE  RequestInv'
<1> USE DEF RequestInv, Return
<1>1. RequestTypeOK'
  BY DEF RequestTypeOK
<1>2. AttemptsInOrder' /\ AnswersAreTrue' /\ PostLeavesRejected'
  BY DEF AttemptsInOrder, AnswersAreTrue, PostLeavesRejected
<1>3. OutcomeIsAnswer'
  BY DEF OutcomeIsAnswer
<1>4. QED  BY <1>1, <1>2, <1>3

\* The loop goes round again: for a POST only after a rejection.
LEMMA BackoffKeeps ==
  ASSUME RequestInv, cpc = "await", cpc' = "backoff", ~IsLastAttempt,
         UNCHANGED <<method, attempt, wire, answer, outcome>>,
         method = "POST" => wire[attempt] = "rejected"
  PROVE  RequestInv'
<1> USE DEF RequestInv
<1>1. RequestTypeOK'
  BY DEF RequestTypeOK
<1>2. AttemptsInOrder'
  BY HttpAssumption DEF RequestTypeOK, AttemptsInOrder, Attempt, IsLastAttempt
<1>3. AnswersAreTrue' /\ PostLeavesRejected' /\ OutcomeIsAnswer'
  BY DEF AnswersAreTrue, PostLeavesRejected, OutcomeIsAnswer
<1>4. QED  BY <1>1, <1>2, <1>3

\* What the request loop does keeps the invariant.
LEMMA ClientKeeps ==
  ASSUME RequestInv, ClientStep \/ Cancel
  PROVE  RequestInv'
<1>1. CASE Start
  <2>1. 1 \in Attempt /\ attempt = 1 /\ \A b \in Attempt : b >= 1 => wire[b] = "unsent"
    BY <1>1, HttpAssumption DEF Start, RequestInv, AttemptsInOrder, Attempt
  <2>2. QED  BY <1>1, <2>1, SendKeeps DEF Start, Attempt
<1>2. CASE Answered
  <2>1. /\ cpc = "await" /\ answer[attempt] # 0 /\ answer[attempt] \in Codes
        /\ UNCHANGED <<method, attempt, wire, answer>>
    BY <1>2 DEF Answered, RequestInv, RequestTypeOK
  <2>2. CASE answer[attempt] \notin RetryStatuses \/ IsLastAttempt
    <3>1. RaiseForStatus(answer[attempt])
      BY <1>2, <2>2 DEF Answered
    <3>2. QED  BY <2>1, <3>1, ReturnKeeps DEF RaiseForStatus
  <2>3. CASE ~(answer[attempt] \notin RetryStatuses \/ IsLastAttempt)
    <3>1. method = "POST" => answer[attempt] \in Refusals
      BY <2>3 DEF RetryStatuses, RATE_LIMITED_STATUS_CODES, Refusals
    <3>2. method = "POST" => wire[attempt] = "rejected"
      BY <3>1 DEF RequestInv, RequestTypeOK, AnswersAreTrue
    <3>3. cpc' = "backoff" /\ UNCHANGED outcome
      BY <1>2, <2>3 DEF Answered
    <3>4. QED  BY <2>1, <2>3, <3>2, <3>3, BackoffKeeps
  <2>4. QED  BY <2>2, <2>3
<1>3. CASE TransportError
  <2>1. cpc = "await" /\ UNCHANGED <<method, attempt, wire, answer>>
    BY <1>3 DEF TransportError
  <2>2. CASE ~RetryTransport \/ IsLastAttempt
    <3>1. Return("TransportError", 0)
      BY <1>3, <2>2 DEF TransportError
    <3>2. QED  BY <2>1, <3>1, ReturnKeeps
  <2>3. CASE ~(~RetryTransport \/ IsLastAttempt)
    <3>1. cpc' = "backoff" /\ UNCHANGED outcome /\ method # "POST"
      BY <1>3, <2>3 DEF TransportError, RetryTransport
    <3>2. QED  BY <2>1, <2>3, <3>1, BackoffKeeps
  <2>4. QED  BY <2>2, <2>3
<1>4. CASE BackoffOver
  <2>1. /\ attempt + 1 \in Attempt
        /\ \A b \in Attempt : b >= attempt + 1 => wire[b] = "unsent"
    BY <1>4, HttpAssumption DEF BackoffOver, RequestInv, RequestTypeOK, AttemptsInOrder, Attempt
  <2>2. method = "POST" =>
            \A b \in Attempt : b < attempt + 1 => wire[b] = "rejected"
    BY <1>4, HttpAssumption DEF BackoffOver, RequestInv, RequestTypeOK, PostLeavesRejected, Attempt
  <2>3. QED  BY <1>4, <2>1, <2>2, SendKeeps DEF BackoffOver
<1>5. CASE Cancel
  BY <1>5, ReturnKeeps DEF Cancel
<1>6. QED  BY <1>1, <1>2, <1>3, <1>4, <1>5 DEF ClientStep

\* Every step keeps the invariant.
LEMMA HttpStep == RequestInv /\ [RequestNext]_requestVars => RequestInv'
<1> SUFFICES ASSUME RequestInv, [RequestNext]_requestVars PROVE RequestInv'
  OBVIOUS
<1>1. CASE ServerStep
  BY <1>1, ServerKeeps DEF ServerStep
<1>2. CASE ClientStep \/ Cancel
  BY <1>2, ClientKeeps
<1>3. CASE UNCHANGED requestVars
  BY <1>3 DEF requestVars, RequestInv, RequestTypeOK, AttemptsInOrder, AnswersAreTrue,
              PostLeavesRejected, OutcomeIsAnswer
<1>4. QED  BY <1>1, <1>2, <1>3 DEF RequestNext, Finished

\* The invariant holds in every reachable state of _request.
THEOREM HttpInvariant == RequestSpec => []RequestInv
  BY HttpInit, HttpStep, PTL DEF RequestSpec

\* Every variable keeps its type, and no attempt is made beyond the last.
THEOREM HttpTypeCorrect == RequestSpec => []RequestTypeOK
<1>1. RequestInv => RequestTypeOK  BY DEF RequestInv
<1>2. QED  BY <1>1, HttpInvariant, PTL

-----------------------------------------------------------------------------

\* Of a POST, no attempt but the current one can have been served.
LEMMA ServedIsCurrent ==
  ASSUME RequestInv, method = "POST", NEW a \in Served
  PROVE  a = attempt
  BY HttpAssumption
  DEF RequestInv, RequestTypeOK, Attempt, Served, AttemptsInOrder, PostLeavesRejected

\* GitLab acts on a POST at most once, whatever is lost, delayed or answered with
\* an error (client.py _request and _post_response).
THEOREM PostServedOnce == RequestSpec => []PostAtMostOnce
<1>1. RequestInv => PostAtMostOnce  BY ServedIsCurrent DEF PostAtMostOnce
<1>2. QED  BY <1>1, HttpInvariant, PTL

-----------------------------------------------------------------------------
(* A GET gives up only after its last attempt.                             *)

\* Every attempt up to the current one has been sent; a GET that ended with an
\* error worth retrying has come to the last one.
AttemptsAreSent ==
    /\ \A a \in Attempt : a < attempt \/ (a = attempt /\ cpc # "start")
                             => wire[a] # "unsent"
    /\ method = "GET" /\ TransientOutcome => IsLastAttempt /\ cpc = "done"

\* Every step keeps it.
LEMMA SendingKeeps ==
  ASSUME RequestInv, AttemptsAreSent, [RequestNext]_requestVars
  PROVE  AttemptsAreSent'
<1> USE DEF AttemptsAreSent, TransientOutcome, IsLastAttempt
<1>0. /\ wire \in [Attempt -> {"unsent", "travelling", "served", "rejected", "lost"}]
      /\ attempt \in Attempt /\ MaxAttempts \in Nat \ {0}
      /\ (cpc # "done" => outcome = NoOutcome)
  BY HttpAssumption DEF RequestInv, RequestTypeOK, OutcomeIsAnswer
<1>1. CASE ServerStep
  <2>1. PICK a \in Attempt : Serve(a) \/ Reject(a) \/ GatewayAnswers(a) \/ Lose(a)
    BY <1>1 DEF ServerStep
  <2>2. PICK w \in {"travelling", "served", "rejected", "lost"} :
            wire' = [wire EXCEPT ![a] = w]
    BY <2>1, ServerEffect
  <2>3. UNCHANGED <<method, attempt, cpc, outcome>>
    BY <2>1, ServerEffect
  <2>4. QED  BY <1>0, <2>2, <2>3
<1>2. CASE Start \/ BackoffOver
  <2>1. /\ cpc # "done" /\ cpc' = "await" /\ UNCHANGED <<method, outcome>>
        /\ wire' = [wire EXCEPT ![attempt'] = "travelling"]
        /\ \/ attempt' = attempt + 1 /\ cpc = "backoff"
           \/ attempt' = 1
    BY <1>2 DEF Start, BackoffOver, SendAttempt
  <2>2. attempt' \in Nat /\ \A a \in Attempt : a < attempt' => wire[a] # "unsent"
    BY <1>0, <2>1 DEF Attempt
  <2>3. \A a \in Attempt : a < attempt' \/ (a = attempt' /\ cpc' # "start")
                             => wire'[a] # "unsent"
    BY <1>0, <2>1, <2>2 DEF Attempt
  <2>4. ~(TransientOutcome)'
    BY <1>0, <2>1 DEF NoOutcome, RETRYABLE_STATUS_CODES
  <2>5. QED  BY <2>3, <2>4
<1>3. CASE Answered
  <2>1. UNCHANGED <<method, attempt, wire>> /\ cpc = "await"
    BY <1>3 DEF Answered
  <2>2. CASE cpc' = "backoff" /\ outcome' = outcome
    BY <1>0, <2>1, <2>2 DEF NoOutcome, RETRYABLE_STATUS_CODES
  <2>3. CASE /\ answer[attempt] \notin RetryStatuses \/ IsLastAttempt
             /\ RaiseForStatus(answer[attempt])
    <3>1. /\ cpc' = "done" /\ outcome'.code = answer[attempt]
          /\ outcome'.kind # "TransportError"
      BY <2>3 DEF RaiseForStatus, Return
    <3>2. QED  BY <1>0, <2>1, <2>3, <3>1 DEF RetryStatuses
  <2>4. QED  BY <1>3, <2>2, <2>3 DEF Answered
<1>4. CASE TransportError
  <2>1. UNCHANGED <<method, attempt, wire>> /\ cpc = "await"
    BY <1>4 DEF TransportError
  <2>2. CASE cpc' = "backoff" /\ outcome' = outcome
    BY <1>0, <2>1, <2>2 DEF NoOutcome, RETRYABLE_STATUS_CODES
  <2>3. CASE (~RetryTransport \/ IsLastAttempt) /\ Return("TransportError", 0)
    BY <1>0, <2>1, <2>3 DEF RetryTransport, Return
  <2>4. QED  BY <1>4, <2>2, <2>3 DEF TransportError
<1>5. CASE Cancel
  <2>1. /\ UNCHANGED <<method, attempt, wire>> /\ cpc # "start" /\ cpc' = "done"
        /\ outcome' = [kind |-> "CancelledError", code |-> 0]
    BY <1>5 DEF Cancel, Return
  <2>2. QED  BY <1>0, <2>1 DEF RETRYABLE_STATUS_CODES
<1>6. CASE UNCHANGED requestVars
  BY <1>6 DEF requestVars
<1>7. QED
  BY <1>1, <1>2, <1>3, <1>4, <1>5, <1>6 DEF RequestNext, ClientStep, Finished

\* A GET that ends with an error worth retrying has sent all of its attempts,
\* neither one fewer nor one it has not counted (client.py _request).
THEOREM GetGivesUpLast == RequestSpec => []GetUsesEveryAttempt
<1>1. RequestInit => AttemptsAreSent
  BY HttpAssumption
  DEF RequestInit, AttemptsAreSent, TransientOutcome, NoOutcome, RETRYABLE_STATUS_CODES, Attempt
<1>2. RequestInv /\ AttemptsAreSent /\ [RequestNext]_requestVars => AttemptsAreSent'
  BY SendingKeeps
<1>3. ASSUME RequestInv, AttemptsAreSent PROVE GetUsesEveryAttempt
  <2>1. attempt \in Attempt /\ MaxAttempts \in Nat \ {0}
    BY <1>3, HttpAssumption DEF RequestInv, RequestTypeOK
  <2>2. QED
    BY <1>3, <2>1 DEF GetUsesEveryAttempt, AttemptsAreSent, IsLastAttempt, Attempt
<1>4. QED  BY <1>1, <1>2, <1>3, HttpInvariant, PTL DEF RequestSpec

-----------------------------------------------------------------------------
(* HttpRequest implements RemoteCall.                                      *)

\* What the caller of a POST has been told so far is true of the attempts.
ToldIsTrue ==
    method = "POST" =>
        /\ Told = "done" => Served # {}
        /\ Told = "refused" => \A a \in Attempt : wire[a] \in {"rejected", "unsent"}
        /\ cpc # "done" => Told = "none"

\* The outcome told to the caller of _request is what became of the POST.
LEMMA TellsTheTruth == RequestInv => ToldIsTrue
<1> SUFFICES ASSUME RequestInv, method = "POST"
             PROVE  /\ Told = "done" => Served # {}
                    /\ Told = "refused" =>
                          \A a \in Attempt : wire[a] \in {"rejected", "unsent"}
                    /\ cpc # "done" => Told = "none"
  BY DEF ToldIsTrue
<1>0. attempt \in Attempt /\ MaxAttempts \in Nat
  BY HttpAssumption DEF RequestInv, RequestTypeOK
<1>1. Told = "done" => Served # {}
  <2>1. ASSUME Told = "done" PROVE outcome.code \in 200 .. 299
    BY <2>1 DEF Told, RequestInv, OutcomeIsAnswer
  <2>2. ASSUME Told = "done" PROVE answer[attempt] \in 200 .. 299
    BY <2>1, <2>2 DEF RequestInv, OutcomeIsAnswer
  <2>3. QED  BY <1>0, <2>2 DEF RequestInv, AnswersAreTrue, Served
<1>2. ASSUME Told = "refused"
      PROVE  \A a \in Attempt : wire[a] \in {"rejected", "unsent"}
  <2>1. outcome.code \in Refusals
    BY <1>2 DEF Told
  <2>2. outcome.code # 0
    BY <2>1 DEF Refusals
  <2>3. wire[attempt] = "rejected"
    BY <1>0, <2>1, <2>2 DEF RequestInv, OutcomeIsAnswer, AnswersAreTrue
  <2>4. QED
    BY <1>0, <2>3 DEF RequestInv, PostLeavesRejected, AttemptsInOrder, Attempt
<1>3. cpc # "done" => Told = "none"
  BY DEF RequestInv, OutcomeIsAnswer, NoOutcome, Told
<1>4. QED  BY <1>1, <1>2, <1>3

\* A step of the request loop is a step of RemoteCall, or changes nothing there.
LEMMA CallStep ==
  ASSUME RequestInv, RequestInv', ToldIsTrue, ToldIsTrue', [RequestNext]_requestVars
  PROVE  [Call!Serve \/ Call!Tell]_Call!callVars
<1> USE DEF Call!callVars
<1>1. method' = method
  BY DEF RequestNext, ClientStep, ServerStep, Start, SendAttempt, Answered, TransportError,
         BackoffOver, Cancel, Serve, Reject, GatewayAnswers, Lose, Finished, requestVars
<1>2. CASE method # "POST"
  BY <1>1, <1>2
<1>3. CASE method = "POST" /\ ServerStep
  <2>1. PICK a \in Attempt : Serve(a) \/ Reject(a) \/ GatewayAnswers(a) \/ Lose(a)
    BY <1>3 DEF ServerStep
  <2>2. wire[a] = "travelling" /\ Told' = Told
    BY <2>1, ServerEffect DEF Told
  <2>3. wire \in [Attempt -> {"unsent", "travelling", "served", "rejected", "lost"}]
    BY DEF RequestInv, RequestTypeOK
  <2>4. CASE Serve(a)
    <3>1. Served' = Served \cup {a}
      BY <2>3, <2>4 DEF Serve, Served
    <3>2. Told \in {"none", "done", "refused", "unknown"}
      BY DEF Told
    <3>3. Told # "refused"
      BY <1>3, <2>2 DEF ToldIsTrue
    <3>4. CASE Served = {}
      BY <1>1, <1>3, <2>2, <3>1, <3>2, <3>3, <3>4 DEF Call!Serve, ToldIsTrue
    <3>5. CASE Served # {}
      BY <1>1, <1>3, <2>2, <3>1, <3>5
    <3>6. QED  BY <3>4, <3>5
  <2>5. CASE Reject(a) \/ GatewayAnswers(a) \/ Lose(a)
    <3>1. Served' = Served
      BY <2>2, <2>3, <2>5 DEF Reject, GatewayAnswers, Lose, Served
    <3>2. QED  BY <1>1, <2>2, <3>1
  <2>6. QED  BY <2>1, <2>4, <2>5
<1>4. CASE method = "POST" /\ (Start \/ BackoffOver)
  <2>1. PICK a \in Attempt : SendAttempt(a) /\ wire[a] = "unsent"
    <3>1. CASE Start
      BY <3>1, HttpAssumption DEF Start, RequestInv, AttemptsInOrder, Attempt
    <3>2. CASE BackoffOver
      <4>1. attempt + 1 \in Attempt /\ attempt + 1 > attempt
        BY <3>2, HttpAssumption DEF BackoffOver, RequestInv, RequestTypeOK, AttemptsInOrder, Attempt
      <4>2. QED  BY <3>2, <4>1 DEF BackoffOver, RequestInv, AttemptsInOrder
    <3>3. QED  BY <1>4, <3>1, <3>2
  <2>2. Served' = Served
    BY <2>1 DEF SendAttempt, Served, RequestInv, RequestTypeOK
  <2>3. Told' = Told
    BY <2>1 DEF SendAttempt, Told
  <2>4. QED  BY <1>1, <2>2, <2>3
<1>5. CASE method = "POST" /\ (Answered \/ TransportError \/ Cancel)
  <2>1. Served' = Served /\ cpc # "done"
    BY <1>5 DEF Answered, TransportError, Cancel, Served
  <2>2. Told = "none"
    BY <1>5, <2>1 DEF ToldIsTrue
  <2>3. Told' \in {"none", "done", "refused", "unknown"}
    BY DEF Told
  <2>4. Told' = "done" => Served # {}
    BY <1>1, <1>5, <2>1 DEF ToldIsTrue
  <2>5. Told' = "refused" => Served = {}
    BY <1>1, <1>5, <2>1 DEF ToldIsTrue, Served
  <2>6. QED  BY <1>1, <1>5, <2>1, <2>2, <2>3, <2>4, <2>5 DEF Call!Tell
<1>6. CASE UNCHANGED requestVars
  BY <1>6 DEF requestVars, Served, Told
<1>7. QED  BY <1>2, <1>3, <1>4, <1>5, <1>6 DEF RequestNext, ClientStep, Finished

\* A POST is the remote call that RetryBatch.tla takes for granted: served at most
\* once, "done" and "refused" the truth, "unknown" neither (client.py
\* _post_response, _raise_for_status).
THEOREM PostImplementsCall == RequestSpec => ImplementsRemoteCall
<1>1. RequestInit => Call!CallInit
  BY DEF RequestInit, Call!CallInit, Served, Told, NoOutcome
<1>2. RequestInv /\ RequestInv' /\ ToldIsTrue /\ ToldIsTrue' /\ [RequestNext]_requestVars
         => [Call!Serve \/ Call!Tell]_Call!callVars
  BY CallStep
<1>3. QED
  BY <1>1, <1>2, HttpInvariant, TellsTheTruth, PTL
  DEF RequestSpec, ImplementsRemoteCall, Call!CallSpec

-----------------------------------------------------------------------------
(* The readers: the inductive invariant.                                   *)

\* The tasks of _get_all are for pages after the first, in its last stage.
TasksOK ==
    /\ waiting \cup inFlight \subseteq Rows
    /\ stage # "gathering" => waiting = {} /\ inFlight = {}

\* The pages are read in order, none of them from the cache but the last; the
\* concurrent reader has tasks for those it has not read.
ProgressOK ==
    /\ stage = "reading" /\ kind = "page" =>
          want = NoPageNumber /\ PagesRead = {} /\ hits = {}
    /\ stage = "reading" /\ kind # "page" =>
          /\ want \in 1..MaxPages /\ want \in Rows \cup {1}
          /\ PagesRead = 1..want - 1 /\ hits = {}
    /\ stage = "gathering" =>
          /\ kind = "all"
          /\ \E total \in 1..MaxPages : PagesRead \cup waiting \cup inFlight = 1..total
    /\ stage = "done" /\ kind # "page" => \E total \in 1..MaxPages : PagesRead = 1..total
    /\ stage = "done" /\ kind = "page" => PagesRead \subseteq {NoPageNumber}

\* While the listing does not change, what was read from GitLab is what is there,
\* and the reader knows how far it has to go.
SteadyOK ==
    changes = 0 =>
        /\ stage \in Running \cup {"done"} /\ kind # "page" =>
              \A n \in PagesRead \ hits : got[n] = RowsOn(n)
        /\ stage = "reading" /\ kind # "page" => want <= PageCount
        /\ stage = "gathering" => PagesRead \cup waiting \cup inFlight = 1..PageCount
        /\ stage = "done" /\ kind # "page" =>
              \/ PagesRead = 1..PageCount
              \/ \E last \in hits : PagesRead = 1..last
        /\ stage = "limit" => PageCount > MaxPages

\* All but what SteadyOK says of a listing that does not change.
ReaderInv == TypeOK /\ TasksOK /\ ProgressOK

FetchInv == ReaderInv /\ SteadyOK

-----------------------------------------------------------------------------
(* Pages and their number.                                                 *)

\* There are as many numbers from 1 to n as n says.
LEMMA CountTo ==
  ASSUME NEW n \in Nat
  PROVE  IsFiniteSet(1..n) /\ Cardinality(1..n) = n
<1>1. /\ IsFiniteSet(1..n)
      /\ Cardinality(1..n) = IF 1 > n THEN 0 ELSE n - 1 + 1
  BY FS_Interval
<1>2. QED  BY <1>1

\* A listing has a page at least, and no more pages than rows can be made.
LEMMA PageCountFits ==
  ASSUME live \subseteq Rows
  PROVE  PageCount \in Nat \ {0} /\ (PageCount = 1 \/ PageCount <= MaxRows)
<1>1. IsFiniteSet(Rows) /\ Cardinality(Rows) = MaxRows /\ MaxRows \in Nat
  BY PagedFetchAssumption, CountTo DEF Rows
<1>2. /\ IsFiniteSet(live) /\ Cardinality(live) <= MaxRows
      /\ Cardinality(live) \in Nat
  <2>1. live \in SUBSET Rows
    OBVIOUS
  <2>2. IsFiniteSet(live) /\ Cardinality(live) <= Cardinality(Rows)
    BY <1>1, <2>1, FS_Subset
  <2>3. QED  BY <1>1, <2>2, FS_CardinalityType
<1>3. live # {} => Cardinality(live) # 0
  BY <1>2, FS_EmptySet
<1>4. QED  BY <1>2, <1>3 DEF PageCount

\* What GitLab says of a page.
LEMMA AnswerIs ==
  ASSUME NEW n, NEW counted, n # NoPageNumber
  PROVE  /\ Answer(n, counted).rows = RowsOn(n)
         /\ Answer(n, counted).next = IF n < PageCount THEN n + 1 ELSE 0
         /\ Answer(n, counted).total \in {0, PageCount}
  BY DEF Answer, PageFrom

\* The rows of an answer are rows.
LEMMA AnswerRows ==
  ASSUME live \subseteq Rows, NEW n, NEW counted
  PROVE  Answer(n, counted).rows \subseteq Rows
  BY DEF Answer, PageFrom, RowsOn

\* Storing a page keeps the cache what it is.
LEMMA StoredTyped ==
  ASSUME TypeOK, NEW n \in Rows \cup {NoPageNumber, 1}, NEW rows \in SUBSET Rows,
         apiCache' = apiCache \/ apiCache' = Stored(n, rows)
  PROVE  /\ DOMAIN apiCache' \subseteq Rows \cup {NoPageNumber, 1}
         /\ \A m \in DOMAIN apiCache' : apiCache'[m] \subseteq Rows
<1>1. CASE apiCache' = apiCache
  BY <1>1 DEF TypeOK
<1>2. CASE apiCache' = Stored(n, rows)
  BY <1>2 DEF TypeOK, Stored
<1>3. QED  BY <1>1, <1>2

\* A page is from the cache, and the call's last, or it is GitLab's answer.
LEMMA PageIs ==
  ASSUME TypeOK, NEW n \in Rows \cup {NoPageNumber, 1}, NEW page, GetPage(n, page)
  PROVE  /\ DOMAIN apiCache' \subseteq Rows \cup {NoPageNumber, 1}
         /\ \A m \in DOMAIN apiCache' : apiCache'[m] \subseteq Rows
         /\ PagesRead' = PagesRead \cup {n}
         /\ \A m \in PagesRead \ {n} : got'[m] = got[m]
         /\ \/ page.next = 0 /\ page.total = 1 /\ hits' = hits \cup {n}
            \/ /\ \E counted \in BOOLEAN : page = Answer(n, counted)
               /\ hits' = hits /\ got'[n] = page.rows
<1>1. PagesRead' = PagesRead \cup {n} /\ got'[n] = page.rows
  BY DEF GetPage, PagesRead
<1>2. \A m \in PagesRead \ {n} : got'[m] = got[m]
  BY DEF GetPage, PagesRead
<1>3. CASE IsHit(n) /\ page = CachedPage(n) /\ apiCache' = apiCache
  <2>1. page.next = 0 /\ page.total = 1
    BY <1>3 DEF CachedPage
  <2>2. hits' = hits \cup {n}
    BY <1>3 DEF GetPage
  <2>3. QED  BY <1>1, <1>2, <1>3, <2>1, <2>2 DEF TypeOK
<1>4. CASE /\ ~IsHit(n)
           /\ \E counted \in BOOLEAN : page = Answer(n, counted)
           /\ apiCache' = IF fresh THEN apiCache ELSE Stored(n, page.rows)
  <2>1. page.rows \subseteq Rows
    BY <1>4, AnswerRows DEF TypeOK
  <2>2. apiCache' = apiCache \/ apiCache' = Stored(n, page.rows)
    BY <1>4
  <2>3. hits' = hits
    BY <1>4 DEF GetPage
  <2>4. /\ DOMAIN apiCache' \subseteq Rows \cup {NoPageNumber, 1}
        /\ \A m \in DOMAIN apiCache' : apiCache'[m] \subseteq Rows
    BY <2>1, <2>2, StoredTyped
  <2>5. QED  BY <1>1, <1>2, <1>4, <2>3, <2>4
<1>5. QED  BY <1>3, <1>4 DEF GetPage

\* Pages and rows depend on the listing alone.
LEMMA SameListing ==
  ASSUME live' = live
  PROVE  PageCount' = PageCount /\ \A n : RowsOn(n)' = RowsOn(n)
  BY DEF PageCount, RowsOn

-----------------------------------------------------------------------------
(* The steps.                                                              *)

LEMMA InitFetchInv == Init => FetchInv
<1> SUFFICES ASSUME Init PROVE FetchInv
  OBVIOUS
<1>1. PICK k \in 0..MaxRows : live = 1..k
  BY DEF Init
<1>2. live \subseteq Rows
  BY <1>1, PagedFetchAssumption DEF Rows
<1>3. /\ kind = "page" /\ fresh = FALSE /\ stage = "done" /\ want = 0
      /\ waiting = {} /\ inFlight = {} /\ hits = {} /\ calls = 0 /\ changes = 0
      /\ PagesRead = {} /\ DOMAIN apiCache = {}
  BY DEF Init, NoPages, PagesRead
<1>4. TypeOK
  <2>1. Cardinality(inFlight) <= Concurrency
    BY <1>3, FS_EmptySet, PagedFetchAssumption
  <2>2. want \in 0..MaxRows + 1 /\ calls \in 0..MaxCalls /\ changes \in 0..MaxChanges
    BY <1>3, PagedFetchAssumption
  <2>3. QED  BY <1>2, <1>3, <2>1, <2>2 DEF TypeOK
<1>5. TasksOK /\ ProgressOK /\ SteadyOK
  BY <1>3 DEF TasksOK, ProgressOK, SteadyOK
<1>6. QED  BY <1>4, <1>5 DEF FetchInv, ReaderInv

\* A call begins with nothing read, at the first page.
LEMMA BeginKeeps ==
  ASSUME FetchInv, NEW how \in {"page", "iter", "all"}, NEW isFresh \in BOOLEAN,
         Begin(how, isFresh)
  PROVE  FetchInv'
<1>1. /\ kind' = how /\ fresh' = isFresh /\ stage' = "reading"
      /\ hits' = {} /\ changes' = 0 /\ PagesRead' = {}
      /\ waiting' = waiting /\ inFlight' = inFlight
      /\ live' = live /\ apiCache' = apiCache
  BY DEF Begin, cacheVars, NoPages, PagesRead
<1>2. waiting = {} /\ inFlight = {}
  BY DEF Begin, FetchInv, ReaderInv, TasksOK, Running
<1>3. /\ how = "page" => want' = 0
      /\ how # "page" => want' = 1
  BY DEF Begin, NoPageNumber
<1>4. calls' \in 0..MaxCalls
  BY PagedFetchAssumption DEF Begin, FetchInv, ReaderInv, TypeOK
<1>5. TypeOK'
  <2>1. /\ live' \subseteq Rows
        /\ DOMAIN apiCache' \subseteq Rows \cup {NoPageNumber, 1}
        /\ \A n \in DOMAIN apiCache' : apiCache'[n] \subseteq Rows
        /\ Cardinality(inFlight') <= Concurrency
    BY <1>1 DEF FetchInv, ReaderInv, TypeOK
  <2>2. want' \in 0..MaxRows + 1 /\ changes' \in 0..MaxChanges
    BY <1>1, <1>3, PagedFetchAssumption
  <2>3. waiting' \subseteq 2..MaxPages /\ inFlight' \subseteq 2..MaxPages
    BY <1>1, <1>2
  <2>4. QED  BY <1>1, <1>4, <2>1, <2>2, <2>3 DEF TypeOK, Running
<1>6. TasksOK'
  BY <1>1, <1>2 DEF TasksOK
<1>7. ProgressOK'
  <2>1. how # "page" => want' \in 1..MaxPages /\ want' \in Rows \cup {1} /\ 1..want' - 1 = {}
    BY <1>3, PagedFetchAssumption
  <2>2. QED  BY <1>1, <1>3, <2>1 DEF ProgressOK, NoPageNumber
<1>8. SteadyOK'
  <2>1. PageCount' = PageCount /\ PageCount \in Nat \ {0}
    BY <1>1, SameListing, PageCountFits DEF FetchInv, ReaderInv, TypeOK
  <2>2. how # "page" => want' <= PageCount'
    BY <1>3, <2>1
  <2>3. QED  BY <1>1, <2>2 DEF SteadyOK
<1>9. QED  BY <1>5, <1>6, <1>7, <1>8 DEF FetchInv, ReaderInv

\* What a page read one at a time leaves as it was.
LEMMA ReadLeaves ==
  ASSUME FetchInv, ReadPage
  PROVE  /\ live' = live /\ kind' = kind /\ fresh' = fresh /\ inFlight' = inFlight
         /\ calls' = calls /\ changes' = changes
         /\ stage = "reading" /\ waiting = {} /\ inFlight = {} /\ hits = {}
         /\ want \in Rows \cup {NoPageNumber, 1}
<1>1. /\ live' = live /\ kind' = kind /\ fresh' = fresh /\ inFlight' = inFlight
      /\ calls' = calls /\ changes' = changes /\ stage = "reading"
  BY DEF ReadPage
<1>2. waiting = {} /\ inFlight = {}
  BY <1>1 DEF FetchInv, ReaderInv, TasksOK
<1>3. hits = {} /\ want \in Rows \cup {NoPageNumber, 1}
  BY <1>1 DEF FetchInv, ReaderInv, ProgressOK
<1>4. QED  BY <1>1, <1>2, <1>3

\* The types, once the stage, the next page and the tasks have theirs.
LEMMA ReadTyped ==
  ASSUME FetchInv, ReadPage, NEW page, GetPage(want, page),
         stage' \in Running \cup {"done", "limit", "failed"},
         want' \in 0..MaxRows + 1, waiting' \subseteq 2..MaxPages
  PROVE  TypeOK'
<1>1. TypeOK
  BY DEF FetchInv, ReaderInv
<1>2. /\ DOMAIN apiCache' \subseteq Rows \cup {NoPageNumber, 1}
      /\ \A m \in DOMAIN apiCache' : apiCache'[m] \subseteq Rows
      /\ PagesRead' = PagesRead \cup {want}
      /\ hits' = hits \cup {want} \/ hits' = hits
  BY <1>1, ReadLeaves, PageIs
<1>3. /\ PagesRead' \subseteq Rows \cup {NoPageNumber, 1}
      /\ hits' \subseteq PagesRead'
  BY <1>1, <1>2, ReadLeaves DEF TypeOK
<1>4. /\ live' \subseteq Rows /\ kind' \in {"page", "iter", "all"} /\ fresh' \in BOOLEAN
      /\ inFlight' \subseteq 2..MaxPages /\ Cardinality(inFlight') <= Concurrency
      /\ calls' \in 0..MaxCalls /\ changes' \in 0..MaxChanges
  BY <1>1, ReadLeaves DEF TypeOK
<1>5. QED  BY <1>2, <1>3, <1>4 DEF TypeOK

\* A call for one page has it, and ends.
LEMMA OnePageKeeps ==
  ASSUME FetchInv, ReadPage, NEW page, GetPage(want, page),
         kind = "page", stage' = "done", want' = 0, waiting' = waiting
  PROVE  FetchInv'
<1>1. TypeOK'
  <2>1. waiting' \subseteq 2..MaxPages /\ want' \in 0..MaxRows + 1
    BY PagedFetchAssumption DEF FetchInv, ReaderInv, TypeOK
  <2>2. QED  BY <2>1, ReadTyped DEF Running
<1>2. PagesRead' = PagesRead \cup {want}
  BY ReadLeaves, PageIs DEF FetchInv, ReaderInv
<1>3. PagesRead' \subseteq {NoPageNumber}
  BY <1>2, ReadLeaves DEF FetchInv, ReaderInv, ProgressOK
<1>4. TasksOK' /\ ProgressOK' /\ SteadyOK'
  BY <1>3, ReadLeaves DEF TasksOK, ProgressOK, SteadyOK
<1>5. QED  BY <1>1, <1>4 DEF FetchInv, ReaderInv

\* After a page: one from the cache is the last the call has read; GitLab's
\* answer has its rows and says whether there is a next one.
LEMMA NextPage ==
  ASSUME FetchInv, ReadPage, NEW page, GetPage(want, page), kind # "page"
  PROVE  /\ want \in 1..MaxPages /\ want \in Rows \cup {1}
         /\ PagesRead' = 1..want
         /\ \A m \in 1..want - 1 : got'[m] = got[m]
         /\ \/ page.next = 0 /\ page.total = 1 /\ hits' = {want}
            \/ /\ page.next = (IF want < PageCount THEN want + 1 ELSE 0)
               /\ page.total \in {0, PageCount}
               /\ hits' = {} /\ got'[want] = RowsOn(want)
<1>1. /\ want \in 1..MaxPages /\ want \in Rows \cup {1}
      /\ PagesRead = 1..want - 1 /\ hits = {}
  BY ReadLeaves DEF FetchInv, ReaderInv, ProgressOK
<1>2. want # NoPageNumber /\ 1..want = (1..want - 1) \cup {want}
      /\ \A m \in 1..want - 1 : m # want
  BY <1>1, PagedFetchAssumption DEF NoPageNumber
<1>3. /\ PagesRead' = PagesRead \cup {want}
      /\ \A m \in PagesRead \ {want} : got'[m] = got[m]
      /\ \/ page.next = 0 /\ page.total = 1 /\ hits' = hits \cup {want}
         \/ /\ \E counted \in BOOLEAN : page = Answer(want, counted)
            /\ hits' = hits /\ got'[want] = page.rows
  BY ReadLeaves, PageIs DEF FetchInv, ReaderInv
<1>4. CASE page.next = 0 /\ page.total = 1 /\ hits' = hits \cup {want}
  BY <1>1, <1>2, <1>3, <1>4
<1>5. CASE /\ \E counted \in BOOLEAN : page = Answer(want, counted)
           /\ hits' = hits /\ got'[want] = page.rows
  <2>1. /\ page.rows = RowsOn(want) /\ page.total \in {0, PageCount}
        /\ page.next = IF want < PageCount THEN want + 1 ELSE 0
    BY <1>2, <1>5, AnswerIs
  <2>2. QED  BY <1>1, <1>2, <1>3, <1>5, <2>1
<1>6. QED  BY <1>3, <1>4, <1>5

\* A reader that goes from page to page: to the next one, to its end, or to
\* the limit.
LEMMA ReadOnKeeps ==
  ASSUME FetchInv, ReadPage, NEW page, GetPage(want, page), kind # "page", ReadOn(page)
  PROVE  FetchInv'
<1>1. /\ want \in 1..MaxPages /\ want \in Rows \cup {1}
      /\ PagesRead' = 1..want
      /\ \A m \in 1..want - 1 : got'[m] = got[m]
      /\ \/ page.next = 0 /\ page.total = 1 /\ hits' = {want}
         \/ /\ page.next = (IF want < PageCount THEN want + 1 ELSE 0)
            /\ page.total \in {0, PageCount}
            /\ hits' = {} /\ got'[want] = RowsOn(want)
  BY NextPage
<1>2. /\ PageCount \in Nat \ {0} /\ (PageCount = 1 \/ PageCount <= MaxRows)
      /\ PageCount' = PageCount /\ \A n : RowsOn(n)' = RowsOn(n)
  BY ReadLeaves, PageCountFits, SameListing DEF FetchInv, ReaderInv, TypeOK
<1>3. /\ want' = page.next /\ waiting' = {} /\ inFlight' = {} /\ kind' = kind
      /\ changes' = changes
      /\ stage' = IF page.next = 0 THEN "done"
                  ELSE IF want >= MaxPages THEN "limit" ELSE "reading"
  <2>1. PagesRead \cup {want} = 1..want
    BY <1>1, ReadLeaves, PageIs DEF FetchInv, ReaderInv
  <2>2. Cardinality(PagesRead \cup {want}) = want
    <3>1. want \in Nat
      BY <1>1, PagedFetchAssumption
    <3>2. Cardinality(1..want) = want
      BY <3>1, CountTo
    <3>3. QED  BY <2>1, <3>2
  <2>3. QED  BY <2>2, ReadLeaves DEF ReadOn, PastLimit
<1>4. /\ want' # 0 => /\ want < PageCount /\ want' = want + 1 /\ hits' = {}
                      /\ got'[want] = RowsOn(want)
      /\ want' = 0 /\ hits' = {} => want >= PageCount /\ got'[want] = RowsOn(want)
  BY <1>1, <1>2, <1>3
<1>5. TypeOK'
  <2>1. want' \in 0..MaxRows + 1
    BY <1>2, <1>3, <1>4, <1>1, PagedFetchAssumption
  <2>2. stage' \in Running \cup {"done", "limit", "failed"} /\ waiting' \subseteq 2..MaxPages
    BY <1>3 DEF Running
  <2>3. QED  BY <2>1, <2>2, ReadTyped
<1>6. TasksOK'
  BY <1>3 DEF TasksOK
<1>7. ProgressOK'
  <2>1. stage' = "reading" =>
           /\ want' \in 1..MaxPages /\ want' \in Rows \cup {1}
           /\ PagesRead' = 1..want' - 1 /\ hits' = {}
    <3> SUFFICES ASSUME stage' = "reading"
                 PROVE  /\ want' \in 1..MaxPages /\ want' \in Rows \cup {1}
                        /\ PagesRead' = 1..want' - 1 /\ hits' = {}
      OBVIOUS
    <3>1. want' # 0 /\ want < MaxPages
      BY <1>1, <1>3, PagedFetchAssumption
    <3>2. want' = want + 1 /\ want < PageCount /\ hits' = {}
      BY <1>4, <3>1
    <3>3. want' \in 1..MaxPages /\ want' - 1 = want
      BY <1>1, <3>1, <3>2, PagedFetchAssumption
    <3>4. want' \in Rows
      BY <1>1, <1>2, <3>2, PagedFetchAssumption DEF Rows
    <3>5. QED  BY <1>1, <3>2, <3>3, <3>4
  <2>2. stage' \in {"reading", "done", "limit"}
    BY <1>3
  <2>3. QED  BY <1>1, <1>3, <2>1, <2>2 DEF ProgressOK
<1>8. SteadyOK'
  <2> SUFFICES ASSUME changes' = 0 PROVE SteadyOK'
    BY DEF SteadyOK
  <2>1. want <= PageCount /\ \A n \in 1..want - 1 : got[n] = RowsOn(n)
    <3>1. PagesRead = 1..want - 1 /\ hits = {}
      BY ReadLeaves DEF FetchInv, ReaderInv, ProgressOK
    <3>2. QED  BY <1>3, <3>1, ReadLeaves DEF FetchInv, SteadyOK, Running
  <2>2. \A n \in PagesRead' \ hits' : got'[n] = RowsOn(n)
    <3> SUFFICES ASSUME NEW n \in PagesRead' \ hits' PROVE got'[n] = RowsOn(n)
      OBVIOUS
    <3>1. CASE n = want
      BY <1>1, <3>1
    <3>2. CASE n # want
      <4>1. n \in 1..want - 1
        BY <1>1, <3>2
      <4>2. QED  BY <1>1, <2>1, <4>1
    <3>3. QED  BY <3>1, <3>2
  <2>3. stage' = "reading" => want' <= PageCount
    BY <1>1, <1>2, <1>3, <1>4
  <2>4. stage' = "done" => PagesRead' = 1..PageCount \/ \E last \in hits' : PagesRead' = 1..last
    <3>1. CASE hits' = {want}
      BY <1>1, <3>1
    <3>2. CASE hits' = {} /\ stage' = "done"
      <4>1. want' = 0
        BY <1>3, <3>2
      <4>2. want = PageCount
        BY <1>1, <1>2, <1>4, <2>1, <3>2, <4>1
      <4>3. QED  BY <1>1, <4>2
    <3>3. QED  BY <1>1, <3>1, <3>2
  <2>5. stage' = "limit" => PageCount > MaxPages
    <3>1. stage' = "limit" => want' # 0 /\ want >= MaxPages
      BY <1>3
    <3>2. QED  BY <1>1, <1>2, <1>4, <3>1, PagedFetchAssumption
  <2>6. stage' # "gathering"
    BY <1>3
  <2>7. QED  BY <1>2, <2>2, <2>3, <2>4, <2>5, <2>6 DEF SteadyOK
<1>9. QED  BY <1>5, <1>6, <1>7, <1>8 DEF FetchInv, ReaderInv

\* The concurrent reader has page 1 and starts a task for each of the others,
\* or refuses them all.
LEMMA FanOutKeeps ==
  ASSUME FetchInv, ReadPage, NEW page, GetPage(want, page), kind = "all",
         want = 1, page.next # 0, page.total # 0, FanOut(page)
  PROVE  FetchInv'
<1>1. /\ PageCount \in Nat \ {0} /\ (PageCount = 1 \/ PageCount <= MaxRows)
      /\ PageCount' = PageCount /\ \A n : RowsOn(n)' = RowsOn(n)
  BY ReadLeaves, PageCountFits, SameListing DEF FetchInv, ReaderInv, TypeOK
<1>2. /\ PagesRead' = 1..want /\ hits' = {} /\ got'[want] = RowsOn(want)
      /\ page.next = (IF want < PageCount THEN want + 1 ELSE 0)
      /\ page.total = PageCount
  BY NextPage
<1>3. PageCount > 1 /\ PageCount <= MaxRows
  BY <1>1, <1>2
<1>4. /\ PagesRead' = {1} /\ got'[1] = RowsOn(1)
  BY <1>2
<1>5. /\ want' = 0 /\ inFlight' = {} /\ kind' = "all" /\ changes' = changes
      /\ PageCount > MaxPages => stage' = "limit" /\ waiting' = {}
      /\ ~(PageCount > MaxPages) => stage' = "gathering" /\ waiting' = 2..PageCount
  BY <1>2, ReadLeaves DEF FanOut, TooManyPages
<1>6. CASE PageCount > MaxPages
  <2>1. TypeOK'
    <3>1. want' \in 0..MaxRows + 1 /\ waiting' \subseteq 2..MaxPages
      BY <1>5, <1>6, PagedFetchAssumption
    <3>2. QED  BY <1>5, <1>6, <3>1, ReadTyped
  <2>2. TasksOK' /\ ProgressOK'
    BY <1>5, <1>6 DEF TasksOK, ProgressOK
  <2>3. SteadyOK'
    BY <1>1, <1>5, <1>6 DEF SteadyOK, Running
  <2>4. QED  BY <2>1, <2>2, <2>3 DEF FetchInv, ReaderInv
<1>7. CASE ~(PageCount > MaxPages)
  <2>1. /\ PageCount \in 1..MaxPages
        /\ waiting' \subseteq 2..MaxPages /\ waiting' \subseteq Rows
        /\ want' \in 0..MaxRows + 1
    BY <1>1, <1>3, <1>5, <1>7, PagedFetchAssumption DEF Rows
  <2>2. PagesRead' \cup waiting' \cup inFlight' = 1..PageCount
    <3>1. {1} \cup 2..PageCount = 1..PageCount
      BY <1>1
    <3>2. QED  BY <1>4, <1>5, <1>7, <3>1
  <2>3. TypeOK'
    BY <1>5, <1>7, <2>1, ReadTyped DEF Running
  <2>4. TasksOK'
    BY <1>5, <1>7, <2>1 DEF TasksOK, Rows
  <2>5. ProgressOK'
    BY <1>5, <1>7, <2>1, <2>2 DEF ProgressOK
  <2>6. SteadyOK'
    BY <1>1, <1>2, <1>4, <1>5, <1>7, <2>2 DEF SteadyOK
  <2>7. QED  BY <2>3, <2>4, <2>5, <2>6 DEF FetchInv, ReaderInv
<1>8. QED  BY <1>6, <1>7

LEMMA ReadPageKeeps ==
  ASSUME FetchInv, ReadPage
  PROVE  FetchInv'
<1>1. PICK page \in Pages :
         /\ GetPage(want, page)
         /\ \/ kind = "page" /\ stage' = "done" /\ want' = 0 /\ UNCHANGED waiting
            \/ kind = "all" /\ want = 1 /\ page.next # 0 /\ page.total # 0
               /\ FanOut(page)
            \/ kind = "all" /\ (want # 1 \/ page.next = 0 \/ page.total = 0)
               /\ ReadOn(page)
            \/ kind = "iter" /\ ReadOn(page)
  BY DEF ReadPage
<1>2. CASE kind = "page" /\ stage' = "done" /\ want' = 0 /\ UNCHANGED waiting
  BY <1>1, <1>2, OnePageKeeps
<1>3. CASE kind = "all" /\ want = 1 /\ page.next # 0 /\ page.total # 0 /\ FanOut(page)
  BY <1>1, <1>3, FanOutKeeps
<1>4. CASE kind \in {"all", "iter"} /\ ReadOn(page)
  BY <1>1, <1>4, ReadOnKeeps
<1>5. QED  BY <1>1, <1>2, <1>3, <1>4

\* What a task has to do with its page: it is taken from the tasks and read.
LEMMA TaskIs ==
  ASSUME FetchInv, NEW n \in waiting \cup inFlight
  PROVE  /\ stage = "gathering" /\ kind = "all" /\ n \in Rows
         /\ n \in 2..MaxPages
  BY DEF FetchInv, ReaderInv, TypeOK, TasksOK, ProgressOK

\* A step of a task: the pages that are read and those that are not stay the
\* same together, and what a task reads is in the cache or is GitLab's.
LEMMA TaskKeeps ==
  ASSUME FetchInv, NEW n \in waiting \cup inFlight,
         /\ live' = live /\ kind' = kind /\ fresh' = fresh /\ stage' = stage
         /\ want' = want /\ calls' = calls /\ changes' = changes,
         waiting' \subseteq waiting, inFlight' \subseteq inFlight \cup {n},
         Cardinality(inFlight') <= Concurrency,
         /\ DOMAIN apiCache' \subseteq Rows \cup {NoPageNumber, 1}
         /\ \A m \in DOMAIN apiCache' : apiCache'[m] \subseteq Rows,
         PagesRead' \subseteq PagesRead \cup {n},
         PagesRead' \cup waiting' \cup inFlight' = PagesRead \cup waiting \cup inFlight,
         hits \subseteq hits' /\ hits' \subseteq PagesRead',
         \A m \in PagesRead' \ hits' : \/ m = n /\ got'[m] = RowsOn(n)
                                       \/ m \in PagesRead /\ got'[m] = got[m]
  PROVE  FetchInv'
<1>1. /\ stage = "gathering" /\ kind = "all" /\ n \in Rows /\ n \in 2..MaxPages
  BY TaskIs
<1>2. PageCount' = PageCount /\ \A m : RowsOn(m)' = RowsOn(m)
  BY SameListing
<1>3. TypeOK'
  <2>1. /\ waiting' \subseteq 2..MaxPages /\ inFlight' \subseteq 2..MaxPages
        /\ PagesRead' \subseteq Rows \cup {NoPageNumber, 1}
    BY <1>1 DEF FetchInv, ReaderInv, TypeOK
  <2>2. /\ live' \subseteq Rows
        /\ kind' \in {"page", "iter", "all"} /\ fresh' \in BOOLEAN
        /\ stage' \in Running \cup {"done", "limit", "failed"}
        /\ want' \in 0..MaxRows + 1
        /\ calls' \in 0..MaxCalls /\ changes' \in 0..MaxChanges
    BY DEF FetchInv, ReaderInv, TypeOK
  <2>3. QED  BY <2>1, <2>2 DEF TypeOK
<1>4. TasksOK'
  BY <1>1 DEF FetchInv, ReaderInv, TasksOK, Rows
<1>5. ProgressOK'
  BY <1>1 DEF FetchInv, ReaderInv, ProgressOK
<1>6. SteadyOK'
  <2> SUFFICES ASSUME changes' = 0 PROVE SteadyOK'
    BY DEF SteadyOK
  <2>1. /\ PagesRead \cup waiting \cup inFlight = 1..PageCount
        /\ \A m \in PagesRead \ hits : got[m] = RowsOn(m)
    BY <1>1 DEF FetchInv, SteadyOK, Running
  <2>2. \A m \in PagesRead' \ hits' : got'[m] = RowsOn(m)
    BY <2>1
  <2>3. QED  BY <1>1, <1>2, <2>1, <2>2 DEF SteadyOK
<1>7. QED  BY <1>3, <1>4, <1>5, <1>6 DEF FetchInv, ReaderInv

\* Finitely many tasks are on their way.
LEMMA FewInFlight ==
  ASSUME TypeOK
  PROVE  IsFiniteSet(inFlight) /\ Cardinality(inFlight) \in Nat
<1>1. IsFiniteSet(2..MaxPages) /\ inFlight \in SUBSET (2..MaxPages)
  BY FS_Interval, PagedFetchAssumption DEF TypeOK
<1>2. IsFiniteSet(inFlight)
  BY <1>1, FS_Subset
<1>3. QED  BY <1>2, FS_CardinalityType

LEMMA AcquireKeeps ==
  ASSUME FetchInv, NEW n \in waiting, Acquire(n)
  PROVE  FetchInv'
<1>1. /\ live' = live /\ kind' = kind /\ fresh' = fresh /\ stage' = stage
      /\ want' = want /\ calls' = calls /\ changes' = changes
      /\ waiting' = waiting \ {n} /\ SlotFree
      /\ \/ IsHit(n) /\ GetPage(n, CachedPage(n)) /\ UNCHANGED inFlight
         \/ ~IsHit(n) /\ inFlight' = inFlight \cup {n} /\ UNCHANGED <<apiCache, got, hits>>
  BY DEF Acquire
<1>2. TypeOK /\ n \in Rows
  BY TaskIs DEF FetchInv, ReaderInv
<1>3. CASE IsHit(n) /\ GetPage(n, CachedPage(n)) /\ UNCHANGED inFlight
  <2>1. /\ DOMAIN apiCache' \subseteq Rows \cup {NoPageNumber, 1}
        /\ \A m \in DOMAIN apiCache' : apiCache'[m] \subseteq Rows
        /\ PagesRead' = PagesRead \cup {n}
        /\ \A m \in PagesRead \ {n} : got'[m] = got[m]
    BY <1>2, <1>3, PageIs
  <2>2. hits' = hits \cup {n} /\ hits \subseteq PagesRead
    BY <1>2, <1>3 DEF GetPage, TypeOK
  <2>3. Cardinality(inFlight') <= Concurrency
    BY <1>2, <1>3 DEF TypeOK
  <2>4. PagesRead' \cup waiting' \cup inFlight' = PagesRead \cup waiting \cup inFlight
    BY <1>1, <1>3, <2>1
  <2>5. \A m \in PagesRead' \ hits' : m \in PagesRead /\ got'[m] = got[m]
    BY <2>1, <2>2
  <2>6. QED  BY <1>1, <1>3, <2>1, <2>2, <2>3, <2>4, <2>5, TaskKeeps
<1>4. CASE /\ ~IsHit(n) /\ inFlight' = inFlight \cup {n}
           /\ UNCHANGED <<apiCache, got, hits>>
  <2>1. Cardinality(inFlight') <= Concurrency
    <3>1. Cardinality(inFlight) \in Nat /\ Cardinality(inFlight) < Concurrency
      BY <1>1, <1>2, FewInFlight DEF SlotFree
    <3>2. Cardinality(inFlight') \in {Cardinality(inFlight), Cardinality(inFlight) + 1}
      BY <1>2, <1>4, FewInFlight, FS_AddElement
    <3>3. QED  BY <3>1, <3>2, PagedFetchAssumption
  <2>2. PagesRead' = PagesRead /\ hits \subseteq PagesRead
    BY <1>2, <1>4 DEF PagesRead, TypeOK
  <2>3. PagesRead' \cup waiting' \cup inFlight' = PagesRead \cup waiting \cup inFlight
    BY <1>1, <1>4, <2>2
  <2>4. /\ DOMAIN apiCache' \subseteq Rows \cup {NoPageNumber, 1}
        /\ \A m \in DOMAIN apiCache' : apiCache'[m] \subseteq Rows
    BY <1>2, <1>4 DEF TypeOK
  <2>5. QED  BY <1>1, <1>4, <2>1, <2>2, <2>3, <2>4, TaskKeeps
<1>5. QED  BY <1>1, <1>3, <1>4

LEMMA FetchedKeeps ==
  ASSUME FetchInv, NEW n \in inFlight, Fetched(n)
  PROVE  FetchInv'
<1>1. /\ live' = live /\ kind' = kind /\ fresh' = fresh /\ stage' = stage
      /\ want' = want /\ calls' = calls /\ changes' = changes
      /\ waiting' = waiting /\ hits' = hits /\ inFlight' = inFlight \ {n}
      /\ PagesRead' = PagesRead \cup {n} /\ got'[n] = RowsOn(n)
      /\ apiCache' = apiCache \/ apiCache' = Stored(n, RowsOn(n))
  BY DEF Fetched, PagesRead
<1>2. \A m \in PagesRead \ {n} : got'[m] = got[m]
  BY DEF Fetched, PagesRead
<1>3. TypeOK /\ n \in Rows /\ hits \subseteq PagesRead
  BY TaskIs DEF FetchInv, ReaderInv, TypeOK
<1>4. /\ DOMAIN apiCache' \subseteq Rows \cup {NoPageNumber, 1}
      /\ \A m \in DOMAIN apiCache' : apiCache'[m] \subseteq Rows
  <2>1. RowsOn(n) \in SUBSET Rows
    BY <1>3 DEF RowsOn, TypeOK
  <2>2. QED  BY <1>1, <1>3, <2>1, StoredTyped
<1>5. Cardinality(inFlight') <= Concurrency
  <2>1. Cardinality(inFlight) \in Nat /\ Cardinality(inFlight) <= Concurrency
    BY <1>3, FewInFlight DEF TypeOK
  <2>2. Cardinality(inFlight') = Cardinality(inFlight) - 1
    BY <1>1, <1>3, FewInFlight, FS_RemoveElement
  <2>3. QED  BY <2>1, <2>2, PagedFetchAssumption
<1>6. PagesRead' \cup waiting' \cup inFlight' = PagesRead \cup waiting \cup inFlight
  BY <1>1
<1>7. \A m \in PagesRead' : \/ m = n /\ got'[m] = RowsOn(n)
                            \/ m \in PagesRead /\ got'[m] = got[m]
  BY <1>1, <1>2
<1>8. QED  BY <1>1, <1>3, <1>4, <1>5, <1>6, <1>7, TaskKeeps

LEMMA GatheredKeeps ==
  ASSUME FetchInv, Gathered
  PROVE  FetchInv'
<1>1. /\ live' = live /\ apiCache' = apiCache /\ kind' = kind /\ fresh' = fresh
      /\ want' = want /\ waiting' = waiting /\ inFlight' = inFlight /\ got' = got
      /\ hits' = hits /\ calls' = calls /\ changes' = changes
      /\ stage = "gathering" /\ stage' = "done" /\ waiting = {} /\ inFlight = {}
  BY DEF Gathered, cacheVars
<1>2. PageCount' = PageCount /\ \A m : RowsOn(m)' = RowsOn(m) /\ PagesRead' = PagesRead
  BY <1>1, SameListing DEF PagesRead
<1>3. TypeOK'
  BY <1>1, <1>2 DEF FetchInv, ReaderInv, TypeOK, Running
<1>4. TasksOK'
  BY <1>1 DEF TasksOK
<1>5. ProgressOK'
  <2>1. kind = "all" /\ \E total \in 1..MaxPages : PagesRead \cup {} \cup {} = 1..total
    BY <1>1 DEF FetchInv, ReaderInv, ProgressOK
  <2>2. QED  BY <1>1, <1>2, <2>1 DEF ProgressOK
<1>6. SteadyOK'
  <2>1. kind = "all"
    BY <1>1 DEF FetchInv, ReaderInv, ProgressOK
  <2>2. changes = 0 => /\ PagesRead = 1..PageCount
                       /\ \A n \in PagesRead \ hits : got[n] = RowsOn(n)
    BY <1>1, <2>1 DEF FetchInv, SteadyOK, Running
  <2>3. QED  BY <1>1, <1>2, <2>1, <2>2 DEF SteadyOK
<1>7. QED  BY <1>3, <1>4, <1>5, <1>6 DEF FetchInv, ReaderInv

LEMMA ReadFailsKeeps ==
  ASSUME FetchInv, ReadFails
  PROVE  FetchInv'
<1>1. /\ live' = live /\ apiCache' = apiCache /\ kind' = kind /\ fresh' = fresh
      /\ want' = 0 /\ waiting' = {} /\ inFlight' = {} /\ PagesRead' = PagesRead
      /\ hits' = hits /\ calls' = calls /\ changes' = changes /\ stage' = "failed"
  BY DEF ReadFails, cacheVars, PagesRead
<1>2. TypeOK'
  <2>1. Cardinality(inFlight') <= Concurrency /\ want' \in 0..MaxRows + 1
    BY <1>1, FS_EmptySet, PagedFetchAssumption
  <2>2. QED  BY <1>1, <2>1 DEF FetchInv, ReaderInv, TypeOK
<1>3. TasksOK' /\ ProgressOK' /\ SteadyOK'
  BY <1>1 DEF TasksOK, ProgressOK, SteadyOK, Running
<1>4. QED  BY <1>2, <1>3 DEF FetchInv, ReaderInv

\* A listing that changes is no longer steady; what has been read stays read.
LEMMA ListingChangesKeeps ==
  ASSUME FetchInv, ListingChanges
  PROVE  FetchInv'
<1>1. /\ apiCache' = apiCache /\ kind' = kind /\ fresh' = fresh /\ stage' = stage
      /\ want' = want /\ waiting' = waiting /\ inFlight' = inFlight
      /\ PagesRead' = PagesRead /\ hits' = hits /\ calls' = calls
  BY DEF ListingChanges, callVars, PagesRead
<1>2. changes' \in 0..MaxChanges /\ changes' # 0
  BY PagedFetchAssumption DEF ListingChanges, FetchInv, ReaderInv, TypeOK
<1>3. live' \subseteq Rows
  BY DEF ListingChanges, FetchInv, ReaderInv, TypeOK
<1>4. TypeOK'
  BY <1>1, <1>2, <1>3 DEF FetchInv, ReaderInv, TypeOK, Rows
<1>5. TasksOK' /\ ProgressOK' /\ SteadyOK'
  BY <1>1, <1>2 DEF FetchInv, ReaderInv, TasksOK, ProgressOK, SteadyOK, Rows
<1>6. QED  BY <1>4, <1>5 DEF FetchInv, ReaderInv

\* A step that changes no more than the cache.
LEMMA CacheShrinks ==
  ASSUME FetchInv,
         /\ live' = live /\ kind' = kind /\ fresh' = fresh /\ stage' = stage
         /\ want' = want /\ waiting' = waiting /\ inFlight' = inFlight
         /\ got' = got /\ hits' = hits /\ calls' = calls /\ changes' = changes,
         /\ DOMAIN apiCache' \subseteq DOMAIN apiCache
         /\ \A m \in DOMAIN apiCache' : apiCache'[m] = apiCache[m]
  PROVE  FetchInv'
<1>1. PageCount' = PageCount /\ \A m : RowsOn(m)' = RowsOn(m) /\ PagesRead' = PagesRead
  BY SameListing DEF PagesRead
<1>2. TypeOK'
  BY <1>1 DEF FetchInv, ReaderInv, TypeOK, Rows
<1>3. TasksOK' /\ ProgressOK' /\ SteadyOK'
  BY <1>1 DEF FetchInv, ReaderInv, TasksOK, ProgressOK, SteadyOK, Rows
<1>4. QED  BY <1>2, <1>3 DEF FetchInv, ReaderInv

LEMMA ExpireKeeps ==
  ASSUME FetchInv, NEW n \in DOMAIN apiCache, Expire(n)
  PROVE  FetchInv'
<1>1. /\ live' = live /\ kind' = kind /\ fresh' = fresh /\ stage' = stage
      /\ want' = want /\ waiting' = waiting /\ inFlight' = inFlight
      /\ got' = got /\ hits' = hits /\ calls' = calls /\ changes' = changes
  BY DEF Expire, callVars
<1>2. /\ DOMAIN apiCache' \subseteq DOMAIN apiCache
      /\ \A m \in DOMAIN apiCache' : apiCache'[m] = apiCache[m]
  BY DEF Expire
<1>3. QED  BY <1>1, <1>2, CacheShrinks

\* One case for each of the calls, of the steps of a call, and of GitLab.
LEMMA FetchStep ==
  ASSUME FetchInv, [Next]_vars
  PROVE  FetchInv'
<1>1. CASE \/ fetch_jobs \/ fetch_pipelines \/ iter_jobs \/ iter_pipelines
           \/ get_all_jobs \/ get_all_pipelines \/ get_job_attempts
  <2>1. \E how \in {"page", "iter", "all"}, isFresh \in BOOLEAN : Begin(how, isFresh)
    BY <1>1 DEF fetch_jobs, fetch_pipelines, iter_jobs, iter_pipelines,
                get_all_jobs, get_all_pipelines, get_job_attempts
  <2>2. QED  BY <2>1, BeginKeeps
<1>2. CASE ReadPage
  BY <1>2, ReadPageKeeps
<1>3. CASE \E n \in waiting : Acquire(n)
  BY <1>3, AcquireKeeps
<1>4. CASE \E n \in inFlight : Fetched(n)
  BY <1>4, FetchedKeeps
<1>5. CASE Gathered
  BY <1>5, GatheredKeeps
<1>6. CASE ReadFails
  BY <1>6, ReadFailsKeeps
<1>7. CASE ListingChanges
  BY <1>7, ListingChangesKeeps
<1>8. CASE \E n \in DOMAIN apiCache : Expire(n)
  BY <1>8, ExpireKeeps
<1>9. CASE UNCHANGED vars
  BY <1>9, CacheShrinks DEF vars, cacheVars, callVars
<1>10. QED
  BY <1>1, <1>2, <1>3, <1>4, <1>5, <1>6, <1>7, <1>8, <1>9 DEF Next

-----------------------------------------------------------------------------
(* The theorems.                                                           *)

\* The invariant holds of every state of every behaviour.
THEOREM FetchInvariant == Spec => []FetchInv
<1>1. Init => FetchInv
  BY InitFetchInv
<1>2. FetchInv /\ [Next]_vars => FetchInv'
  BY FetchStep
<1>3. QED  BY <1>1, <1>2, PTL DEF Spec

\* The variables keep their types: no more than MAX_CONCURRENT_PAGE_FETCHES
\* pages are on their way, and the cache has no page that was not asked for.
THEOREM FetchTypeCorrect == Spec => []TypeOK
<1>1. FetchInv => TypeOK
  BY DEF FetchInv, ReaderInv
<1>2. QED  BY <1>1, FetchInvariant, PTL

\* A listing of several pages that did not change while it was read, and of
\* which no page came from the cache, has every row once; one that ends early
\* ends at a page from the cache.
THEOREM ListingWhole == Spec => []ListingIsWhole
<1>1. FetchInv => ListingIsWhole
  <2> SUFFICES ASSUME FetchInv, Steady PROVE
        /\ hits = {} => Whole
        /\ PagesRead # 1..PageCount => \E last \in hits : \A n \in PagesRead : n <= last
    BY DEF ListingIsWhole
  <2>1. /\ stage = "done" /\ kind # "page"
        /\ \A n \in PagesRead \ hits : got[n] = RowsOn(n)
        /\ PagesRead = 1..PageCount \/ \E last \in hits : PagesRead = 1..last
    BY DEF Steady, FetchInv, SteadyOK
  <2>2. hits = {} => Whole
    BY <2>1 DEF Whole
  <2>3. ASSUME NEW last \in hits, PagesRead = 1..last
        PROVE  \A n \in PagesRead : n <= last
    BY <2>3
  <2>4. QED  BY <2>1, <2>2, <2>3
<1>2. QED  BY <1>1, FetchInvariant, PTL

\* A listing that is read has MAX_PAGES pages at most, and one that is refused
\* without having changed has more.
THEOREM LimitsHold == Spec => []LimitHolds
<1>1. FetchInv => LimitHolds
  <2> SUFFICES ASSUME FetchInv PROVE LimitHolds
    OBVIOUS
  <2>1. stage = "done" => Cardinality(PagesRead) <= MaxPages
    <3>1. CASE stage = "done" /\ kind # "page"
      <4>1. PICK total \in 1..MaxPages : PagesRead = 1..total
        BY <3>1 DEF FetchInv, ReaderInv, ProgressOK
      <4>2. Cardinality(1..total) = total
        BY <4>1, PagedFetchAssumption, CountTo
      <4>3. QED  BY <4>1, <4>2, PagedFetchAssumption
    <3>2. CASE stage = "done" /\ kind = "page"
      <4>1. PagesRead \in SUBSET {NoPageNumber}
        BY <3>2 DEF FetchInv, ReaderInv, ProgressOK
      <4>2. Cardinality(PagesRead) <= Cardinality({NoPageNumber})
        BY <4>1, FS_Singleton, FS_Subset
      <4>3. /\ Cardinality({NoPageNumber}) = 1 /\ Cardinality(PagesRead) \in Nat
        BY <4>1, FS_Singleton, FS_Subset, FS_CardinalityType
      <4>4. QED  BY <4>2, <4>3, PagedFetchAssumption
    <3>3. QED  BY <3>1, <3>2
  <2>2. stage = "limit" /\ changes = 0 => PageCount > MaxPages
    BY DEF FetchInv, SteadyOK
  <2>3. QED  BY <2>1, <2>2 DEF LimitHolds
<1>2. QED  BY <1>1, FetchInvariant, PTL
=============================================================================
