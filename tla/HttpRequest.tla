----------------------------- MODULE HttpRequest -----------------------------
(***************************************************************************)
(* One call of client.py _request: a loop of at most MaxAttempts HTTP      *)
(* requests, with what the network and GitLab may do to each of them.      *)
(*                                                                         *)
(* A GET goes through _get_response and a POST through _post_response,     *)
(* which differ in what they let the loop retry; _raise_for_status turns   *)
(* the last answer into the caller's outcome.  The length of a delay is    *)
(* left out, that other things happen meanwhile is not.                    *)
(***************************************************************************)
EXTENDS Integers, FiniteSets

CONSTANTS
    Methods,     \* a subset of GET, POST
    MaxAttempts, \* HTTP_RETRY_ATTEMPTS
    Codes        \* the HTTP status codes GitLab may answer with

ASSUME HttpAssumption ==
    /\ Methods \subseteq {"GET", "POST"}
    /\ MaxAttempts \in Nat \ {0}
    /\ Codes \subseteq 200 .. 599

VARIABLES
    method,  \* one of Methods
    attempt, \* the loop variable, from 1 here
    cpc,     \* where the caller is suspended
    wire,    \* what became of each attempt's request
    answer,  \* the status code on its way back from each attempt, 0 if none
    outcome  \* what the caller got: the kind of value or exception, the code

requestVars == <<method, attempt, cpc, wire, answer, outcome>>

Attempt == 1 .. MaxAttempts
NoOutcome == [kind |-> "none", code |-> 0]

RETRYABLE_STATUS_CODES == {408, 429, 500, 502, 503, 504}
RATE_LIMITED_STATUS_CODES == {429}

\* Bugs: POST is retried as a GET is, on a status and on no answer at all.
RetryStatusesOfGet == RETRYABLE_STATUS_CODES
RetryTransportOfGet == TRUE

\* The fixed pair of knobs each of _request's two callers passes.
RetryStatuses ==
    IF method = "GET" THEN RETRYABLE_STATUS_CODES ELSE RATE_LIMITED_STATUS_CODES
RetryTransport == method = "GET"

\* Bugs: off by one, either way.
NextIsLastAttempt == attempt + 1 >= MaxAttempts
PastLastAttempt == attempt > MaxAttempts
IsLastAttempt == attempt = MaxAttempts

\* Codes that say GitLab has not done what was asked.
Refusals == (400 .. 499) \ {408}

-----------------------------------------------------------------------------
(* The network and GitLab, also after the caller has stopped listening.    *)

\* An answer that is already on its way back, or one of the given codes.
Answers(a, codes) ==
    \E c \in codes \cap Codes :
        answer' = IF answer[a] = 0 THEN [answer EXCEPT ![a] = c] ELSE answer

\* GitLab does what is asked; what it answers may still be turned into a 5xx.
Serve(a) ==
    /\ wire[a] = "travelling"
    /\ wire' = [wire EXCEPT ![a] = "served"]
    /\ Answers(a, (200 .. 299) \cup (500 .. 599) \cup {408})
    /\ UNCHANGED <<method, attempt, cpc, outcome>>

Reject(a) ==
    /\ wire[a] = "travelling"
    /\ wire' = [wire EXCEPT ![a] = "rejected"]
    /\ Answers(a, 300 .. 599)
    /\ UNCHANGED <<method, attempt, cpc, outcome>>

\* A proxy gives up waiting for GitLab, which may still get to the request.
GatewayAnswers(a) ==
    /\ wire[a] = "travelling" /\ answer[a] = 0
    /\ Answers(a, 500 .. 599)
    /\ UNCHANGED <<method, attempt, cpc, wire, outcome>>

Lose(a) ==
    /\ wire[a] = "travelling"
    /\ wire' = [wire EXCEPT ![a] = "lost"]
    /\ UNCHANGED <<method, attempt, cpc, answer, outcome>>

-----------------------------------------------------------------------------
(* The loop of _request.                                                   *)

SendAttempt(a) ==
    /\ attempt' = a
    /\ wire' = [wire EXCEPT ![a] = "travelling"]
    /\ cpc' = "await"
    /\ UNCHANGED <<method, answer, outcome>>

Start == cpc = "start" /\ SendAttempt(1)

Return(kind, code) ==
    /\ cpc' = "done"
    /\ outcome' = [kind |-> kind, code |-> code]

\* _raise_for_status: a 404 is about the project or about the resource.
RaiseForStatus(code) ==
    \/ code \in 200 .. 299 /\ Return("value", code)
    \/ code = 404 /\ (Return("ConfigError", code) \/ Return("NotFoundError", code))
    \/ code \notin (200 .. 299) \cup {404} /\ Return("GitLabAPIError", code)

Answered ==
    /\ cpc = "await"
    /\ answer[attempt] # 0
    /\ IF answer[attempt] \notin RetryStatuses \/ IsLastAttempt
       THEN RaiseForStatus(answer[attempt])
       ELSE cpc' = "backoff" /\ UNCHANGED outcome
    /\ UNCHANGED <<method, attempt, wire, answer>>

\* httpx.TransportError: a timeout, a reset, a name that does not resolve.  The
\* request may have reached GitLab or may still reach it.
TransportError ==
    /\ cpc = "await"
    /\ IF ~RetryTransport \/ IsLastAttempt
       THEN Return("TransportError", 0)
       ELSE cpc' = "backoff" /\ UNCHANGED outcome
    /\ UNCHANGED <<method, attempt, wire, answer>>

\* Bug: the attempt is not counted.
BackoffUncounted == cpc = "backoff" /\ SendAttempt(attempt)
BackoffOver == cpc = "backoff" /\ SendAttempt(attempt + 1)

\* The caller's deadline cancels the await.
Cancel ==
    /\ cpc \in {"await", "backoff"}
    /\ Return("CancelledError", 0)
    /\ UNCHANGED <<method, attempt, wire, answer>>

Finished == cpc = "done" /\ UNCHANGED requestVars

ClientStep == Start \/ Answered \/ TransportError \/ BackoffOver
ServerStep ==
    \E a \in Attempt : Serve(a) \/ Reject(a) \/ GatewayAnswers(a) \/ Lose(a)

RequestInit ==
    /\ method \in Methods
    /\ attempt = 1
    /\ cpc = "start"
    /\ wire = [a \in Attempt |-> "unsent"]
    /\ answer = [a \in Attempt |-> 0]
    /\ outcome = NoOutcome

RequestNext == ClientStep \/ ServerStep \/ Cancel \/ Finished

\* httpx bounds every await with its own timeout, so the loop goes on; nothing
\* is assumed of GitLab or of the network.
RequestSpec == RequestInit /\ [][RequestNext]_requestVars /\ WF_requestVars(ClientStep)

-----------------------------------------------------------------------------
(* What the loop promises.                                                 *)

\* The variables have their types, and only attempts up to the current one have
\* been sent or answered.
RequestTypeOK ==
    /\ method \in Methods
    /\ attempt \in Attempt
    /\ cpc \in {"start", "await", "backoff", "done"}
    /\ wire \in [Attempt -> {"unsent", "travelling", "served", "rejected", "lost"}]
    /\ answer \in [Attempt -> Codes \cup {0}]
    /\ outcome \in [kind : {"none", "value", "ConfigError", "NotFoundError",
                            "GitLabAPIError", "TransportError", "CancelledError"},
                    code : Codes \cup {0}]

Served == {a \in Attempt : wire[a] = "served"}

\* Whatever is lost, delayed or answered with an error, and however often the
\* loop goes round: GitLab acts on a POST at most once, so one _retry_one mints
\* at most one job (client.py _request, "could mint two jobs").
PostAtMostOnce == method = "POST" => \A a, b \in Served : a = b

\* A GET that ends with an error worth retrying has sent all of its attempts
\* (client.py _get_response, HTTP_RETRY_ATTEMPTS).
TransientOutcome ==
    outcome.kind = "TransportError" \/ outcome.code \in RETRYABLE_STATUS_CODES
GetUsesEveryAttempt ==
    method = "GET" /\ TransientOutcome => \A a \in Attempt : wire[a] # "unsent"

\* A caller of POST is told the truth: "done" only of a request GitLab has
\* served, "refused" only of one it never will.
Told ==
    IF outcome.kind = "none" THEN "none"
    ELSE IF outcome.kind = "value" THEN "done"
    ELSE IF outcome.code \in Refusals THEN "refused"
    ELSE "unknown"

Call == INSTANCE RemoteCall WITH
    served <- method = "POST" /\ Served # {},
    outcome <- IF method = "POST" THEN Told ELSE "none"

\* Every step of the loop, of the network and of GitLab is a step of RemoteCall
\* when the request is a POST (client.py _post_response).
ImplementsRemoteCall == Call!CallSpec

\* Every request ends, with a value or an exception (client.py HTTP_RETRY_*).
RequestEnds == <>(cpc = "done")
=============================================================================
