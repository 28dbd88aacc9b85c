------------------------------ MODULE MCAttach ------------------------------
(* The instances of the attach engine that TLC checks.                     *)
EXTENDS AttachProperties

Plain == [pipeline |-> 0, wait |-> TRUE, follow |-> FALSE, timeout |-> FALSE,
          heartbeat |-> FALSE, retry |-> FALSE, attempts |-> 0, total |-> 0,
          exclude |-> {}]
Retrying == [Plain EXCEPT !.retry = TRUE, !.attempts = 1, !.total = 1]

\* Two jobs, one of them excluded or allowed to fail at times.
TwoJobs == <<"build", "test">>
OneJob == <<"test">>

\* attach_retry: one pipeline, every retry policy that differs at this size.
RetryOptions == {
    [Retrying EXCEPT !.timeout = TRUE],
    [Retrying EXCEPT !.attempts = 2, !.total = 0],
    [Retrying EXCEPT !.total = 2, !.heartbeat = TRUE, !.exclude = {"test"}],
    [Plain EXCEPT !.pipeline = 1, !.wait = FALSE]}

\* attach_follow: newer pipelines and a second invocation.
FollowOptions == {
    [Retrying EXCEPT !.follow = TRUE],
    [Plain EXCEPT !.follow = TRUE, !.heartbeat = TRUE]}

\* attach_live: with and without a deadline.
LiveOptions == {
    [Retrying EXCEPT !.follow = TRUE],
    [Retrying EXCEPT !.attempts = 2, !.total = 0],
    [Retrying EXCEPT !.timeout = TRUE],
    [Plain EXCEPT !.pipeline = 1]}

\* attach_bad_job: no total, so that only the failure of a POST can spare a job.
UnlimitedRetry == {[Retrying EXCEPT !.total = 0]}
=============================================================================
