---------------------------- MODULE MCHttpRequest ----------------------------
(* The instance of HttpRequest that TLC checks.                            *)
EXTENDS HttpRequest

\* A success, a redirect, a refusal, a missing resource, a rate limit and two
\* server errors, of which the first is retryable and the second is not.
MCCodes == {200, 302, 403, 404, 429, 502, 501}
=============================================================================
