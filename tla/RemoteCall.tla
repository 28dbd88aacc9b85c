----------------------------- MODULE RemoteCall -----------------------------
(***************************************************************************)
(* What a caller may believe of a request that changes something on the    *)
(* server: it is served at most once, "done" and "refused" are the truth,  *)
(* and after "unknown" it may still be served.  It is what RetryBatch.tla  *)
(* takes for granted of one POST; HttpRequest.tla implements it.           *)
(***************************************************************************)

VARIABLES
    served,  \* GitLab has acted on the request
    outcome  \* none, done, refused or unknown: what the caller was told

callVars == <<served, outcome>>

CallInit == served = FALSE /\ outcome = "none"

Serve ==
    /\ ~served
    /\ outcome \in {"none", "unknown"}
    /\ served' = TRUE
    /\ UNCHANGED outcome

Tell ==
    /\ outcome = "none"
    /\ \/ outcome' = "done" /\ served
       \/ outcome' = "refused" /\ ~served
       \/ outcome' = "unknown"
    /\ UNCHANGED served

CallSpec == CallInit /\ [][Serve \/ Tell]_callVars
=============================================================================
