--------------------------- MODULE MCRetryCommand ---------------------------
(* The command lines of ddgl retry that TLC checks.                        *)
EXTENDS RetryCommand

TwoJobs == <<"build", "test">>

All == [mode |-> "bulk", ids |-> <<>>, failedOnly |-> FALSE, withAllowed |-> FALSE,
        names |-> Name, force |-> FALSE, yes |-> FALSE, tty |-> TRUE]
Failed == [All EXCEPT !.mode = "filter", !.failedOnly = TRUE]

CommandLines == {
    All, [All EXCEPT !.force = TRUE], [All EXCEPT !.yes = TRUE, !.tty = FALSE],
    Failed, [Failed EXCEPT !.withAllowed = TRUE, !.yes = TRUE, !.tty = FALSE],
    [Failed EXCEPT !.tty = FALSE],
    [All EXCEPT !.mode = "filter", !.yes = TRUE],
    [All EXCEPT !.mode = "ids", !.ids = <<1, 2>>],
    [All EXCEPT !.mode = "ids", !.ids = <<1, 1>>, !.force = TRUE, !.yes = TRUE]}
=============================================================================
