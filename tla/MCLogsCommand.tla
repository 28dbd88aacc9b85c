---------------------------- MODULE MCLogsCommand ----------------------------
(* What ddgl logs is asked for, and where it is run, as TLC checks it.     *)
EXTENDS LogsCommand

TwoJobs == <<"build", "test">>
OneJob == <<"build">>

Ready == [env |-> FALSE, file |-> "empty", command |-> "token", projectId |-> FALSE,
          remotes |-> <<"other", "nameless", "gitlab">>, fallback |-> FALSE]
Environments == {
    Ready, [Ready EXCEPT !.env = TRUE, !.projectId = TRUE],
    [Ready EXCEPT !.file = "unreadable", !.remotes = <<"github">>, !.fallback = TRUE],
    [Ready EXCEPT !.remotes = <<"github">>]}

Plain == [ref |-> NoRef, pipeline |-> 0, job |-> 0, depth |-> 2,
          failedOnly |-> FALSE, withAllowed |-> FALSE]
OnBranch == [branch |-> "branch", topic |-> 2, head |-> 1]
Failed == [Plain EXCEPT !.depth = 1, !.failedOnly = TRUE]
On(ref) == [Plain EXCEPT !.ref = ref]

Questions == {
    [ask |-> Plain, clone |-> OnBranch],
    [ask |-> Failed, clone |-> OnBranch],
    [ask |-> Plain, clone |-> [OnBranch EXCEPT !.topic = 0]],
    [ask |-> Plain, clone |-> [OnBranch EXCEPT !.branch = "HEAD"]],
    [ask |-> Plain, clone |-> [OnBranch EXCEPT !.branch = "none"]],
    [ask |-> On([kind |-> "remote", commit |-> 0]), clone |-> OnBranch],
    [ask |-> On(Sha(2)), clone |-> OnBranch],
    [ask |-> [Plain EXCEPT !.pipeline = 1], clone |-> OnBranch],
    [ask |-> [Plain EXCEPT !.job = 1], clone |-> OnBranch]}
=============================================================================
