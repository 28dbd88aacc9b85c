----------------------------- MODULE LoadConfig -----------------------------
(***************************************************************************)
(* config/loader.py: where the token and the project of a command come     *)
(* from, with the token cache that outlives the command.                   *)
(*                                                                         *)
(* A token is named after its source.  All commands talk to one GitLab     *)
(* (the token cache has an entry per gitlab_url).                          *)
(***************************************************************************)
EXTENDS SequencesExt

CONSTANT Setups  \* the environments a command may be started in

VARIABLES
    tokenCache, \* the source of the cached token, "none" without
    token,      \* the source of the token load_config returned, "none" before
    envToken    \* observer: GITLAB_TOKEN was set for this command

configVars == <<tokenCache, token, envToken>>

Source == {"env", "file", "command", "none"}

\* env: GITLAB_TOKEN is set.  file: what token_file leads to.  command: how
\* token_command ends.  projectId: GITLAB_PROJECT_ID is set.  remotes: those of
\* the repository in git's order; the URL of a nameless one cannot be read.
\* fallback: github_fallback, wherever it is set.
IsSetup(s) ==
    /\ s.env \in BOOLEAN
    /\ s.file \in {"unset", "empty", "unreadable", "token"}
    /\ s.command \in {"unset", "fails", "token"}
    /\ s.projectId \in BOOLEAN /\ s.fallback \in BOOLEAN
    /\ s.remotes \in Seq({"gitlab", "github", "other", "nameless"})

ASSUME SetupsAssumption == \A s \in Setups : IsSetup(s)

\* _resolve_token.  A token_file that cannot be read is an error at once.
FromConfigFile(s) ==
    CASE s.file = "token" -> "file"
      [] s.file # "token" /\ s.file # "unreadable" /\ s.command = "token" -> "command"
      [] OTHER -> "none"

_resolve_token(s) ==
    IF s.env THEN "env"
    ELSE IF tokenCache # "none" THEN tokenCache
    ELSE FromConfigFile(s)

\* Bug: whatever token was found is cached.
EveryTokenCached(t) == IF t # "none" THEN t ELSE tokenCache
TokenCached(t) == IF t \in {"file", "command"} THEN t ELSE tokenCache

\* detect_project_path: the first remote on GitLab; failing that, and if the
\* user allows it, the first one on GitHub.
detect_project_path(s) ==
    LET has(host) == host \in ToSet(s.remotes) IN
    CASE has("gitlab") -> "gitlab"
      [] ~has("gitlab") /\ s.fallback /\ has("github") -> "github"
      [] OTHER -> "none"

ProjectOf(s) == IF s.projectId THEN "given" ELSE detect_project_path(s)

load_config(s) ==
    /\ token' = _resolve_token(s)
    /\ tokenCache' = TokenCached(token')
    /\ envToken' = s.env

\* Without a token load_config raises; without a project it does not, but the
\* client's first request does (_project_path).
IsUsable(s) == _resolve_token(s) # "none" /\ ProjectOf(s) # "none"

TokenExpires ==
    /\ tokenCache # "none"
    /\ tokenCache' = "none"
    /\ UNCHANGED <<token, envToken>>

ConfigInit == tokenCache = "none" /\ token = "none" /\ envToken = FALSE

ConfigTypeOK ==
    /\ tokenCache \in Source /\ token \in Source
    /\ envToken \in BOOLEAN
=============================================================================
