------------------------------- MODULE Cache -------------------------------
(***************************************************************************)
(* The front of the cache: cache/cache.py, cache/proxy.py and the table of *)
(* namespaces in cache/cache_config.py, over the four backends.            *)
(*                                                                         *)
(* A behaviour follows one key of one namespace.  An operation belongs to  *)
(* a process that runs, and the process does one after the other.          *)
(***************************************************************************)
EXTENDS JsonBackend, SqliteBackends, TextFileBackend

\* Where a process may be, between two steps of an operation included.
StepOf == [tokens |-> {"flush"},
           api_responses |-> {},
           objects |-> {"sweep", "select", "select typed",
                        "drop", "create", "register", "insert"},
           logs |-> {"collect", "unlink content", "unlink sidecar", "exists", "read",
                     "write", "truncate", "stamp"}]
Step == {"off", "opening", "ready"} \cup StepOf[ns]

TypeOK ==
    /\ ns \in CacheNS /\ clock \in 0..MaxTime
    /\ pc \in [Processes -> Step]
    /\ bypass \in [Processes -> BOOLEAN]
    /\ version \in [Processes -> Versions]
    /\ memory \in [Processes -> Entry \cup {Nothing}]
    /\ known \in [Processes -> Versions \cup {"nobody"}]
    /\ content \in Entry \cup {Nothing, Torn}
    /\ sidecar \in NoFile..MaxTime + Ttl
    /\ table \in Versions \cup {"nobody"} /\ registry \in Versions \cup {"nobody"}
    /\ broken \in BOOLEAN

\* Cache.open makes the process's one handle, and the first use of the
\* namespace opens its backend: open_backend.
Open(p) ==
    /\ pc[p] = "opening"
    /\ \/ UsesJson /\ JsonOpen(p)
       \/ UsesKv /\ KvOpen(p)
       \/ UsesStruct /\ StructOpen(p)
       \/ UsesText /\ TextOpen(p)

\* A process starts, with --no-cache or without; only objects have a layout
\* that a version of ddgl may change.
Start(p) ==
    /\ pc[p] = "off"
    /\ pc' = [pc EXCEPT ![p] = "opening"]
    /\ \E b \in BOOLEAN : bypass' = [bypass EXCEPT ![p] = b]
    /\ \E v \in (IF UsesStruct THEN Versions ELSE {"new"}) :
          /\ version' = [version EXCEPT ![p] = v]
          /\ mixed' = (mixed \/ \E q \in Processes : pc[q] # "off" /\ version[q] # v)
    /\ broken' = FALSE
    /\ UNCHANGED <<ns, clock, memory, known, diskVars, answer, overlapped, interrupted>>

\* A read.  With --no-cache the proxy answers None by itself.  core/pipeline.py
\* reads a pipeline without naming a class, the bulk getters name theirs.
Get(p) ==
    /\ pc[p] = "ready" /\ ~bypass[p]
    /\ \/ UsesJson /\ JsonGet(p)
       \/ UsesKv /\ KvGet(p)
       \/ UsesStruct /\ \E typed \in BOOLEAN : StructGet(p, typed)
       \/ UsesText /\ TextGet(p)

\* A write goes through also with --no-cache.
Set(p) ==
    /\ pc[p] = "ready"
    /\ \/ UsesJson /\ JsonSet(p)
       \/ UsesKv /\ KvSet(p)
       \/ UsesStruct /\ StructSet(p)
       \/ UsesText /\ TextSet(p)

\* close: only the JSON backend has something to do.
Close(p) ==
    /\ pc[p] = "ready"
    /\ \/ UsesJson /\ JsonClose(p)
       \/ /\ ~UsesJson
          /\ Goto(p, "off")
          /\ UNCHANGED <<memory, known, diskVars, answer, broken>>

Crash(p) ==
    /\ pc[p] # "off"
    /\ pc' = [pc EXCEPT ![p] = "off"]
    /\ memory' = [memory EXCEPT ![p] = Nothing]
    /\ interrupted' = (interrupted \/ Halfway(p))
    /\ UNCHANGED <<ns, clock, bypass, version, known, diskVars, answer, broken,
                   overlapped, mixed>>

\* An operation takes no time beside a time to live of ten seconds to a week.
Tick ==
    /\ clock < MaxTime
    /\ \A p \in Processes : ~Busy(p)
    /\ clock' = clock + 1
    /\ UNCHANGED <<ns, processVars, diskVars, answer, broken, faultVars>>

Init ==
    /\ ns \in CacheNS /\ clock = 0
    /\ pc = [p \in Processes |-> "off"]
    /\ bypass = [p \in Processes |-> FALSE]
    /\ version = [p \in Processes |-> "new"]
    /\ memory = [p \in Processes |-> Nothing]
    /\ known = [p \in Processes |-> "nobody"]
    /\ content = Nothing /\ sidecar = NoFile
    /\ table = "nobody" /\ registry = "nobody"
    /\ answer = NoAnswer /\ broken = FALSE
    /\ overlapped = FALSE /\ interrupted = FALSE /\ mixed = FALSE

ProcessStep(p) ==
    \/ Start(p) \/ Open(p) \/ Get(p) \/ Set(p) \/ Close(p) \/ Crash(p)
    \/ JsonFlush(p) \/ StructStep(p) \/ TextStep(p)

Next == Tick \/ \E p \in Processes : ProcessStep(p)

Spec == Init /\ [][Next]_vars

-----------------------------------------------------------------------------
(* Properties.                                                             *)

Disturbed == overlapped \/ interrupted

\* What a cache answers was stored whole and had not expired, and an object
\* read as an instance of a class fits the class of the reader.  SQLite and
\* the JSON file keep this whatever two processes and a crash do; the text files
\* as long as no two operations overlap, and no crash comes between the two
\* writes of a set; one in a garbage collection does no harm.
HitsKeepPromise ==
    answer # NoAnswer /\ (UsesText => ~Disturbed) =>
        /\ answer.entry \notin {Nothing, Torn}
        /\ answer.entry.due >= answer.at
        /\ answer.typed => answer.fits

\* Every file of a log has an expiry beside it, by which it is removed one day,
\* also after a crash between the two unlinks of a garbage collection; unless one
\* has cut off a set, or operations overlapped (TextFileBackend.set, _gc).
LogsHaveExpiry ==
    UsesText /\ content # Nothing /\ ~Disturbed =>
        sidecar > Empty \/ \E p \in Processes : Busy(p)

\* The registry does not tell what table there is: _ensure_table creates one
\* that exists, or leaves one out that was dropped.
Wedged == table # registry

\* An operation raises only when two of them overlap, or two versions of ddgl
\* run at a time, or a crash has cut off a DROP or CREATE TABLE from the row of
\* the registry that goes with it, or a log in the middle (_ensure_table,
\* StructSqliteBackend.get, SqliteBackend._gc, TextFileBackend.get).
OnlyKnownFailures ==
    [][broken' /\ ~broken =>
          overlapped \/ mixed \/ (interrupted /\ (Wedged \/ content = Torn))]_vars

\* struct_sqlite.py: "Schema mismatches detected on read are logged and treated
\* as cache misses."
MismatchIsAMiss == UsesStruct => answer.fits
=============================================================================
