----------------------------- MODULE CacheStore -----------------------------
(***************************************************************************)
(* What the backends of src/ddgl/cache have in common: a store on disk     *)
(* that several ddgl processes share, seen through one key; entries with   *)
(* an expiry; and the observers the properties of Cache are about.         *)
(*                                                                         *)
(* A process is killed between any two steps (Crash).  What one system     *)
(* call or one SQLite transaction does is one step.                        *)
(***************************************************************************)
EXTENDS Integers

CONSTANTS
    Processes, \* the ddgl processes that share the cache directory
    Ttl,       \* the time to live of every entry
    MaxTime    \* bound: the clock

ASSUME CacheStoreAssumption == Ttl \in Nat \ {0} /\ MaxTime \in Nat

VARIABLES
    ns,       \* the namespace, which decides the backend
    clock,    \* time.time()
    pc,       \* what each process is doing
    bypass,   \* whether each process was started with --no-cache
    version,  \* the version of ddgl each process runs
    memory,   \* JsonBackend._data of each process
    known,    \* StructSqliteBackend._known_hashes of each process
    content,  \* disk: the file, or the row of the key
    sidecar,  \* disk: the .expires file of the key
    table,    \* disk: the version of the table objects are stored in
    registry, \* disk: the version _schema_versions names for it
    answer,   \* observer: the last hit, and when its expiry was looked at
    broken,   \* observer: an operation has raised since a process was started
    overlapped,  \* observer: two processes were in the middle of operations
    interrupted, \* observer: a process was killed halfway through a set
    mixed        \* observer: processes of two versions ran at a time

diskVars == <<content, sidecar, table, registry>>
processVars == <<pc, bypass, version, memory, known>>
faultVars == <<overlapped, interrupted, mixed>>
vars == <<ns, clock, processVars, diskVars, answer, broken, faultVars>>

CacheNS == {"tokens", "api_responses", "objects", "logs"}
Versions == {"old", "new"}

\* due: when the entry expires; 0 stands for no entry, and for a file that has
\* been truncated and not yet written.
Entry == [due : 1..MaxTime + Ttl, by : Versions]
Nothing == [due |-> 0, by |-> "nobody"]
Torn == [due |-> 0, by |-> "torn"]
NewEntry(p) == [due |-> clock + Ttl, by |-> version[p]]

NoFile == -1
Empty == 0

\* The fields of a class of the old version are some of those of the new one.
Fits(entry, p) == version[p] = "new" => entry.by = "new"

Busy(p) == pc[p] \notin {"off", "opening", "ready"}

\* Between writes that belong together: the two files of a log, a table and the
\* row of the registry that names its version.
Halfway(p) == pc[p] \in {"write", "truncate", "stamp", "create", "register"}

Goto(p, step) ==
    /\ pc' = [pc EXCEPT ![p] = step]
    /\ overlapped' = (overlapped \/ \E q \in Processes \ {p} : Busy(q))
    /\ UNCHANGED <<ns, clock, bypass, version, interrupted, mixed>>

Miss == UNCHANGED <<answer, broken>>
Hit(p, entry, at, typed) ==
    /\ answer' = [entry |-> entry, at |-> at, fits |-> Fits(entry, p), typed |-> typed]
    /\ UNCHANGED broken
Raise == broken' = TRUE /\ UNCHANGED answer

NoAnswer == [entry |-> Nothing, at |-> 0, fits |-> TRUE, typed |-> TRUE]
=============================================================================
