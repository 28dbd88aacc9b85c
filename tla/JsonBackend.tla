---------------------------- MODULE JsonBackend ----------------------------
(***************************************************************************)
(* cache/backends/json.py: a JSON file read when the backend opens, kept   *)
(* in memory, and written whole when it closes.                            *)
(***************************************************************************)
EXTENDS CacheStore

UsesJson == ns = "tokens"

\* Bug: what a truncated file holds is taken for the data.
ParsedTorn == content
\* A file that does not parse counts as an empty one.
Parsed == IF content = Torn THEN Nothing ELSE content

\* __init__
JsonOpen(p) ==
    /\ memory' = [memory EXCEPT ![p] = Parsed]
    /\ Goto(p, "ready")
    /\ UNCHANGED <<known, diskVars, answer, broken>>

JsonLive(entry) == entry # Nothing /\ entry.due >= clock

JsonGet(p) ==
    /\ \/ JsonLive(memory[p]) /\ Hit(p, memory[p], clock, FALSE) /\ UNCHANGED memory
       \/ ~JsonLive(memory[p]) /\ Miss /\ memory' = [memory EXCEPT ![p] = Nothing]
    /\ Goto(p, "ready")
    /\ UNCHANGED <<known, diskVars>>

JsonSet(p) ==
    /\ memory' = [memory EXCEPT ![p] = NewEntry(p)]
    /\ Goto(p, "ready")
    /\ UNCHANGED <<known, diskVars, answer, broken>>

\* close: write_text truncates the file and then writes it.
JsonClose(p) ==
    /\ content' = Torn
    /\ Goto(p, "flush")
    /\ UNCHANGED <<memory, known, sidecar, table, registry, answer, broken>>

JsonFlush(p) ==
    /\ pc[p] = "flush"
    /\ content' = memory[p]
    /\ memory' = [memory EXCEPT ![p] = Nothing]
    /\ Goto(p, "off")
    /\ UNCHANGED <<known, sidecar, table, registry, answer, broken>>
=============================================================================
