-------------------------- MODULE TextFileBackend --------------------------
(***************************************************************************)
(* cache/backends/text_files.py: the log of a job in a file, and its       *)
(* expiry in a second one beside it.                                       *)
(***************************************************************************)
EXTENDS CacheStore

UsesText == ns = "logs"

\* float() of an empty sidecar raises, and so does reading one that is gone: _gc
\* takes the entry for expired ...
GcExpired == sidecar < clock
\* ... and _read_expires takes it for one without expiry.
Expired == sidecar \notin {NoFile, Empty} /\ sidecar < clock

\* __init__: _gc finds the sidecar, reads it, unlinks the content, then the sidecar.
TextOpen(p) ==
    /\ Goto(p, IF sidecar # NoFile THEN "collect" ELSE "ready")
    /\ UNCHANGED <<memory, known, diskVars, answer, broken>>

Collect(p) ==
    /\ pc[p] = "collect"
    /\ Goto(p, IF GcExpired THEN "unlink content" ELSE "ready")
    /\ UNCHANGED <<memory, known, diskVars, answer, broken>>

\* Bug: only the sidecar goes.
KeepContent == UNCHANGED content
Unlinked == content' = Nothing

UnlinkContent(p) ==
    /\ pc[p] = "unlink content"
    /\ Unlinked
    /\ Goto(p, "unlink sidecar")
    /\ UNCHANGED <<memory, known, sidecar, table, registry, answer, broken>>

UnlinkSidecar(p) ==
    /\ pc[p] = "unlink sidecar"
    /\ sidecar' = NoFile
    /\ Goto(p, "ready")
    /\ UNCHANGED <<memory, known, content, table, registry, answer, broken>>

\* get reads the sidecar, asks whether there is a content file, and reads it.
TextGet(p) ==
    /\ Miss
    /\ Goto(p, IF Expired THEN "ready" ELSE "exists")
    /\ UNCHANGED <<memory, known, diskVars>>

ContentExists(p) ==
    /\ pc[p] = "exists"
    /\ Miss
    /\ Goto(p, IF content = Nothing THEN "ready" ELSE "read")
    /\ UNCHANGED <<memory, known, diskVars>>

\* FileNotFoundError, or UnicodeDecodeError when the content ends inside a
\* character; a content that ends elsewhere too early is served.
ReadContent(p) ==
    /\ pc[p] = "read"
    /\ \/ content \in {Nothing, Torn} /\ Raise
       \/ content # Nothing /\ Hit(p, content, clock, FALSE)
    /\ Goto(p, "ready")
    /\ UNCHANGED <<memory, known, diskVars>>

\* set: two write_text calls, each of which truncates its file first.
TextSet(p) ==
    /\ content' = Torn
    /\ Goto(p, "write")
    /\ UNCHANGED <<memory, known, sidecar, table, registry, answer, broken>>

WriteContent(p) ==
    /\ pc[p] = "write"
    /\ content' = NewEntry(p)
    /\ Goto(p, "truncate")
    /\ UNCHANGED <<memory, known, sidecar, table, registry, answer, broken>>

TruncateSidecar(p) ==
    /\ pc[p] = "truncate"
    /\ sidecar' = Empty
    /\ Goto(p, "stamp")
    /\ UNCHANGED <<memory, known, content, table, registry, answer, broken>>

WriteSidecar(p) ==
    /\ pc[p] = "stamp"
    /\ sidecar' = clock + Ttl
    /\ Goto(p, "ready")
    /\ UNCHANGED <<memory, known, content, table, registry, answer, broken>>

TextStep(p) ==
    \/ Collect(p) \/ UnlinkContent(p) \/ UnlinkSidecar(p)
    \/ ContentExists(p) \/ ReadContent(p)
    \/ WriteContent(p) \/ TruncateSidecar(p) \/ WriteSidecar(p)
=============================================================================
