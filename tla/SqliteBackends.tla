--------------------------- MODULE SqliteBackends ---------------------------
(***************************************************************************)
(* cache/backends/sqlite_base.py and the two stores built on it:           *)
(* kv_sqlite.py (API responses) and struct_sqlite.py (pipelines and jobs). *)
(*                                                                         *)
(* Every operation opens a connection of its own.  Python's sqlite3 begins *)
(* a transaction before an INSERT or a DELETE and before no SELECT, PRAGMA,*)
(* DROP or CREATE: each of those stands by itself, and another process may *)
(* drop the table between two of them.                                     *)
(***************************************************************************)
EXTENDS CacheStore

UsesKv == ns = "api_responses"
UsesStruct == ns = "objects"

\* _gc: DELETE of the rows that have expired.
Swept == IF content.due < clock THEN Nothing ELSE content

\* __init__ of the store of API responses: nobody drops its table.
KvOpen(p) ==
    /\ content' = Swept
    /\ Goto(p, "ready")
    /\ UNCHANGED <<memory, known, sidecar, table, registry, answer, broken>>

\* __init__ of the store of objects: _gc asks which tables there are and what
\* columns they have, and then deletes from each.
StructOpen(p) ==
    /\ known' = [known EXCEPT ![p] = "nobody"]
    /\ Goto(p, IF table # "nobody" THEN "sweep" ELSE "ready")
    /\ UNCHANGED <<memory, diskVars, answer, broken>>

\* When the table has been dropped since then, the backend is not opened.
Sweep(p) ==
    /\ pc[p] = "sweep"
    /\ \/ table # "nobody" /\ content' = Swept /\ Goto(p, "ready")
          /\ UNCHANGED <<answer, broken>>
       \/ table = "nobody" /\ Raise /\ Goto(p, "opening") /\ UNCHANGED content
    /\ UNCHANGED <<memory, known, sidecar, table, registry>>

\* WHERE ... AND expires_at > ?
RowFound == content # Nothing /\ content.due > clock

KvGet(p) ==
    /\ IF RowFound THEN Hit(p, content, clock, FALSE) ELSE Miss
    /\ Goto(p, "ready")
    /\ UNCHANGED <<memory, known, diskVars>>

KvSet(p) ==
    /\ content' = NewEntry(p)
    /\ Goto(p, "ready")
    /\ UNCHANGED <<memory, known, sidecar, table, registry, answer, broken>>

\* Bug: the row is converted to no class.
Untyped(p, typed) == TRUE
\* _deserialize: a row that does not fit the class counts as a miss.  Without
\* a class the row is returned as it is.
Deserializes(p, typed) == typed => Fits(content, p)

\* get, and get_many, which differs in the number of keys: is there a table?
StructGet(p, typed) ==
    /\ Miss
    /\ Goto(p, IF table = "nobody" THEN "ready"
               ELSE IF typed THEN "select typed" ELSE "select")
    /\ UNCHANGED <<memory, known, diskVars>>

\* The SELECT, which finds the table dropped or made anew meanwhile.
Select(p, typed) ==
    /\ pc[p] = IF typed THEN "select typed" ELSE "select"
    /\ \/ table = "nobody" /\ Raise
       \/ /\ table # "nobody"
          /\ IF RowFound /\ Deserializes(p, typed) THEN Hit(p, content, clock, typed)
             ELSE Miss
    /\ Goto(p, "ready")
    /\ UNCHANGED <<memory, known, diskVars>>

-----------------------------------------------------------------------------
(* StructSqliteBackend.set, with _ensure_table in front of the INSERT.     *)

\* Bug: a table of another version is not dropped.
AfterSelectNoDrop(p) ==
    IF known[p] = version[p] \/ registry = version[p] THEN "insert" ELSE "create"
\* The step _ensure_table takes after it has read the registry.
AfterSelect(p) ==
    IF known[p] = version[p] \/ registry = version[p] THEN "insert"
    ELSE IF registry # "nobody" THEN "drop" ELSE "create"

StructSet(p) ==
    /\ Goto(p, AfterSelect(p))
    /\ known' = IF AfterSelect(p) = "insert"
                THEN [known EXCEPT ![p] = version[p]] ELSE known
    /\ UNCHANGED <<memory, diskVars, answer, broken>>

DropTable(p) ==
    /\ pc[p] = "drop"
    /\ table' = "nobody" /\ content' = Nothing
    /\ Goto(p, "create")
    /\ UNCHANGED <<memory, known, sidecar, registry, answer, broken>>

CreateTable(p) ==
    /\ pc[p] = "create"
    /\ \/ /\ table = "nobody"
          /\ table' = version[p]
          /\ Goto(p, "register") /\ UNCHANGED <<answer, broken>>
       \/ table # "nobody" /\ Raise /\ Goto(p, "ready") /\ UNCHANGED table
    /\ UNCHANGED <<memory, known, content, sidecar, registry>>

Register(p) ==
    /\ pc[p] = "register"
    /\ registry' = version[p]
    /\ known' = [known EXCEPT ![p] = version[p]]
    /\ Goto(p, "insert")
    /\ UNCHANGED <<memory, content, sidecar, table, answer, broken>>

\* The table is gone, or lacks a column the INSERT names.
CannotInsert(p) == table = "nobody" \/ (version[p] = "new" /\ table = "old")

Insert(p) ==
    /\ pc[p] = "insert"
    /\ \/ ~CannotInsert(p) /\ content' = NewEntry(p) /\ UNCHANGED <<answer, broken>>
       \/ CannotInsert(p) /\ Raise /\ UNCHANGED content
    /\ Goto(p, "ready")
    /\ UNCHANGED <<memory, known, sidecar, table, registry>>

StructStep(p) ==
    \/ Sweep(p) \/ \E typed \in BOOLEAN : Select(p, typed)
    \/ DropTable(p) \/ CreateTable(p) \/ Register(p) \/ Insert(p)
=============================================================================
