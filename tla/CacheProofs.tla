---------------------------- MODULE CacheProofs ----------------------------
(***************************************************************************)
(* For every number of processes, every time to live and every clock: what *)
(* a cache answers keeps its promise, every log has its expiry, and an     *)
(* operation raises only for a reason that is known.                       *)
(***************************************************************************)
EXTENDS Cache, TLAPS

\* As long as no two operations have overlapped, one process at most is in one.
OneAtATime ==
    ~overlapped => \A p, q \in Processes : Busy(p) /\ Busy(q) => p = q

\* A log has its own expiry beside it.
Paired ==
    \/ content = Nothing
    \/ content \in Entry /\ sidecar = content.due

\* What a read finds that has looked at the sidecar.
Readable == Paired /\ (content # Nothing => sidecar >= clock)

\* The two files of a log at each step of the operation that is under way.
TextOK ==
    UsesText /\ ~overlapped =>
        /\ \A p \in Processes : pc[p] = "read" => content # Nothing
        /\ ~interrupted =>
              /\ (\A p \in Processes : ~Busy(p)) => Paired
              /\ \A p \in Processes :
                    /\ pc[p] \in {"collect", "unlink content"} => Paired
                    /\ pc[p] = "unlink sidecar" => content = Nothing
                    /\ pc[p] \in {"exists", "read"} => Readable
                    /\ pc[p] \in {"truncate", "stamp"} =>
                          content \in Entry /\ content.due = clock + Ttl

\* Unless versions were mixed, all processes are of one, and what a process
\* believes of the registry is true.
VersionsOK ==
    ~mixed =>
        /\ \A p, q \in Processes :
              pc[p] # "off" /\ pc[q] # "off" => version[p] = version[q]
        /\ UsesStruct => \A p \in Processes :
              /\ pc[p] \notin {"off", "opening"} /\ known[p] = version[p] =>
                    registry = version[p]
              /\ pc[p] = "insert" => known[p] = version[p]

\* Where a process has just found that there is a table.
Looked == {"sweep", "select", "select typed"}

\* The table and its row in the registry, at each step of a migration.
TableOK ==
    UsesStruct /\ ~overlapped =>
        /\ \A p \in Processes :
              /\ pc[p] = "create" /\ registry # "nobody" => table = "nobody"
              /\ pc[p] \in Looked => table # "nobody"
        /\ ~interrupted =>
              /\ (\A p \in Processes : ~Busy(p)) => table = registry
              /\ \A p \in Processes :
                    /\ pc[p] \in {"drop", "insert"} \cup Looked => table = registry
                    /\ pc[p] = "create" => table = "nobody"
                    /\ pc[p] = "register" => table = version[p]

IInv == TypeOK /\ OneAtATime /\ TextOK /\ VersionsOK /\ TableOK /\ HitsKeepPromise

-----------------------------------------------------------------------------
(* The steps, sorted by backend.                                           *)

LeavesCache(p) == Goto(p, "off") /\ UNCHANGED <<memory, known, diskVars, answer, broken>>

JsonWorks(p) ==
    \/ pc[p] = "opening" /\ JsonOpen(p)
    \/ pc[p] = "ready" /\ (JsonGet(p) \/ JsonSet(p) \/ JsonClose(p))
    \/ JsonFlush(p)
KvWorks(p) ==
    \/ pc[p] = "opening" /\ KvOpen(p)
    \/ pc[p] = "ready" /\ (KvGet(p) \/ KvSet(p) \/ LeavesCache(p))
StructWorks(p) ==
    \/ pc[p] = "opening" /\ StructOpen(p)
    \/ pc[p] = "ready" /\ (\/ \E typed \in BOOLEAN : StructGet(p, typed)
                           \/ StructSet(p) \/ LeavesCache(p))
    \/ StructStep(p)
TextWorks(p) ==
    \/ pc[p] = "opening" /\ TextOpen(p)
    \/ pc[p] = "ready" /\ (TextGet(p) \/ TextSet(p) \/ LeavesCache(p))
    \/ TextStep(p)

Works(p) ==
    \/ UsesJson /\ JsonWorks(p)
    \/ UsesKv /\ KvWorks(p)
    \/ UsesStruct /\ StructWorks(p)
    \/ UsesText /\ TextWorks(p)

\* A process is only at steps of its backend.
LEMMA StepsAre ==
  ASSUME TypeOK, NEW p \in Processes
  PROVE  /\ pc[p] \in Step
         /\ UsesJson \/ UsesKv \/ UsesStruct \/ UsesText
         /\ UsesJson => Step = {"off", "opening", "ready", "flush"}
         /\ UsesKv => Step = {"off", "opening", "ready"}
         /\ UsesStruct =>
              Step = {"off", "opening", "ready", "sweep", "select", "select typed",
                      "drop", "create", "register", "insert"}
         /\ UsesText =>
              Step = {"off", "opening", "ready", "collect", "unlink content",
                      "unlink sidecar", "exists", "read", "write", "truncate", "stamp"}
<1>1. ns \in CacheNS /\ pc[p] \in Step
  BY DEF TypeOK
<1>2. ns = "tokens" => Step = {"off", "opening", "ready", "flush"}
  BY StepOf["tokens"] = {"flush"} DEF Step, StepOf
<1>3. ns = "api_responses" => Step = {"off", "opening", "ready"}
  BY StepOf["api_responses"] = {} DEF Step, StepOf
<1>4. ns = "objects" =>
         Step = {"off", "opening", "ready", "sweep", "select", "select typed",
                 "drop", "create", "register", "insert"}
  BY StepOf["objects"] = {"sweep", "select", "select typed", "drop", "create",
                          "register", "insert"} DEF Step, StepOf
<1>5. ns = "logs" =>
         Step = {"off", "opening", "ready", "collect", "unlink content",
                 "unlink sidecar", "exists", "read", "write", "truncate", "stamp"}
  BY StepOf["logs"] = {"collect", "unlink content", "unlink sidecar", "exists", "read",
                       "write", "truncate", "stamp"} DEF Step, StepOf
<1>6. QED
  BY <1>1, <1>2, <1>3, <1>4, <1>5 DEF CacheNS, UsesJson, UsesKv, UsesStruct, UsesText

LEMMA StepIs ==
  ASSUME TypeOK, [Next]_vars
  PROVE  \/ UNCHANGED vars
         \/ Tick
         \/ \E p \in Processes : Start(p) \/ Crash(p) \/ Works(p)
<1> SUFFICES ASSUME NEW p \in Processes, ProcessStep(p), ~Start(p), ~Crash(p)
             PROVE  Works(p)
  BY DEF Next
<1>1. CASE Open(p)
  BY <1>1 DEF Open, Works, JsonWorks, KvWorks, StructWorks, TextWorks
<1>2. CASE Get(p)
  BY <1>2 DEF Get, Works, JsonWorks, KvWorks, StructWorks, TextWorks
<1>3. CASE Set(p)
  BY <1>3 DEF Set, Works, JsonWorks, KvWorks, StructWorks, TextWorks
<1>4. CASE Close(p)
  BY <1>4, StepsAre DEF Close, Works, JsonWorks, KvWorks, StructWorks, TextWorks, LeavesCache
<1>5. CASE JsonFlush(p)
  BY <1>5, StepsAre DEF JsonFlush, Works, JsonWorks
<1>6. CASE StructStep(p)
  <2>1. pc[p] \in {"sweep", "select", "select typed", "drop", "create", "register", "insert"}
    BY <1>6 DEF StructStep, Sweep, Select, DropTable, CreateTable, Register, Insert
  <2>2. UsesStruct
    BY <2>1, StepsAre
  <2>3. QED  BY <1>6, <2>2 DEF Works, StructWorks
<1>7. CASE TextStep(p)
  <2>1. pc[p] \in {"collect", "unlink content", "unlink sidecar", "exists", "read", "write",
                   "truncate", "stamp"}
    BY <1>7 DEF TextStep, Collect, ContentExists, UnlinkContent, UnlinkSidecar, ReadContent, WriteContent,
                TruncateSidecar, WriteSidecar
  <2>2. UsesText
    BY <2>1, StepsAre
  <2>3. QED  BY <1>7, <2>2 DEF Works, TextWorks
<1>8. QED  BY <1>1, <1>2, <1>3, <1>4, <1>5, <1>6, <1>7 DEF ProcessStep

\* What every step of an operation does besides its work.
LEMMA WorksIs ==
  ASSUME NEW p \in Processes, Works(p)
  PROVE  /\ \E step : Goto(p, step)
         /\ pc[p] # "off"
  BY DEF Works, JsonWorks, KvWorks, StructWorks, TextWorks, LeavesCache, JsonOpen,
         JsonGet, JsonSet, JsonClose, JsonFlush, KvOpen, KvGet, KvSet, StructOpen, Sweep,
         StructGet, Select, StructSet, StructStep, DropTable, CreateTable, Register, Insert, TextOpen,
         TextGet, TextSet, TextStep, Collect, ContentExists, UnlinkContent, UnlinkSidecar, ReadContent,
         WriteContent, TruncateSidecar, WriteSidecar

-----------------------------------------------------------------------------
(* Types.                                                                  *)

LEMMA EntriesAre ==
  /\ Nothing \notin Entry /\ Torn \notin Entry /\ Nothing # Torn
  /\ Nothing.due = 0 /\ Torn.due = 0
  /\ \A e \in Entry : e.due \in 1..MaxTime + Ttl /\ e.by \in Versions
  BY CacheStoreAssumption DEF Nothing, Torn, Entry, Versions

LEMMA NewEntryIs ==
  ASSUME TypeOK, NEW p \in Processes
  PROVE  NewEntry(p) \in Entry /\ NewEntry(p).due = clock + Ttl
  BY CacheStoreAssumption DEF TypeOK, NewEntry, Entry

LEMMA JsonTypes ==
  ASSUME TypeOK, NEW p \in Processes, UsesJson, JsonWorks(p)
  PROVE  TypeOK'
<1>0. Step = {"off", "opening", "ready", "flush"}
  BY StepsAre
<1>1. \E step \in Step : pc' = [pc EXCEPT ![p] = step]
  BY <1>0 DEF JsonWorks, JsonOpen, JsonGet, JsonSet, JsonClose, JsonFlush, Goto
<1>2. ns' = ns /\ UNCHANGED <<clock, bypass, version, known, sidecar, table, registry>>
  BY DEF JsonWorks, JsonOpen, JsonGet, JsonSet, JsonClose, JsonFlush, Goto, diskVars
<1>3. pc' \in [Processes -> Step'] /\ broken' \in BOOLEAN
  BY <1>1, <1>2 DEF TypeOK, Step, JsonWorks, JsonOpen, JsonGet, JsonSet, JsonClose,
                    JsonFlush, Hit, Miss
<1>4. Parsed \in Entry \cup {Nothing}
  BY DEF Parsed, TypeOK
<1>5. memory' \in [Processes -> Entry \cup {Nothing}]
  BY <1>4, NewEntryIs DEF TypeOK, JsonWorks, JsonOpen, JsonGet, JsonSet, JsonClose, JsonFlush
<1>6. content' \in Entry \cup {Nothing, Torn}
  BY DEF TypeOK, JsonWorks, JsonOpen, JsonGet, JsonSet, JsonClose, JsonFlush, diskVars
<1>7. QED  BY <1>2, <1>3, <1>5, <1>6 DEF TypeOK

LEMMA KvTypes ==
  ASSUME TypeOK, NEW p \in Processes, UsesKv, KvWorks(p)
  PROVE  TypeOK'
<1>0. Step = {"off", "opening", "ready"}
  BY StepsAre
<1>1. \E step \in Step : pc' = [pc EXCEPT ![p] = step]
  BY <1>0 DEF KvWorks, KvOpen, KvGet, KvSet, LeavesCache, Goto
<1>2. ns' = ns /\ UNCHANGED <<clock, bypass, version, memory, sidecar, table, registry>>
  BY DEF KvWorks, KvOpen, KvGet, KvSet, LeavesCache, Goto, diskVars
<1>3. pc' \in [Processes -> Step'] /\ broken' \in BOOLEAN
  BY <1>1, <1>2 DEF TypeOK, Step, KvWorks, KvOpen, KvGet, KvSet, LeavesCache, Hit, Miss
<1>4. content' \in Entry \cup {Nothing, Torn}
  BY NewEntryIs DEF TypeOK, KvWorks, KvOpen, Swept, KvGet, KvSet, LeavesCache, diskVars
<1>5. known' \in [Processes -> Versions \cup {"nobody"}]
  BY DEF TypeOK, KvWorks, KvOpen, KvGet, KvSet, LeavesCache
<1>6. QED  BY <1>2, <1>3, <1>4, <1>5 DEF TypeOK

LEMMA StructTypes ==
  ASSUME TypeOK, NEW p \in Processes, UsesStruct, StructWorks(p)
  PROVE  TypeOK'
<1>0. Step = {"off", "opening", "ready", "sweep", "select", "select typed",
              "drop", "create", "register", "insert"}
  BY StepsAre
<1> USE DEF StructWorks, StructStep
<1>1. \E step \in Step : pc' = [pc EXCEPT ![p] = step]
  BY <1>0 DEF StructOpen, Sweep, StructGet, Select, StructSet, LeavesCache, DropTable, CreateTable,
              Register, Insert, AfterSelect, Goto
<1>2. ns' = ns /\ UNCHANGED <<clock, bypass, version, memory, sidecar>>
  BY DEF StructOpen, Sweep, StructGet, Select, StructSet, LeavesCache, DropTable, CreateTable,
         Register, Insert, Goto, diskVars
<1>3. pc' \in [Processes -> Step'] /\ broken' \in BOOLEAN
  BY <1>1, <1>2 DEF TypeOK, Step, StructOpen, Sweep, StructGet, Select, StructSet, LeavesCache,
         DropTable, CreateTable, Register, Insert, Hit, Miss, Raise
<1>4. content' \in Entry \cup {Nothing, Torn}
  <2>1. CASE StructOpen(p) \/ StructSet(p) \/ LeavesCache(p)
             \/ \E typed \in BOOLEAN : StructGet(p, typed) \/ Select(p, typed)
    BY <2>1 DEF TypeOK, StructOpen, StructSet, LeavesCache, StructGet, Select, diskVars
  <2>2. CASE Sweep(p) \/ DropTable(p) \/ CreateTable(p) \/ Register(p)
    BY <2>2 DEF TypeOK, Sweep, Swept, DropTable, CreateTable, Register
  <2>3. CASE Insert(p)
    BY <2>3, NewEntryIs DEF TypeOK, Insert
  <2>4. QED  BY <2>1, <2>2, <2>3
<1>5. known' \in [Processes -> Versions \cup {"nobody"}]
  BY DEF TypeOK, StructOpen, Sweep, StructGet, Select, StructSet, LeavesCache, DropTable, CreateTable,
         Register, Insert
<1>6. table' \in Versions \cup {"nobody"} /\ registry' \in Versions \cup {"nobody"}
  <2>1. CASE StructOpen(p) \/ StructSet(p) \/ LeavesCache(p)
             \/ \E typed \in BOOLEAN : StructGet(p, typed) \/ Select(p, typed)
    BY <2>1 DEF TypeOK, StructOpen, StructSet, LeavesCache, StructGet, Select, diskVars
  <2>2. CASE Sweep(p) \/ DropTable(p) \/ CreateTable(p) \/ Register(p) \/ Insert(p)
    BY <2>2 DEF TypeOK, Sweep, DropTable, CreateTable, Register, Insert
  <2>3. QED  BY <2>1, <2>2
<1>7. QED  BY <1>2, <1>3, <1>4, <1>5, <1>6 DEF TypeOK

LEMMA TextTypes ==
  ASSUME TypeOK, NEW p \in Processes, UsesText, TextWorks(p)
  PROVE  TypeOK'
<1>0. Step = {"off", "opening", "ready", "collect", "unlink content",
              "unlink sidecar", "exists", "read", "write", "truncate", "stamp"}
  BY StepsAre
<1> USE DEF TextWorks, TextStep
<1>1. \E step \in Step : pc' = [pc EXCEPT ![p] = step]
  BY <1>0 DEF TextOpen, Collect, ContentExists, TextGet, TextSet, LeavesCache, UnlinkContent, UnlinkSidecar,
              ReadContent, WriteContent, TruncateSidecar, WriteSidecar, Goto
<1>2. ns' = ns /\ UNCHANGED <<clock, bypass, version, memory, known, table, registry>>
  BY DEF TextOpen, Collect, ContentExists, TextGet, TextSet, LeavesCache, UnlinkContent, UnlinkSidecar,
         ReadContent, WriteContent, TruncateSidecar, WriteSidecar, Goto, diskVars
<1>3. pc' \in [Processes -> Step'] /\ broken' \in BOOLEAN
  BY <1>1, <1>2 DEF TypeOK, Step, TextOpen, Collect, ContentExists, TextGet, TextSet, LeavesCache, UnlinkContent,
         UnlinkSidecar, ReadContent, WriteContent, TruncateSidecar, WriteSidecar,
         Hit, Miss, Raise
<1>4. content' \in Entry \cup {Nothing, Torn}
  BY NewEntryIs DEF TypeOK, TextOpen, Collect, ContentExists, TextGet, TextSet, LeavesCache, UnlinkContent,
         UnlinkSidecar, ReadContent, WriteContent, TruncateSidecar, WriteSidecar,
         diskVars, Unlinked
<1>5. NoFile \in NoFile..MaxTime + Ttl /\ Empty \in NoFile..MaxTime + Ttl
      /\ clock + Ttl \in NoFile..MaxTime + Ttl
  BY CacheStoreAssumption DEF NoFile, Empty, TypeOK
<1>6. sidecar' \in NoFile..MaxTime + Ttl
  BY <1>5 DEF TypeOK, TextOpen, Collect, ContentExists, TextGet, TextSet, LeavesCache, UnlinkContent,
         UnlinkSidecar, ReadContent, WriteContent, TruncateSidecar, WriteSidecar, diskVars
<1>7. QED  BY <1>2, <1>3, <1>4, <1>6 DEF TypeOK

\* Every step keeps the types.
LEMMA TypesKeep ==
  ASSUME TypeOK, [Next]_vars
  PROVE  TypeOK'
<1>1. CASE UNCHANGED vars
  BY <1>1 DEF TypeOK, Step, vars, processVars, diskVars, faultVars
<1>2. CASE Tick
  <2>1. clock' \in 0..MaxTime
    BY <1>2, CacheStoreAssumption DEF Tick, TypeOK
  <2>2. QED  BY <1>2, <2>1 DEF Tick, TypeOK, Step, processVars, diskVars
<1>3. ASSUME NEW p \in Processes, Start(p)  PROVE TypeOK'
  <2>1. pc' = [pc EXCEPT ![p] = "opening"] /\ ns' = ns /\ Step' = Step
    BY <1>3 DEF Start, Step
  <2>2. pc' \in [Processes -> Step']
    BY <2>1 DEF TypeOK, Step
  <2>3. bypass' \in [Processes -> BOOLEAN] /\ version' \in [Processes -> Versions]
    BY <1>3 DEF Start, TypeOK, Versions
  <2>4. QED  BY <1>3, <2>2, <2>3 DEF Start, TypeOK, diskVars
<1>4. ASSUME NEW p \in Processes, Crash(p)  PROVE TypeOK'
  <2>1. pc' = [pc EXCEPT ![p] = "off"] /\ ns' = ns /\ Step' = Step
    BY <1>4 DEF Crash, Step
  <2>2. pc' \in [Processes -> Step']
    BY <2>1 DEF TypeOK, Step
  <2>3. memory' \in [Processes -> Entry \cup {Nothing}]
    BY <1>4 DEF Crash, TypeOK
  <2>4. QED  BY <1>4, <2>2, <2>3 DEF Crash, TypeOK, diskVars
<1>5. ASSUME NEW p \in Processes, Works(p)  PROVE TypeOK'
  BY <1>5, JsonTypes, KvTypes, StructTypes, TextTypes DEF Works
<1>6. QED  BY <1>1, <1>2, <1>3, <1>4, <1>5, StepIs

-----------------------------------------------------------------------------
(* One operation at a time.                                                *)

\* A process that goes on while no other is in an operation is the only one.
LEMMA GotoIs ==
  ASSUME TypeOK, OneAtATime, NEW p \in Processes, NEW step, Goto(p, step)
  PROVE  /\ OneAtATime'
         /\ ~overlapped' => \A q \in Processes \ {p} : ~Busy(q) /\ ~Busy(q)'
         /\ \A q \in Processes \ {p} : pc'[q] = pc[q]
         /\ pc'[p] = step
         /\ ~overlapped' => ~overlapped
  BY DEF TypeOK, OneAtATime, Goto, Busy

LEMMA BusyKeeps ==
  ASSUME TypeOK, OneAtATime, [Next]_vars
  PROVE  OneAtATime'
<1>1. CASE UNCHANGED vars \/ Tick
  BY <1>1 DEF OneAtATime, Busy, vars, Tick, processVars, faultVars
<1>2. ASSUME NEW p \in Processes, Start(p) \/ Crash(p)  PROVE OneAtATime'
  BY <1>2 DEF Start, Crash, OneAtATime, Busy, TypeOK
<1>3. ASSUME NEW p \in Processes, Works(p)  PROVE OneAtATime'
  BY <1>3, WorksIs, GotoIs
<1>4. QED  BY <1>1, <1>2, <1>3, StepIs

-----------------------------------------------------------------------------
(* The two files of a log.                                                 *)

LEMMA TextWorksKeeps ==
  ASSUME TypeOK, TypeOK', OneAtATime, TextOK, UsesText, NEW p \in Processes, TextWorks(p)
  PROVE  TextOK'
<1> SUFFICES ASSUME ~overlapped'  PROVE TextOK'
  BY DEF TextOK
<1>0. /\ \A q \in Processes \ {p} : ~Busy(q) /\ ~Busy(q)' /\ pc'[q] = pc[q]
      /\ ~overlapped /\ interrupted' = interrupted /\ clock' = clock
      /\ p \in DOMAIN pc /\ (\E step : Goto(p, step))
  <2>1. PICK step : Goto(p, step)
    BY WorksIs DEF Works
  <2>2. QED  BY <2>1, GotoIs DEF Goto, TypeOK
<1>01. /\ pc[p] = "read" => content # Nothing
       /\ ~interrupted =>
             /\ ~Busy(p) => Paired
             /\ pc[p] \in {"collect", "unlink content"} => Paired
             /\ pc[p] = "unlink sidecar" => content = Nothing
             /\ pc[p] \in {"exists", "read"} => Readable
             /\ pc[p] \in {"truncate", "stamp"} =>
                   content \in Entry /\ content.due = clock + Ttl
  BY <1>0 DEF TextOK
<1>02. clock \in Nat /\ Ttl \in Nat \ {0} /\ clock + Ttl > Empty
  BY CacheStoreAssumption DEF TypeOK, Empty
\* It is enough to look at the process that moves.
<1> SUFFICES
      /\ pc'[p] = "read" => content' # Nothing
      /\ ~interrupted =>
            /\ ~Busy(p)' => Paired'
            /\ pc'[p] \in {"collect", "unlink content"} => Paired'
            /\ pc'[p] = "unlink sidecar" => content' = Nothing
            /\ pc'[p] \in {"exists", "read"} => Readable'
            /\ pc'[p] \in {"truncate", "stamp"} =>
                  content' \in Entry /\ content'.due = clock + Ttl
  BY <1>0 DEF TextOK, Busy, UsesText
<1>1. CASE pc[p] = "opening" /\ TextOpen(p)
  BY <1>0, <1>01, <1>1 DEF TextOpen, Goto, Busy, Paired, diskVars
<1>2. CASE pc[p] = "ready" /\ TextGet(p)
  <2>1. ~Expired /\ Paired => Readable
    BY <1>02, EntriesAre DEF Expired, Paired, Readable, NoFile, Empty
  <2>2. QED
    BY <1>0, <1>01, <1>2, <2>1 DEF TextGet, Goto, Busy, Paired, Readable, diskVars
<1>3. CASE pc[p] = "ready" /\ (TextSet(p) \/ LeavesCache(p))
  BY <1>0, <1>01, <1>3 DEF TextSet, LeavesCache, Goto, Busy, Paired, diskVars
<1>4. CASE UnlinkContent(p) \/ UnlinkSidecar(p)
  BY <1>0, <1>01, <1>4 DEF UnlinkContent, UnlinkSidecar, Unlinked, Goto, Busy, Paired
<1>5. CASE Collect(p) \/ ContentExists(p) \/ ReadContent(p)
  BY <1>0, <1>01, <1>5 DEF Collect, ContentExists, ReadContent, Goto, Busy, Paired,
                           Readable, diskVars
<1>6. CASE WriteContent(p)
  BY <1>0, <1>6, NewEntryIs DEF WriteContent, Goto, Busy
<1>7. CASE TruncateSidecar(p) \/ WriteSidecar(p)
  BY <1>0, <1>01, <1>7 DEF TruncateSidecar, WriteSidecar, Goto, Busy, Paired
<1>8. QED
  BY <1>1, <1>2, <1>3, <1>4, <1>5, <1>6, <1>7 DEF TextWorks, TextStep

LEMMA TextKeeps ==
  ASSUME TypeOK, TypeOK', OneAtATime, TextOK, [Next]_vars
  PROVE  TextOK'
<1>1. CASE UNCHANGED vars
  BY <1>1 DEF TextOK, Paired, Readable, Busy, UsesText, vars, processVars, diskVars, faultVars
<1>2. CASE Tick
  BY <1>2 DEF Tick, TextOK, Paired, Busy, UsesText, processVars, diskVars, faultVars
<1>3. ASSUME NEW p \in Processes, Start(p) \/ Crash(p)  PROVE TextOK'
  <2>1. /\ \A q \in Processes \ {p} : pc'[q] = pc[q]
        /\ pc'[p] \in {"off", "opening"} /\ overlapped' = overlapped
        /\ interrupted' <=> (interrupted \/ Halfway(p))
        /\ UNCHANGED <<ns, clock, content, sidecar>>
    <3>1. CASE Start(p)
      BY <3>1 DEF Start, TypeOK, Halfway, diskVars
    <3>2. CASE Crash(p)
      BY <3>2 DEF Crash, TypeOK, diskVars
    <3>3. QED  BY <1>3, <3>1, <3>2
  <2> SUFFICES ASSUME ~overlapped', UsesText'  PROVE TextOK'
    BY DEF TextOK
  <2>2. \A q \in Processes : (pc'[q] = "read" \/ Busy(q)') => pc'[q] = pc[q]
    BY <2>1 DEF Busy
  <2>3. UsesText /\ ~overlapped
    BY <2>1 DEF UsesText
  <2>4. \A q \in Processes : pc'[q] = "read" => content' # Nothing
    BY <2>1, <2>2, <2>3 DEF TextOK
  <2>5. ASSUME ~interrupted'
        PROVE  /\ (\A q \in Processes : ~Busy(q)') => Paired'
               /\ \A q \in Processes :
                     /\ pc'[q] \in {"collect", "unlink content"} => Paired'
                     /\ pc'[q] = "unlink sidecar" => content' = Nothing
                     /\ pc'[q] \in {"exists", "read"} => Readable'
                     /\ pc'[q] \in {"truncate", "stamp"} =>
                           content' \in Entry /\ content'.due = clock' + Ttl
    <3>1. ~interrupted /\ ~Halfway(p) /\ \A q \in Processes \ {p} : Busy(q)' = Busy(q)
      BY <2>1, <2>5 DEF Busy
    <3>2. ASSUME \A q \in Processes : ~Busy(q)'  PROVE Paired
      <4>1. CASE Busy(p)
        <5>1. pc[p] \in {"collect", "unlink content", "unlink sidecar", "exists", "read"}
          BY <2>3, <3>1, <4>1, StepsAre DEF Busy, Halfway
        <5>2. QED  BY <2>3, <3>1, <5>1 DEF TextOK, Readable, Paired
      <4>2. CASE ~Busy(p)
        <5>1. \A q \in Processes : ~Busy(q)
          BY <3>1, <3>2, <4>2
        <5>2. QED  BY <2>3, <3>1, <5>1 DEF TextOK
      <4>3. QED  BY <4>1, <4>2
    <3>3. Paired' = Paired /\ Readable' = Readable
      BY <2>1 DEF Paired, Readable
    <3>4. ASSUME NEW q \in Processes
          PROVE  /\ pc'[q] \in {"collect", "unlink content"} => Paired'
                 /\ pc'[q] = "unlink sidecar" => content' = Nothing
                 /\ pc'[q] \in {"exists", "read"} => Readable'
                 /\ pc'[q] \in {"truncate", "stamp"} =>
                       content' \in Entry /\ content'.due = clock' + Ttl
      <4>1. CASE q = p
        BY <2>1, <4>1
      <4>2. CASE q # p
        BY <2>1, <2>3, <3>1, <3>3, <4>2 DEF TextOK
      <4>3. QED  BY <4>1, <4>2
    <3>5. QED  BY <2>3, <3>1, <3>2, <3>3, <3>4 DEF TextOK
  <2>6. QED  BY <2>4, <2>5 DEF TextOK
<1>4. ASSUME NEW p \in Processes, Works(p)  PROVE TextOK'
  <2>1. CASE UsesText
    BY <1>4, <2>1, TextWorksKeeps DEF Works, UsesText, UsesJson, UsesKv, UsesStruct
  <2>2. CASE ~UsesText
    BY <1>4, <2>2, WorksIs DEF Goto, TextOK, UsesText
  <2>3. QED  BY <2>1, <2>2
<1>5. QED  BY <1>1, <1>2, <1>3, <1>4, StepIs

-----------------------------------------------------------------------------
(* The versions of the processes, and the table of the objects.            *)

LEMMA VersionsKeep ==
  ASSUME TypeOK, VersionsOK, [Next]_vars
  PROVE  VersionsOK'
<1> SUFFICES ASSUME ~mixed'  PROVE VersionsOK'
  BY DEF VersionsOK
<1>1. CASE UNCHANGED vars \/ Tick
  BY <1>1 DEF VersionsOK, UsesStruct, vars, Tick, processVars, diskVars, faultVars
<1>2. ASSUME NEW p \in Processes, Start(p)  PROVE VersionsOK'
  <2>1. PICK v \in Versions \cup {"new"} :
           /\ version' = [version EXCEPT ![p] = v]
           /\ mixed' = (mixed \/ \E q \in Processes : pc[q] # "off" /\ version[q] # v)
    BY <1>2 DEF Start
  <2>2. ~mixed /\ \A q \in Processes : pc[q] # "off" => version[q] = v
    BY <2>1
  <2>3. /\ pc'[p] = "opening" /\ version'[p] = v
        /\ \A q \in Processes \ {p} : pc'[q] = pc[q] /\ version'[q] = version[q]
        /\ UNCHANGED <<ns, known, registry>>
    BY <1>2, <2>1 DEF Start, TypeOK, diskVars
  <2>4. QED  BY <2>2, <2>3 DEF VersionsOK, UsesStruct
<1>3. ASSUME NEW p \in Processes, Crash(p)  PROVE VersionsOK'
  <2>1. /\ pc'[p] = "off" /\ \A q \in Processes \ {p} : pc'[q] = pc[q]
        /\ UNCHANGED <<ns, known, registry, version, mixed>>
    BY <1>3 DEF Crash, TypeOK, diskVars
  <2>2. QED  BY <2>1 DEF VersionsOK, UsesStruct
<1>4. ASSUME NEW p \in Processes, Works(p)  PROVE VersionsOK'
  <2>1. /\ ns' = ns /\ version' = version /\ mixed' = mixed /\ pc[p] # "off"
        /\ \A q \in Processes \ {p} : pc'[q] = pc[q]
        /\ p \in DOMAIN pc /\ p \in DOMAIN known
    BY <1>4, WorksIs DEF Goto, TypeOK
  <2>2. \A q, r \in Processes :
           pc'[q] # "off" /\ pc'[r] # "off" => version'[q] = version'[r]
    BY <2>1 DEF VersionsOK
  <2>3. CASE ~UsesStruct
    BY <2>1, <2>2, <2>3 DEF VersionsOK, UsesStruct
  <2>4. CASE UsesStruct
    <3>0. StructWorks(p)
      BY <1>4, <2>4 DEF Works, UsesStruct, UsesJson, UsesKv, UsesText
    <3>1. /\ pc[p] # "opening" /\ known[p] = version[p] => registry = version[p]
          /\ pc[p] = "insert" => known[p] = version[p]
          /\ version[p] # "nobody"
          /\ \A q \in Processes : pc[q] # "off" => version[q] = version[p]
      BY <2>1, <2>4 DEF VersionsOK, TypeOK, Versions
    <3>2. SUFFICES
             /\ \A q \in Processes \ {p} :
                   known'[q] = known[q] /\ (registry' = registry \/ registry' = version[p])
             /\ pc'[p] \notin {"off", "opening"} /\ known'[p] = version[p] =>
                   registry' = version[p]
             /\ pc'[p] = "insert" => known'[p] = version[p]
      BY <2>1, <2>2, <2>4, <3>1 DEF VersionsOK, UsesStruct
    <3>3. CASE pc[p] = "opening" /\ StructOpen(p)
      BY <2>1, <3>1, <3>3 DEF StructOpen, Goto, diskVars
    <3>4. CASE pc[p] = "ready" /\ StructSet(p)
      BY <2>1, <3>1, <3>4 DEF StructSet, AfterSelect, Goto, diskVars
    <3>5. CASE pc[p] = "ready" /\ (LeavesCache(p) \/ \E typed \in BOOLEAN : StructGet(p, typed))
      BY <2>1, <3>1, <3>5 DEF LeavesCache, StructGet, Goto, diskVars
    <3>51. CASE Sweep(p) \/ \E typed \in BOOLEAN : Select(p, typed)
      BY <2>1, <3>1, <3>51 DEF Sweep, Select, Goto, diskVars
    <3>6. CASE DropTable(p) \/ CreateTable(p) \/ Insert(p)
      BY <2>1, <3>1, <3>6 DEF DropTable, CreateTable, Insert, Goto
    <3>7. CASE Register(p)
      BY <2>1, <3>1, <3>7 DEF Register, Goto
    <3>8. QED
      BY <3>0, <3>3, <3>4, <3>5, <3>51, <3>6, <3>7 DEF StructWorks, StructStep
  <2>5. QED  BY <2>3, <2>4
<1>5. QED  BY <1>1, <1>2, <1>3, <1>4, StepIs

LEMMA TableWorksKeeps ==
  ASSUME TypeOK, OneAtATime, TableOK, UsesStruct, NEW p \in Processes, StructWorks(p)
  PROVE  TableOK'
<1> SUFFICES ASSUME ~overlapped'  PROVE TableOK'
  BY DEF TableOK
<1>0. /\ \A q \in Processes \ {p} : ~Busy(q) /\ ~Busy(q)' /\ pc'[q] = pc[q]
      /\ ~overlapped /\ interrupted' = interrupted /\ version' = version
      /\ p \in DOMAIN pc /\ (\E step : Goto(p, step))
      /\ version[p] # "nobody"
  <2>1. PICK step : Goto(p, step)
    BY WorksIs DEF Works
  <2>2. QED  BY <2>1, GotoIs DEF Goto, TypeOK, Versions
<1>01. /\ pc[p] = "create" /\ registry # "nobody" => table = "nobody"
       /\ pc[p] \in Looked => table # "nobody"
       /\ ~interrupted =>
             /\ ~Busy(p) => table = registry
             /\ pc[p] \in {"drop", "insert"} \cup Looked => table = registry
             /\ pc[p] = "create" => table = "nobody"
             /\ pc[p] = "register" => table = version[p]
  BY <1>0 DEF TableOK
\* It is enough to look at the process that moves.
<1> SUFFICES
      /\ pc'[p] = "create" /\ registry' # "nobody" => table' = "nobody"
      /\ pc'[p] \in Looked => table' # "nobody"
      /\ ~interrupted =>
            /\ ~Busy(p)' => table' = registry'
            /\ pc'[p] \in {"drop", "insert"} \cup Looked => table' = registry'
            /\ pc'[p] = "create" => table' = "nobody"
            /\ pc'[p] = "register" => table' = version[p]
  BY <1>0 DEF TableOK, Looked, Busy, UsesStruct
<1>1. CASE pc[p] = "opening" /\ StructOpen(p)
  <2>1. table' = table /\ registry' = registry /\ (~interrupted => table = registry)
    BY <1>01, <1>1 DEF StructOpen, Busy, diskVars
  <2>2. CASE table # "nobody"
    BY <1>0, <1>1, <2>1, <2>2 DEF StructOpen, Looked, Goto, Busy
  <2>3. CASE table = "nobody"
    BY <1>0, <1>1, <2>1, <2>3 DEF StructOpen, Looked, Goto, Busy
  <2>4. QED  BY <2>2, <2>3
<1>2. CASE pc[p] = "ready" /\ StructSet(p)
  BY <1>0, <1>01, <1>2 DEF StructSet, AfterSelect, Looked, Goto, Busy, diskVars
<1>3. CASE pc[p] = "ready" /\ (LeavesCache(p) \/ \E typed \in BOOLEAN : StructGet(p, typed))
  BY <1>0, <1>01, <1>3 DEF LeavesCache, StructGet, Looked, Goto, Busy, diskVars
<1>31. CASE Sweep(p) \/ \E typed \in BOOLEAN : Select(p, typed)
  BY <1>0, <1>01, <1>31 DEF Sweep, Select, Looked, Goto, Busy, diskVars
<1>4. CASE DropTable(p)
  BY <1>0, <1>01, <1>4 DEF DropTable, Looked, Goto, Busy
<1>5. CASE CreateTable(p)
  BY <1>0, <1>01, <1>5 DEF CreateTable, Looked, Goto, Busy
<1>6. CASE Register(p) \/ Insert(p)
  BY <1>0, <1>01, <1>6 DEF Register, Insert, Looked, Goto, Busy
<1>7. QED
  BY <1>1, <1>2, <1>3, <1>31, <1>4, <1>5, <1>6 DEF StructWorks, StructStep

LEMMA TableKeeps ==
  ASSUME TypeOK, OneAtATime, TableOK, [Next]_vars
  PROVE  TableOK'
<1>1. CASE UNCHANGED vars \/ Tick
  BY <1>1 DEF TableOK, Busy, UsesStruct, Tick, vars, processVars, diskVars, faultVars
<1>2. ASSUME NEW p \in Processes, Start(p) \/ Crash(p)  PROVE TableOK'
  <2>1. /\ \A q \in Processes \ {p} : pc'[q] = pc[q] /\ version'[q] = version[q]
        /\ pc'[p] \in {"off", "opening"} /\ overlapped' = overlapped
        /\ interrupted' <=> (interrupted \/ Halfway(p))
        /\ UNCHANGED <<ns, table, registry>>
    <3>1. CASE Start(p)
      BY <3>1 DEF Start, TypeOK, Halfway, diskVars
    <3>2. CASE Crash(p)
      BY <3>2 DEF Crash, TypeOK, diskVars
    <3>3. QED  BY <1>2, <3>1, <3>2
  <2> SUFFICES ASSUME ~overlapped', UsesStruct'  PROVE TableOK'
    BY DEF TableOK
  <2>2. UsesStruct /\ ~overlapped
    BY <2>1 DEF UsesStruct
  <2>3. \A q \in Processes :
           /\ pc'[q] = "create" /\ registry' # "nobody" => table' = "nobody"
           /\ pc'[q] \in Looked => table' # "nobody"
    BY <2>1, <2>2 DEF TableOK, Looked
  <2>4. ASSUME ~interrupted'
        PROVE  /\ (\A q \in Processes : ~Busy(q)') => table' = registry'
               /\ \A q \in Processes :
                     /\ pc'[q] \in {"drop", "insert"} \cup Looked => table' = registry'
                     /\ pc'[q] = "create" => table' = "nobody"
                     /\ pc'[q] = "register" => table' = version'[q]
    <3>1. ~interrupted /\ ~Halfway(p) /\ \A q \in Processes \ {p} : Busy(q)' = Busy(q)
      BY <2>1, <2>4 DEF Busy
    <3>2. ASSUME \A q \in Processes : ~Busy(q)'  PROVE table = registry
      <4>1. CASE Busy(p)
        <5>1. pc[p] \in {"drop", "insert"} \cup Looked
          BY <2>2, <3>1, <4>1, StepsAre DEF Busy, Halfway, Looked
        <5>2. QED  BY <2>2, <3>1, <5>1 DEF TableOK
      <4>2. CASE ~Busy(p)
        <5>1. \A q \in Processes : ~Busy(q)
          BY <3>1, <3>2, <4>2
        <5>2. QED  BY <2>2, <3>1, <5>1 DEF TableOK
      <4>3. QED  BY <4>1, <4>2
    <3>3. ASSUME NEW q \in Processes
          PROVE  /\ pc'[q] \in {"drop", "insert"} \cup Looked => table' = registry'
                 /\ pc'[q] = "create" => table' = "nobody"
                 /\ pc'[q] = "register" => table' = version'[q]
      <4>1. CASE q = p
        BY <2>1, <4>1 DEF Looked
      <4>2. CASE q # p
        BY <2>1, <2>2, <3>1, <4>2 DEF TableOK
      <4>3. QED  BY <4>1, <4>2
    <3>4. QED  BY <2>1, <2>2, <3>1, <3>2, <3>3 DEF TableOK
  <2>5. QED  BY <2>3, <2>4 DEF TableOK
<1>3. ASSUME NEW p \in Processes, Works(p)  PROVE TableOK'
  <2>1. CASE UsesStruct
    BY <1>3, <2>1, TableWorksKeeps DEF Works, UsesText, UsesJson, UsesKv, UsesStruct
  <2>2. CASE ~UsesStruct
    BY <1>3, <2>2, WorksIs DEF Goto, TableOK, UsesStruct
  <2>3. QED  BY <2>1, <2>2
<1>4. QED  BY <1>1, <1>2, <1>3, StepIs

-----------------------------------------------------------------------------
(* Hits and failures.                                                      *)

LEMMA HitsKeep ==
  ASSUME TypeOK, OneAtATime, TextOK, HitsKeepPromise, [Next]_vars
  PROVE  HitsKeepPromise'
<1>1. (ns' = ns /\ answer' = answer /\ (Disturbed => Disturbed')) => HitsKeepPromise'
  BY DEF HitsKeepPromise, UsesText
<1>2. CASE UNCHANGED vars \/ Tick
  BY <1>1, <1>2 DEF Disturbed, Tick, vars, faultVars
<1>3. ASSUME NEW p \in Processes, Start(p) \/ Crash(p)  PROVE HitsKeepPromise'
  BY <1>1, <1>3 DEF Disturbed, Start, Crash
<1>4. ASSUME NEW p \in Processes, Works(p)  PROVE HitsKeepPromise'
  <2>0. PICK step : Goto(p, step)
    BY <1>4, WorksIs
  <2>1. /\ ns' = ns /\ interrupted' = interrupted
        /\ overlapped' = (overlapped \/ \E q \in Processes \ {p} : Busy(q))
    BY <2>0 DEF Goto
  <2>2. CASE UNCHANGED answer
    BY <1>1, <2>1, <2>2 DEF Disturbed
  <2>3. ASSUME NEW e, NEW typed, Hit(p, e, clock, typed), e \notin {Nothing, Torn},
               e.due >= clock, typed => Fits(e, p)
        PROVE  HitsKeepPromise'
    BY <2>3 DEF Hit, HitsKeepPromise
  <2>4. /\ clock \in Nat /\ memory[p] \in Entry \cup {Nothing}
        /\ content \in Entry \cup {Nothing, Torn}
        /\ \A e \in Entry : e.due \in Nat
    BY EntriesAre, CacheStoreAssumption DEF TypeOK
  <2>5. CASE UsesJson /\ JsonWorks(p)
    <3>1. CASE JsonGet(p) /\ JsonLive(memory[p]) /\ Hit(p, memory[p], clock, FALSE)
      BY <2>3, <2>4, <3>1, EntriesAre DEF JsonLive
    <3>2. CASE UNCHANGED answer
      BY <2>2, <3>2
    <3>3. QED
      BY <2>5, <3>1, <3>2 DEF JsonWorks, JsonOpen, JsonGet, JsonSet, JsonClose, JsonFlush, Miss
  <2>6. CASE UsesKv /\ KvWorks(p)
    <3>1. CASE KvGet(p) /\ RowFound /\ Hit(p, content, clock, FALSE)
      <4>1. content \in Entry
        BY <2>4, <3>1, EntriesAre DEF RowFound
      <4>2. content \notin {Nothing, Torn} /\ content.due >= clock
        BY <2>4, <3>1, <4>1, EntriesAre DEF RowFound
      <4>3. QED  BY <2>3, <3>1, <4>2
    <3>2. CASE UNCHANGED answer
      BY <2>2, <3>2
    <3>3. QED
      BY <2>6, <3>1, <3>2 DEF KvWorks, KvOpen, KvGet, KvSet, LeavesCache, Miss
  <2>7. CASE UsesStruct /\ StructWorks(p)
    <3>1. ASSUME NEW typed \in BOOLEAN, Select(p, typed), RowFound,
                 Deserializes(p, typed), Hit(p, content, clock, typed)
          PROVE  HitsKeepPromise'
      BY <2>3, <2>4, <3>1, EntriesAre DEF RowFound, Deserializes
    <3>2. CASE UNCHANGED answer
      BY <2>2, <3>2
    <3>3. QED
      BY <2>7, <3>1, <3>2 DEF StructWorks, StructStep, StructOpen, Sweep, StructGet, Select,
             StructSet, LeavesCache, DropTable, CreateTable, Register, Insert, Miss, Raise
  <2>8. CASE UsesText /\ TextWorks(p)
    <3>1. CASE ReadContent(p) /\ content # Nothing /\ Hit(p, content, clock, FALSE)
      <4> SUFFICES ASSUME ~Disturbed'  PROVE HitsKeepPromise'
        BY <2>1, <2>8 DEF HitsKeepPromise, UsesText
      <4>1. ~overlapped /\ ~interrupted
        BY <2>1 DEF Disturbed
      <4>2. Paired /\ sidecar >= clock
        BY <2>8, <3>1, <4>1 DEF TextOK, ReadContent, Readable
      <4>3. content \notin {Nothing, Torn} /\ content.due >= clock
        BY <3>1, <4>2, EntriesAre DEF Paired
      <4>4. QED  BY <2>3, <3>1, <4>3
    <3>2. CASE UNCHANGED answer
      BY <2>2, <3>2
    <3>3. QED
      BY <2>8, <3>1, <3>2 DEF TextWorks, TextStep, TextOpen, Collect, ContentExists, TextGet,
             TextSet, LeavesCache, UnlinkContent, UnlinkSidecar, ReadContent, WriteContent, TruncateSidecar,
             WriteSidecar, Miss, Raise
  <2>9. QED  BY <1>4, <2>5, <2>6, <2>7, <2>8 DEF Works
<1>5. QED  BY <1>2, <1>3, <1>4, StepIs

LEMMA FailuresAreKnown ==
  ASSUME IInv, [Next]_vars, broken', ~broken
  PROVE  overlapped \/ mixed \/ (interrupted /\ (Wedged \/ content = Torn))
<1> SUFFICES ASSUME ~overlapped, ~mixed
             PROVE  interrupted /\ (Wedged \/ content = Torn)
  OBVIOUS
<1>0. TypeOK /\ TextOK /\ VersionsOK /\ TableOK
  BY DEF IInv
<1>1. ~(UNCHANGED vars) /\ ~Tick
  BY DEF vars, Tick
<1>2. \A p \in Processes : ~Start(p) /\ ~Crash(p)
  BY DEF Start, Crash
<1>3. PICK p \in Processes : Works(p)
  BY <1>0, <1>1, <1>2, StepIs
<1>4. CASE UsesJson /\ JsonWorks(p)
  BY <1>4 DEF JsonWorks, JsonOpen, JsonGet, JsonSet, JsonClose, JsonFlush, Miss, Hit
<1>5. CASE UsesKv /\ KvWorks(p)
  BY <1>5 DEF KvWorks, KvOpen, KvGet, KvSet, LeavesCache, Miss, Hit
<1>6. CASE UsesStruct /\ StructWorks(p)
  <2>1. \/ CreateTable(p) /\ table # "nobody"
        \/ Insert(p) /\ CannotInsert(p)
        \/ pc[p] \in Looked /\ table = "nobody"
    BY <1>6 DEF StructWorks, StructStep, StructOpen, Sweep, Looked, StructGet, Select,
           StructSet, LeavesCache, DropTable, CreateTable, Register, Insert, Miss, Hit
  <2>2. CASE CreateTable(p) /\ table # "nobody"
    BY <1>0, <1>6, <2>2 DEF TableOK, CreateTable, Wedged
  <2>3. CASE Insert(p) /\ CannotInsert(p)
    <3>1. registry = version[p] /\ version[p] \in Versions
      BY <1>0, <1>6, <2>3 DEF VersionsOK, Insert, TypeOK
    <3>2. Wedged
      BY <2>3, <3>1 DEF CannotInsert, Wedged, Versions
    <3>3. QED
      BY <1>0, <1>6, <2>3, <3>2 DEF TableOK, Insert, Wedged
  <2>4. pc[p] \in Looked => table # "nobody"
    BY <1>0, <1>6 DEF TableOK
  <2>5. QED  BY <2>1, <2>2, <2>3, <2>4
<1>7. CASE UsesText /\ TextWorks(p)
  <2>1. pc[p] = "read" /\ content \in {Nothing, Torn}
    BY <1>7 DEF TextWorks, TextStep, TextOpen, Collect, ContentExists, TextGet, TextSet, LeavesCache,
           UnlinkContent, UnlinkSidecar, ReadContent, WriteContent, TruncateSidecar,
           WriteSidecar, Miss, Hit
  <2>2. content = Torn
    BY <1>0, <1>7, <2>1 DEF TextOK
  <2>3. ~interrupted => content \notin {Nothing, Torn}
    BY <1>0, <1>7, <2>1, EntriesAre DEF TextOK, Readable, Paired
  <2>4. QED  BY <2>2, <2>3
<1>8. QED  BY <1>3, <1>4, <1>5, <1>6, <1>7 DEF Works

-----------------------------------------------------------------------------
(* The theorems.                                                           *)

LEMMA CacheInit == Init => IInv
<1> SUFFICES ASSUME Init  PROVE IInv
  OBVIOUS
<1>1. TypeOK
  <2>1. pc \in [Processes -> Step]
    BY DEF Init, Step
  <2>2. 0 \in 0..MaxTime /\ NoFile \in NoFile..MaxTime + Ttl
    BY CacheStoreAssumption DEF NoFile
  <2>3. "new" \in Versions
    BY DEF Versions
  <2>4. QED  BY <2>1, <2>2, <2>3 DEF Init, TypeOK
<1>2. OneAtATime /\ TextOK /\ VersionsOK /\ TableOK
  BY DEF Init, OneAtATime, TextOK, VersionsOK, TableOK, Looked, Busy, Paired
<1>3. HitsKeepPromise
  BY DEF Init, HitsKeepPromise
<1>4. QED  BY <1>1, <1>2, <1>3 DEF IInv

LEMMA CacheStep == IInv /\ [Next]_vars => IInv'
  BY TypesKeep, BusyKeeps, TextKeeps, VersionsKeep, TableKeeps, HitsKeep DEF IInv

LEMMA CacheInvariant == Spec => []IInv
  BY CacheInit, CacheStep, PTL DEF Spec

\* The cache, on disk and in the processes, keeps its types (cache/cache.py and
\* the four backends).
THEOREM CacheTypeCorrect == Spec => []TypeOK
<1>1. IInv => TypeOK
  BY DEF IInv
<1>2. QED  BY <1>1, CacheInvariant, PTL

\* Whatever any number of processes do to an entry: a hit was stored whole, has
\* not expired, and fits the class it is read as; for the text files as long as
\* no operation overlapped another one and no set was cut off.
THEOREM HitsAreKept == Spec => []HitsKeepPromise
<1>1. IInv => HitsKeepPromise
  BY DEF IInv
<1>2. QED  BY <1>1, CacheInvariant, PTL

\* Undisturbed, a log on disk has its expiry beside it, also after a crash in the
\* middle of a garbage collection (TextFileBackend).
THEOREM LogsExpire == Spec => []LogsHaveExpiry
<1>1. ASSUME IInv, UsesText, content # Nothing, ~Disturbed,
             \A p \in Processes : ~Busy(p)
      PROVE  sidecar > Empty
  <2>1. content \in Entry /\ sidecar = content.due
    BY <1>1 DEF IInv, TextOK, Paired, Disturbed
  <2>2. QED
    BY <2>1, EntriesAre, CacheStoreAssumption DEF Empty
<1>2. IInv => LogsHaveExpiry
  BY <1>1 DEF LogsHaveExpiry
<1>3. QED  BY <1>2, CacheInvariant, PTL

\* An operation of the cache raises only when operations overlapped, versions
\* were mixed, or a crash has cut off a migration between its table and the
\* registry or a log inside a character.
THEOREM OnlyKnownFailuresOccur == Spec => OnlyKnownFailures
<1>1. IInv /\ [Next]_vars =>
         [broken' /\ ~broken =>
             overlapped \/ mixed \/ (interrupted /\ (Wedged \/ content = Torn))]_vars
  BY FailuresAreKnown
<1>2. QED  BY <1>1, CacheInvariant, PTL DEF Spec, OnlyKnownFailures
=============================================================================
