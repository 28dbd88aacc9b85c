----------------------------- MODULE PagedFetch -----------------------------
(***************************************************************************)
(* The listings of client.py: _get_page over the API response cache, the   *)
(* sequential reader _paginate, the concurrent reader _get_all, and the    *)
(* methods of GitLabClient that call them.                                 *)
(*                                                                         *)
(* One listing is followed: an entry of the cache belongs to one path, set *)
(* of parameters and page number (_cache_key), so other listings neither   *)
(* help nor hinder it.  A page holds one row (per_page rows in the code);  *)
(* rows are listed newest first.  One call is on its way at a time, and    *)
(* GitLab may add and remove rows between any two of its reads.            *)
(***************************************************************************)
EXTENDS Integers, FiniteSets

CONSTANTS
    MaxPages,    \* MAX_PAGES, 50 in the code
    Concurrency, \* MAX_CONCURRENT_PAGE_FETCHES, 5 in the code
    MaxRows,     \* bound: rows GitLab ever creates
    MaxCalls,    \* bound: listings asked for in a behaviour
    MaxChanges   \* bound: changes of the listing during one call

ASSUME PagedFetchAssumption ==
    /\ MaxPages \in Nat \ {0} /\ Concurrency \in Nat \ {0}
    /\ MaxRows \in Nat /\ MaxCalls \in Nat /\ MaxChanges \in Nat \ {0}

VARIABLES
    live,     \* GitLab: the ids of the rows of the listing
    apiCache, \* the rows stored for each page, while they have not expired
    kind,     \* which reader the call uses: "page", "iter" or "all"
    fresh,    \* the call's ttl is 0: the cache is neither read nor written
    stage,    \* where the call is
    want,     \* the page it reads next, one at a time
    waiting,  \* pages whose _fetch task waits for the semaphore
    inFlight, \* pages whose _fetch task awaits GitLab
    got,      \* the rows of each page the call has read
    hits,     \* observer: pages of the call that came from the cache
    calls,    \* observer: calls so far
    changes   \* observer: changes of the listing since the call began

cacheVars == <<live, apiCache>>
callVars == <<kind, fresh, stage, want, waiting, inFlight, got, hits>>
vars == <<cacheVars, callVars, calls, changes>>

Rows == 1..MaxRows
Running == {"reading", "gathering"}
\* fetch_jobs and fetch_pipelines name no page: GitLab answers with the first,
\* and the answer is stored under a key of its own.
NoPageNumber == 0
NoPages == [n \in {} |-> {}]
PagesRead == DOMAIN got

TypeOK ==
    /\ live \subseteq Rows
    /\ DOMAIN apiCache \subseteq Rows \cup {NoPageNumber, 1}
    /\ \A n \in DOMAIN apiCache : apiCache[n] \subseteq Rows
    /\ kind \in {"page", "iter", "all"} /\ fresh \in BOOLEAN
    /\ stage \in Running \cup {"done", "limit", "failed"}
    /\ want \in 0..MaxRows + 1
    /\ PagesRead \subseteq Rows \cup {NoPageNumber, 1}
    /\ waiting \subseteq 2..MaxPages /\ inFlight \subseteq 2..MaxPages
    /\ Cardinality(inFlight) <= Concurrency
    /\ hits \subseteq PagesRead
    /\ calls \in 0..MaxCalls /\ changes \in 0..MaxChanges

-----------------------------------------------------------------------------
(* One page.  GitLab leaves x-total-pages out of the answers to some large *)
(* listings: total is 0 then, None in the code.                            *)

PageCount == IF live = {} THEN 1 ELSE Cardinality(live)
RowsOn(n) == {r \in live : Cardinality({s \in live : s >= r}) = n}

\* Bug: the last page is not asked for.
PageFromShort(n, counted) ==
    [rows |-> RowsOn(n), next |-> IF n + 1 < PageCount THEN n + 1 ELSE 0,
     total |-> IF counted THEN PageCount ELSE 0]
\* Page.from_response: what the headers of an answer say of page n.
PageFrom(n, counted) ==
    [rows |-> RowsOn(n), next |-> IF n < PageCount THEN n + 1 ELSE 0,
     total |-> IF counted THEN PageCount ELSE 0]

Answer(n, counted) == PageFrom(IF n = NoPageNumber THEN 1 ELSE n, counted)

IsHit(n) == ~fresh /\ n \in DOMAIN apiCache

\* The rows were stored without their pagination.
CachedPage(n) == [rows |-> apiCache[n], next |-> 0, total |-> 1]

Stored(n, rows) ==
    [m \in DOMAIN apiCache \cup {n} |-> IF m = n THEN rows ELSE apiCache[m]]

\* _get_page(n) has page for its answer.
GetPage(n, page) ==
    /\ \/ IsHit(n) /\ page = CachedPage(n) /\ UNCHANGED apiCache
       \/ /\ ~IsHit(n)
          /\ \E counted \in BOOLEAN : page = Answer(n, counted)
          /\ apiCache' = IF fresh THEN apiCache ELSE Stored(n, page.rows)
    /\ got' = [m \in PagesRead \cup {n} |-> IF m = n THEN page.rows ELSE got[m]]
    /\ hits' = IF IsHit(n) THEN hits \cup {n} ELSE hits

Pages == {CachedPage(n) : n \in DOMAIN apiCache}
         \cup {Answer(n, c) : n \in NoPageNumber..PageCount + 1, c \in BOOLEAN}

-----------------------------------------------------------------------------
(* The calls.                                                              *)

Begin(how, isFresh) ==
    /\ stage \notin Running
    /\ calls < MaxCalls
    /\ calls' = calls + 1
    /\ kind' = how /\ fresh' = isFresh
    /\ stage' = "reading"
    /\ want' = IF how = "page" THEN NoPageNumber ELSE 1
    /\ got' = NoPages /\ hits' = {} /\ changes' = 0
    /\ UNCHANGED <<cacheVars, waiting, inFlight>>

fetch_jobs == Begin("page", FALSE)
fetch_pipelines == \E isFresh \in BOOLEAN : Begin("page", isFresh)
iter_jobs == \E isFresh \in BOOLEAN : Begin("iter", isFresh)
iter_pipelines == Begin("iter", FALSE)
get_all_jobs == \E isFresh \in BOOLEAN : Begin("all", isFresh)
get_all_pipelines == Begin("all", FALSE)
get_job_attempts == Begin("all", TRUE)

\* Bug: one page more is read than MAX_PAGES.
PastLimitByOne(pagesFetched) == pagesFetched > MaxPages
\* Pages read so far; there is a next one.
PastLimit(pagesFetched) == pagesFetched >= MaxPages

\* _paginate, and _get_all where it does not know the number of pages.
ReadOn(page) ==
    /\ want' = page.next
    /\ stage' = IF page.next = 0 THEN "done"
                ELSE IF PastLimit(Cardinality(PagesRead \cup {want})) THEN "limit"
                ELSE "reading"
    /\ UNCHANGED waiting

\* Bug: 50 pages are refused.
TooManyPagesAtLimit(total) == total >= MaxPages
TooManyPages(total) == total > MaxPages

\* _get_all has page 1 and knows how many there are.
FanOut(page) ==
    /\ want' = 0
    /\ IF TooManyPages(page.total)
       THEN stage' = "limit" /\ UNCHANGED waiting
       ELSE stage' = "gathering" /\ waiting' = 2..page.total

ReadPage ==
    /\ stage = "reading"
    /\ \E page \in Pages :
          /\ GetPage(want, page)
          /\ \/ kind = "page" /\ stage' = "done" /\ want' = 0 /\ UNCHANGED waiting
             \/ kind = "all" /\ want = 1 /\ page.next # 0 /\ page.total # 0
                /\ FanOut(page)
             \/ kind = "all" /\ (want # 1 \/ page.next = 0 \/ page.total = 0)
                /\ ReadOn(page)
             \/ kind = "iter" /\ ReadOn(page)
    /\ UNCHANGED <<live, kind, fresh, inFlight, calls, changes>>

\* Bug: one more task than the semaphore allows.
OneSlotMore == Cardinality(inFlight) <= Concurrency
SlotFree == Cardinality(inFlight) < Concurrency

\* _fetch(n) gets the semaphore: a cached page is there at once, otherwise
\* GitLab is asked.  The semaphore wakes its waiters in order.
Acquire(n) ==
    /\ n \in waiting
    /\ \A m \in waiting : n <= m
    /\ SlotFree
    /\ waiting' = waiting \ {n}
    /\ \/ IsHit(n) /\ GetPage(n, CachedPage(n)) /\ UNCHANGED inFlight
       \/ ~IsHit(n) /\ inFlight' = inFlight \cup {n} /\ UNCHANGED <<apiCache, got, hits>>
    /\ UNCHANGED <<live, kind, fresh, stage, want, calls, changes>>

\* The answer to _fetch(n).  Its next page and its total are not looked at.
Fetched(n) ==
    /\ n \in inFlight
    /\ inFlight' = inFlight \ {n}
    /\ got' = [m \in PagesRead \cup {n} |-> IF m = n THEN RowsOn(n) ELSE got[m]]
    /\ apiCache' = IF fresh THEN apiCache ELSE Stored(n, RowsOn(n))
    /\ UNCHANGED <<live, kind, fresh, stage, want, waiting, hits, calls, changes>>

Gathered ==
    /\ stage = "gathering" /\ waiting = {} /\ inFlight = {}
    /\ stage' = "done"
    /\ UNCHANGED <<cacheVars, kind, fresh, want, waiting, inFlight, got, hits, calls, changes>>

\* A read raises: alone, or as one of several, which are then cancelled.
ReadFails ==
    /\ \/ stage = "reading" /\ ~IsHit(want)
       \/ stage = "gathering" /\ inFlight # {}
    /\ stage' = "failed" /\ want' = 0
    /\ waiting' = {} /\ inFlight' = {}
    /\ UNCHANGED <<cacheVars, kind, fresh, got, hits, calls, changes>>

-----------------------------------------------------------------------------
(* The environment.                                                        *)

\* A new record, or one that a retry has superseded.
ListingChanges ==
    /\ IF stage \in Running THEN changes < MaxChanges /\ changes' = changes + 1
       ELSE changes' = MaxChanges
    /\ \/ \E r \in Rows : (\A s \in live : s < r) /\ live' = live \cup {r}
       \/ \E r \in live : live' = live \ {r}
    /\ UNCHANGED <<apiCache, callVars, calls>>

\* The TTL of an entry is over; fifteen seconds are short beside a slow read.
Expire(n) ==
    /\ apiCache' = [m \in DOMAIN apiCache \ {n} |-> apiCache[m]]
    /\ UNCHANGED <<live, callVars, calls, changes>>

Init ==
    /\ \E k \in 0..MaxRows : live = 1..k
    /\ apiCache = NoPages
    /\ kind = "page" /\ fresh = FALSE /\ stage = "done" /\ want = 0
    /\ waiting = {} /\ inFlight = {} /\ got = NoPages /\ hits = {}
    /\ calls = 0 /\ changes = 0

Next ==
    \/ fetch_jobs \/ fetch_pipelines \/ iter_jobs \/ iter_pipelines
    \/ get_all_jobs \/ get_all_pipelines \/ get_job_attempts
    \/ ReadPage
    \/ \E n \in waiting : Acquire(n)
    \/ \E n \in inFlight : Fetched(n)
    \/ Gathered
    \/ ReadFails
    \/ ListingChanges
    \/ \E n \in DOMAIN apiCache : Expire(n)

Spec == Init /\ [][Next]_vars

-----------------------------------------------------------------------------
(* Properties.                                                             *)

Steady == stage = "done" /\ kind # "page" /\ changes = 0
Whole == PagesRead = 1..PageCount /\ \A n \in PagesRead : got[n] = RowsOn(n)

\* A listing of several pages, read while it did not change and without a page
\* from the cache, has every row once.  One that ends before the last page
\* ends at a page from the cache, so a fresh one never does (_get_page,
\* _paginate, _get_all).
ListingIsWhole ==
    Steady =>
        /\ hits = {} => Whole
        /\ PagesRead # 1..PageCount =>
              \E last \in hits : \A n \in PagesRead : n <= last

\* All three readers draw the line between MAX_PAGES pages, which they read,
\* and one page more, which they refuse (_paginate, _get_all).
LimitHolds ==
    /\ stage = "done" => Cardinality(PagesRead) <= MaxPages
    /\ stage = "limit" /\ changes = 0 => PageCount > MaxPages

\* core/jobs.py list_jobs: "scope=None fetches ALL jobs."
ListsAllRows ==
    Steady =>
        \A r \in live : \E n \in PagesRead : r \in got[n]
=============================================================================
