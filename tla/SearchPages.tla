---------------------------- MODULE SearchPages ----------------------------
(***************************************************************************)
(* Browsing the results of a search page by page: handleSearch (app.go),   *)
(* SearchPage (catalog.go) and the cache of pages behind it                *)
(* (search_cache.go), which requests share under its mutex.  A result is a *)
(* number: the n-th match of a query in the order asked for, which is      *)
(* taken to be total (no ORDER BY of catalog.go:353-375 ends in a unique   *)
(* column, and SQLite need not order equal rows alike in two statements).  *)
(* A query stands for the text, the category and the order together.       *)
(***************************************************************************)
EXTENDS Naturals, Sequences, FiniteSets, SequencesExt

CONSTANTS
  Readers,       \* clients, each with one request at a time
  Queries,
  TotalOf,       \* how many matches each query has
  Limits,        \* page sizes a client may ask for
  MaxLimit,      \* the handler's 100
  MaxOffset,     \* its 1000000
  MaxEntries,    \* maxCachedSearchPages
  MaxBytes       \* maxSearchPageCache

ASSUME PagesAssumption ==
  /\ TotalOf \in [Queries -> Nat]
  /\ Limits \subseteq Nat
  /\ MaxLimit \in Nat \ {0}
  /\ MaxOffset \in Nat
  /\ MaxEntries \in Nat \ {0}
  /\ MaxBytes \in Nat

VARIABLES
  order,    \* the cached pages, most recently used first
  bytes,    \* what the cache believes they take
  query,    \* what each reader asks for
  limit,
  offset,
  rpc,      \* where its request is
  seen,     \* history: the results it was shown
  twice,    \* history: some result was shown twice
  recent    \* history: <<k, l>> if both keys are in the cache and l was used after k

pagesVars == <<order, bytes, query, limit, offset, rpc, seen, twice, recent>>

Clamp(n, low, high) == IF n < low THEN low ELSE IF n > high THEN high ELSE n
Lesser(m, n) == IF m < n THEN m ELSE n

\* A request as handleSearch passes it on; the limits that SearchPage applies
\* to it once more are wider.
Request(r) == [query |-> query[r], limit |-> Clamp(limit[r], 1, MaxLimit),
               offset |-> Clamp(offset[r], 0, MaxOffset)]

\* The two statements of SearchPage.
PageOf(request) ==
  [key |-> request, total |-> TotalOf[request.query],
   items |-> (request.offset + 1) .. Lesser(request.offset + request.limit, TotalOf[request.query])]

\* searchPageSize: so much for the page and so much for each row.
SizeOf(page) == 1 + Cardinality(page.items)

\* The sizes of the first pages together, for any number of them, and of all.
SizesUpTo(pages) ==
  LET sum[n \in 0..Len(pages)] == IF n = 0 THEN 0 ELSE sum[n - 1] + SizeOf(pages[n])
  IN  sum
SizesOf(pages) == SizesUpTo(pages)[Len(pages)]

KeysOf(pages) == {pages[i].key : i \in DOMAIN pages}
Position(pages, key) == CHOOSE i \in DOMAIN pages : pages[i].key = key

\* The list without the entry of that key, if there is one.
Others(pages, key) ==
  IF key \in KeysOf(pages) THEN RemoveAt(pages, Position(pages, key)) ELSE pages

PagesInit ==
  /\ order = <<>>
  /\ bytes = 0
  /\ query = [r \in Readers |-> CHOOSE q \in Queries : TRUE]
  /\ limit = [r \in Readers |-> MaxLimit]
  /\ offset = [r \in Readers |-> 0]
  /\ rpc = [r \in Readers |-> "idle"]
  /\ seen = [r \in Readers |-> {}]
  /\ twice = FALSE
  /\ recent = {}

-----------------------------------------------------------------------------
(* The cache.                                                              *)

\* Wrong: a hit does not make the page the most recently used one.
MoveToFrontWrong(key) == order' = order

\* get
MoveToFront(key) == order' = <<order[Position(order, key)]>> \o Others(order, key)

\* Wrong: an entry that replaces itself is taken off the list, not off the count.
WithoutWrong(key) == [pages |-> Others(order, key), bytes |-> bytes]

\* remove, of an entry of that key if there is one
Without(key) ==
  [pages |-> Others(order, key),
   bytes |-> IF key \in KeysOf(order) THEN bytes - SizeOf(order[Position(order, key)]) ELSE bytes]

\* With the first n pages kept, both limits leave room for one more.
Room(pages, held, page, n) ==
  /\ n < MaxEntries
  /\ held - SizesOf(SubSeq(pages, n + 1, Len(pages))) + SizeOf(page) <= MaxBytes

\* put: pages go from the end of the list until there is room, or none is left.
Put(page) ==
  IF SizeOf(page) > MaxBytes
  THEN UNCHANGED <<order, bytes>>
  ELSE LET cache == Without(page.key)
           enough == {n \in 0..Len(cache.pages) : Room(cache.pages, cache.bytes, page, n)}
       IN  \E kept \in enough \cup {0} :
             /\ \A n \in enough : n <= kept
             /\ order' = <<page>> \o SubSeq(cache.pages, 1, kept)
             /\ bytes' = cache.bytes - SizesOf(SubSeq(cache.pages, kept + 1, Len(cache.pages)))
                         + SizeOf(page)

\* The history: the key is used, and evicted keys are forgotten.
Used(key) ==
  recent' = {u \in KeysOf(order') \X KeysOf(order') :
               u[1] # key /\ (u[2] = key \/ u \in recent)}

-----------------------------------------------------------------------------
(* A reader.                                                               *)

\* Wrong: the next page starts one result too far on.
NextOffsetWrong(page) == page.key.offset + page.key.limit + 1

HasMore(page) == page.key.offset + Cardinality(page.items) < page.total
NextOffset(page) == page.key.offset + Cardinality(page.items)

\* The reader follows nextOffset while the answer says that there is more.
Shown(r, page) ==
  /\ seen' = [seen EXCEPT ![r] = @ \cup page.items]
  /\ twice' = (twice \/ (TotalOf[query[r]] <= MaxOffset /\ seen[r] \cap page.items # {}))
  /\ offset' = [offset EXCEPT ![r] = IF HasMore(page) THEN NextOffset(page) ELSE @]
  /\ rpc' = [rpc EXCEPT ![r] = IF HasMore(page) THEN "browsing" ELSE "ended"]
  /\ UNCHANGED <<query, limit>>

StartBrowsing(r, q, n) ==
  /\ rpc[r] = "idle"
  /\ query' = [query EXCEPT ![r] = q]
  /\ limit' = [limit EXCEPT ![r] = n]
  /\ rpc' = [rpc EXCEPT ![r] = "browsing"]
  /\ UNCHANGED <<order, bytes, offset, seen, twice, recent>>

CacheHit(r) ==
  /\ rpc[r] = "browsing"
  /\ Request(r) \in KeysOf(order)
  /\ MoveToFront(Request(r))
  /\ Used(Request(r))
  /\ Shown(r, order[Position(order, Request(r))])
  /\ UNCHANGED bytes

CacheMiss(r) ==
  /\ rpc[r] = "browsing"
  /\ Request(r) \notin KeysOf(order)
  /\ rpc' = [rpc EXCEPT ![r] = "querying"]
  /\ UNCHANGED <<order, bytes, query, limit, offset, seen, twice, recent>>

\* Another request may have put the same page in the meantime.
QueryAnswers(r) ==
  /\ rpc[r] = "querying"
  /\ Put(PageOf(Request(r)))
  /\ Used(Request(r))
  /\ Shown(r, PageOf(Request(r)))

\* The last page was shown, a query failed, or the client has seen enough.
StopBrowsing(r) ==
  /\ rpc[r] # "idle"
  /\ rpc' = [rpc EXCEPT ![r] = "idle"]
  /\ offset' = [offset EXCEPT ![r] = 0]
  /\ seen' = [seen EXCEPT ![r] = {}]
  /\ UNCHANGED <<order, bytes, query, limit, twice, recent>>

PagesNext ==
  \E r \in Readers :
    \/ \E q \in Queries, n \in Limits : StartBrowsing(r, q, n)
    \/ CacheHit(r) \/ CacheMiss(r) \/ QueryAnswers(r) \/ StopBrowsing(r)

PagesSpec == PagesInit /\ [][PagesNext]_pagesVars
-----------------------------------------------------------------------------
\* The cached pages, counted one by one, keep both limits, one per key, and the
\* running count of their size is exact after any mix of hits, replacements of
\* an entry by itself, evictions and pages too large to keep.
CacheBounded ==
  /\ Len(order) <= MaxEntries
  /\ IsInjective([i \in DOMAIN order |-> order[i].key])
  /\ SizesOf(order) = bytes
  /\ bytes <= MaxBytes

\* A page leaves the cache only if all that stay were used more recently, and
\* only if it, the pages used more recently, and the new one exceed a limit.
EvictsOldestOnly ==
  [][\A n \in 1..Len(order) :
       order[n].key \notin KeysOf(order') =>
         LET new == Head(order')
             newer == Others(SubSeq(order, 1, n), new.key)
         IN  /\ \A stays \in (KeysOf(order') \cap KeysOf(order)) \ {new.key} :
                  <<order[n].key, stays>> \in recent
             /\ Len(newer) = MaxEntries \/ SizesOf(newer) + SizeOf(new) > MaxBytes]_pagesVars

\* A client that follows nextOffset to the end has seen every match of its
\* query, and none twice, wherever the pages came from and whatever limit it
\* and others asked for; unless the matches reach beyond the largest offset.
BrowsingIsComplete ==
  /\ ~twice
  /\ \A r \in Readers : rpc[r] = "ended" => seen[r] = 1..TotalOf[query[r]]
=============================================================================
