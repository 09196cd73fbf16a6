------------------------------- MODULE Paging -------------------------------
(***************************************************************************)
(* A scan in pages.  handleApiCheckWithEnvelope (core/src/check.ts) plans  *)
(* the whole scan anew for every page and runs one slice of it; how many   *)
(* variations each payload expands into is cached in the isolate.  Two     *)
(* kinds of client follow the pages: the browser (fetchResults, main.js),  *)
(* until a page is empty, and clients of /api/audit (api.ts), while        *)
(* hasMore is true.                                                        *)
(*                                                                         *)
(* An item stands for one attack: a payload, a variation of it and a       *)
(* method.  Sending it is not modelled here.                               *)
(***************************************************************************)
EXTENDS Integers, Sequences, SequencesExt

CONSTANTS Payloads,  \* the payload list, in order: records [kind, count], with
                     \* count[o][w] variations under options o and WAF type w
          Methods,   \* METHODS.length
          Requested, \* options.pageSize
          Budget,    \* maxWorkerPageSize
          Options,   \* the other options that shape the plan
          Wafs,      \* WAF types
          None,      \* no WAF type, '' or undefined
          CacheSize  \* PARAM_VARIATION_COUNT_CACHE_SIZE

Types == Wafs \cup {None}

ASSUME PagingAssumption ==
  /\ Methods \in Nat \ {0} /\ Requested \in Nat \ {0} /\ Budget \in Nat \ {0}
  /\ CacheSize \in Nat \ {0}
  /\ None \notin Wafs
  /\ Payloads \in Seq([kind : {"ParamCheck", "FileCheck", "Header"},
                       count : [Options -> [Types -> Nat \ {0}]]])

VARIABLES cache,    \* paramVariationCountCache: entries [key, counts], oldest first
          client,   \* who pages: "ui" or "audit"
          phase,    \* "idle", "page" while pages are followed, and how that ended
          opt,      \* the options of the scan
          known,    \* the WAF type the client sends along
          auto,     \* whether the client asks the server to detect
          page,     \* the page to ask for next
          results,  \* what the client has gathered
          answer    \* the latest page: [type, page, items, total, hasMore]

session == <<client, phase, opt, known, auto, page, results, answer>>
vars    == <<cache, session>>

NoAnswer == [type |-> None, page |-> 0, items |-> << >>, total |-> 0, hasMore |-> FALSE]

Init ==
  /\ cache = << >>
  /\ client = "ui" /\ phase = "idle"
  /\ opt \in Options
  /\ known = None /\ auto = FALSE
  /\ page = 0 /\ results = << >> /\ answer = NoAnswer

-----------------------------------------------------------------------------
(* The plan.                                                               *)

\* FileCheck payloads are always fetched with one GET.
MethodsOf(k) == IF Payloads[k].kind = "FileCheck" THEN 1 ELSE Methods

\* Only ParamCheck payloads have variations.
VariationsOf(k, o, w) ==
  IF Payloads[k].kind = "ParamCheck" THEN Payloads[k].count[o][w] ELSE 1

\* The first variation is the payload itself, whatever the WAF.
Item(k, o, w, v, m) ==
  [payload |-> k, variation |-> v, method |-> m,
   plan |-> IF v = 1 THEN None ELSE <<o, w>>]

\* The items of one payload: for each variation, for each method.
ItemsOf(k, o, w) ==
  [j \in 1 .. VariationsOf(k, o, w) * MethodsOf(k) |->
     Item(k, o, w, ((j - 1) \div MethodsOf(k)) + 1, ((j - 1) % MethodsOf(k)) + 1)]

-----------------------------------------------------------------------------
(* The cache of variation counts.                                          *)

\* Mutant: the key leaves out the WAF type.
PlanKeyNoType(o, w) == o

\* planKey
PlanKey(o, w) == <<o, w>>

Cached(o, w) == {e \in ToSet(cache) : e.key = PlanKey(o, w)}

Counted(o, w) == [k \in DOMAIN Payloads |-> VariationsOf(k, o, w)]

\* variationCounts: from the cache, or counted now.
Counts(o, w) ==
  IF Cached(o, w) = {} THEN Counted(o, w)
                       ELSE (CHOOSE e \in Cached(o, w) : TRUE).counts

\* Mutant: nothing is evicted.
EvictNothing(c) == c

\* A full cache loses its oldest entry.
Evict(c) == IF Len(c) >= CacheSize THEN Tail(c) ELSE c

\* rememberVariationCounts
Remember(o, w) ==
  cache' = IF Cached(o, w) = {}
             THEN Append(Evict(cache), [key |-> PlanKey(o, w), counts |-> Counted(o, w)])
             ELSE cache

-----------------------------------------------------------------------------
(* One page.                                                               *)

Limit == IF Requested < Budget THEN Requested ELSE Budget

\* Mutant: the start of a page is counted in pages of the requested size.
StartRequested(p) == p * Requested

\* start
Start(p) == p * Limit

\* What the page from start gets of the n items that begin at offset.
Clip(items, offset, start) ==
  SubSeq(items, IF start > offset THEN start - offset + 1 ELSE 1,
                IF start + Limit - offset < Len(items)
                  THEN start + Limit - offset ELSE Len(items))

\* The payload lies entirely before the page.
BeforePage(offset, n, start) == offset + n <= start

\* A ParamCheck payload before the page is skipped by its count, without its
\* variations.
Skipped(k, offset, counts, start) ==
  /\ Payloads[k].kind = "ParamCheck"
  /\ BeforePage(offset, counts[k] * MethodsOf(k), start)

\* offset when the loop has passed the first k payloads.
Offsets(o, w, counts, start) ==
  LET passed[k \in 0 .. Len(Payloads)] ==
        IF k = 0 THEN 0
        ELSE passed[k - 1] +
               (IF Skipped(k, passed[k - 1], counts, start)
                  THEN counts[k] * MethodsOf(k) ELSE Len(ItemsOf(k, o, w)))
  IN passed

\* pageTasks
Tasks(o, w, counts, start) ==
  LET passed == Offsets(o, w, counts, start)
  IN FlattenSeq([k \in DOMAIN Payloads |->
       IF Skipped(k, passed[k - 1], counts, start)
         THEN << >> ELSE Clip(ItemsOf(k, o, w), passed[k - 1], start)])

\* totalItems
Total(counts) ==
  LET sum[k \in 0 .. Len(Payloads)] ==
        IF k = 0 THEN 0 ELSE sum[k - 1] + counts[k] * MethodsOf(k)
  IN sum[Len(Payloads)]

\* stoppedEarly || end < totalItems; the loop stops early at an item beyond end.
HasMore(end, total, reached) == reached > end \/ end < total

\* The answer for page p under WAF type w.
Envelope(p, o, w) ==
  LET counts  == Counts(o, w)
      start   == Start(p)
      reached == Offsets(o, w, counts, start)[Len(Payloads)]
  IN [type |-> w, page |-> p, items |-> Tasks(o, w, counts, start),
      total |-> Total(counts),
      hasMore |-> HasMore(start + Limit, Total(counts), reached)]

\* What detection may find during the scan: the probes of one request may fail
\* where those of another did not.
Detected == Types

\* The WAF types a request for a page may be planned for.
PlannedFor == IF known # None THEN {known} ELSE IF auto THEN Detected ELSE {None}

Serve(w) ==
  /\ phase = "page"
  /\ w \in PlannedFor
  /\ answer' = Envelope(page, opt, w)
  /\ Remember(opt, w)

-----------------------------------------------------------------------------
(* The clients.                                                            *)

Begin(who, o, w, detect) ==
  /\ phase # "page"
  /\ client' = who /\ opt' = o
  /\ known' = w /\ auto' = detect
  /\ phase' = "page"
  /\ page' = 0 /\ results' = << >> /\ answer' = NoAnswer
  /\ UNCHANGED cache

\* The browser keeps the type it finds up front, or the one of an earlier scan
\* of its window.  It asks the server to detect only if its own request for a
\* detection failed.
UiBegin(o, w, detect) == Begin("ui", o, w, detect) /\ (detect => w = None)

\* The first request of an audit leaves out detectedWAF.
AuditBegin(o) == Begin("audit", o, None, TRUE)

\* A page with results is added; an empty page ends the loop.
UiPage(w) ==
  /\ client = "ui"
  /\ Serve(w)
  /\ results' = results \o answer'.items
  /\ IF answer'.items = << >>
       THEN phase' = "complete" /\ UNCHANGED page
       ELSE page' = page + 1 /\ UNCHANGED phase
  /\ UNCHANGED <<client, opt, known, auto>>

\* Mutant: after a failure the scan starts over.
UiPageRetried ==
  /\ client = "ui" /\ phase = "page"
  /\ page' = 0 /\ results' = << >> /\ answer' = NoAnswer
  /\ UNCHANGED <<cache, client, phase, opt, known, auto>>

\* The request fails, or its answer is an error: the loop ends with what there
\* is.
UiPageFails ==
  /\ client = "ui" /\ phase = "page"
  /\ phase' = "partial"
  /\ UNCHANGED <<cache, client, opt, known, auto, page, results, answer>>

\* The user cancels, or the tab is closed.
UiCancel ==
  /\ client = "ui" /\ phase = "page"
  /\ phase' = "cancelled"
  /\ UNCHANGED <<cache, client, opt, known, auto, page, results, answer>>

\* Mutant: the type found on the first page is not sent back.
AuditKeepsDetecting(w) == known' = None /\ auto' = TRUE

\* detectedWAF of the answer goes into the next request; '' also stops detection.
AuditSendsBack(w) == known' = w /\ auto' = FALSE

AuditPage(w) ==
  /\ client = "audit"
  /\ Serve(w)
  /\ results' = results \o answer'.items
  /\ IF answer'.hasMore
       THEN page' = page + 1 /\ UNCHANGED phase
       ELSE phase' = "complete" /\ UNCHANGED page
  /\ AuditSendsBack(w)
  /\ UNCHANGED <<client, opt>>

\* The client of an audit gives up.
AuditStops ==
  /\ client = "audit" /\ phase = "page"
  /\ phase' = "cancelled"
  /\ UNCHANGED <<cache, client, opt, known, auto, page, results, answer>>

-----------------------------------------------------------------------------
(* The isolate.                                                            *)

\* Other scans are served by the same isolate.
OtherScan(o, w) ==
  /\ Cached(o, w) = {}
  /\ Remember(o, w)
  /\ UNCHANGED session

\* The next page is served by a new isolate.
NewIsolate ==
  /\ cache # << >>
  /\ cache' = << >>
  /\ UNCHANGED session

-----------------------------------------------------------------------------
(* The specification.                                                      *)

Paged == \E w \in Types : UiPage(w) \/ AuditPage(w)
Ended == UiPageFails \/ UiCancel \/ AuditStops

Next ==
  \/ \E o \in Options :
       \/ AuditBegin(o)
       \/ \E w \in Types, detect \in BOOLEAN : UiBegin(o, w, detect)
  \/ Paged \/ Ended
  \/ \E o \in Options, w \in Types : OtherScan(o, w)
  \/ NewIsolate

\* A request is answered or fails in the end.
FairSpec == Init /\ [][Next]_vars /\ WF_session(Paged \/ Ended)

-----------------------------------------------------------------------------
(* Properties.                                                             *)

\* The reference: all items of a scan, in order.
Plan(o, w) == FlattenSeq([k \in DOMAIN Payloads |-> ItemsOf(k, o, w)])

TypeOK ==
  /\ Len(cache) <= CacheSize
  /\ client \in {"ui", "audit"}
  /\ phase \in {"idle", "page", "complete", "partial", "cancelled"}
  /\ opt \in Options /\ known \in Types /\ auto \in BOOLEAN
  /\ page \in Nat /\ answer.type \in Types

\* Whatever the cache holds and whoever filled it, the answer for a page is
\* that slice of the plan, with the plan's size and the right hasMore
\* (check.ts:1011-1013, "so the reported total counts exactly the requests").
PagesAreSlices ==
  answer # NoAnswer =>
    LET plan == Plan(opt, answer.type)
        end  == (answer.page + 1) * Limit
    IN /\ answer.items = SubSeq(plan, answer.page * Limit + 1,
                                IF end < Len(plan) THEN end ELSE Len(plan))
       /\ answer.total = Len(plan)
       /\ answer.hasMore <=> end < Len(plan)

\* The client has the type of all its pages, or nothing yet.
Redetects == auto /\ known = None

\* A client that does not ask for detection again has, at every moment, the
\* beginning of one plan, and the whole of it when the pages end: no item is
\* lost or repeated at a page boundary (README.md:422: passing detectedWAF back
\* "keeps page boundaries stable").
OnePlanInOrder ==
  phase # "idle" /\ ~Redetects =>
    /\ IsPrefix(results, Plan(opt, known))
    /\ phase = "complete" => results = Plan(opt, known)

\* An audit that ends by itself has covered one plan, although its client knew
\* no type at first.
AuditIsComplete ==
  client = "audit" /\ phase = "complete" =>
    \E w \in Types : results = Plan(opt, w)

\* Following the pages ends, also when every page is planned for another type.
PagingEnds == phase = "page" ~> phase # "page"
=============================================================================
