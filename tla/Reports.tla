------------------------------ MODULE Reports ------------------------------
(***************************************************************************)
(* What the reports make of the results of a scan: the statistics of       *)
(* core/src/reports/types.ts, the comparison of two scans (diff.ts), the   *)
(* SARIF and JUnit files, the HTML and Markdown files of cli/src/reports   *)
(* and the counts of the check and batch commands.  Each of them decides   *)
(* anew, from the same fields, what is a bypass.                           *)
(*                                                                         *)
(* A report is reduced to its counts and to the results it lists.          *)
(***************************************************************************)
EXTENDS Integers, Sequences, FiniteSets

\* AuditResultItem, as far as the reports tell results apart.  key: category,
\* method, technique and payload; ua, ip: a probe got through.
\* 2xx, 3xx and 4xx: the statuses that no report names.
Item == [key : STRING,
         status : {"200", "2xx", "3xx", "400", "403", "404", "406", "429", "4xx", "500",
                   "ERR", "BLOCKED"},
         blocked : BOOLEAN, verdict : {"blocked", "passed", "exposed"},
         note : {"none", "origin_blocked", "custom_block_page"},
         error : BOOLEAN, ua : BOOLEAN, ip : BOOLEAN]

BlockStatus == {"403", "406", "429", "BLOCKED"}

\* What a scan produces (evaluateWAFVerdict and the probes of a blocked item).  A
\* header or a marker in the body blocks at any status that an answer may have; a
\* request that is refused before it is sent is blocked, and an error too.
Produced(r) ==
  /\ r.verdict = "blocked" <=> r.blocked
  /\ r.status \in BlockStatus /\ ~r.blocked <=> r.note = "origin_blocked"
  /\ r.note = "origin_blocked" => r.status \in {"403", "406"}
  /\ r.note = "custom_block_page" => r.blocked /\ r.status \in {"200", "400"}
  /\ r.verdict = "exposed" => r.status \in {"200", "2xx"}
  /\ r.error <=> r.status \in {"ERR", "BLOCKED"}
  /\ r.status = "ERR" => ~r.blocked
  /\ r.ua \/ r.ip => r.blocked /\ r.status \in {"403", "406"}

Where(rs, P(_)) == {i \in DOMAIN rs : P(rs[i])}
Count(rs, Test(_)) == Cardinality({i \in DOMAIN rs : Test(rs[i])})

\* Math.round(part / total * 100)
Percent(part, total) == (200 * part + total) \div (2 * total)

-----------------------------------------------------------------------------
(* types.ts: calculateAuditStats                                           *)

StatBlocked(r) ==
  r.blocked \/ (r.note # "origin_blocked" /\ r.status \in {"403", "BLOCKED"})
StatBypassed(r) == ~r.blocked /\ r.note # "origin_blocked" /\ r.status = "200"
StatError(r)    == ~r.blocked /\ r.note # "origin_blocked" /\ r.status \in {"ERR", "500"}

Stats(rs) ==
  [total |-> Len(rs), blocked |-> Count(rs, StatBlocked), bypassed |-> Count(rs, StatBypassed),
   errors |-> Count(rs, StatError),
   score |-> IF rs = << >> THEN 100 ELSE Percent(Count(rs, StatBlocked), Len(rs))]

-----------------------------------------------------------------------------
(* diff.ts                                                                 *)

\* classifyScanStatus, for the items of a scan.
ScanStatus(r) ==
  IF r.error \/ r.note = "origin_blocked" THEN "inconclusive" ELSE r.verdict

\* The items by their keys; the last one of a key counts.
Keys(rs) == {rs[i].key : i \in DOMAIN rs}
Last(rs, key) ==
  rs[CHOOSE i \in DOMAIN rs : rs[i].key = key /\ \A j \in DOMAIN rs : rs[j].key = key => j <= i]

GotThrough == {"exposed", "passed"}

\* Mutant: a payload that now passes without a leak is no regression.
RegressedOnLeak(from, to) == from = "blocked" /\ to = "exposed"
Regressed(from, to) == from = "blocked" /\ to \in GotThrough
Improved(from, to)  == from \in GotThrough /\ to = "blocked"

\* diffScans
Diff(previous, current) ==
  LET both  == Keys(previous) \cap Keys(current)
      from(k) == ScanStatus(Last(previous, k))
      to(k)   == ScanStatus(Last(current, k))
  IN [regressions  |-> {k \in both : Regressed(from(k), to(k))},
      improvements |-> {k \in both : Improved(from(k), to(k))},
      unchanged    |-> {k \in both : from(k) = to(k)},
      other        |-> {k \in both : /\ from(k) # to(k)
                                     /\ ~Regressed(from(k), to(k)) /\ ~Improved(from(k), to(k))},
      added        |-> Keys(current) \ Keys(previous),
      removed      |-> Keys(previous) \ Keys(current)]

-----------------------------------------------------------------------------
(* Files.                                                                  *)

\* junit.ts: classify
JUnit(r) ==
  IF r.ua \/ r.ip THEN "failure"
  ELSE IF r.blocked THEN "pass"
  ELSE IF r.status = "200" THEN "failure"
  ELSE IF r.status \in {"ERR", "500"} \/ r.error THEN "error"
  ELSE "pass"

JUnitReport(rs) ==
  [tests |-> Len(rs), failures |-> Where(rs, LAMBDA r : JUnit(r) = "failure"),
   errors |-> Count(rs, LAMBDA r : JUnit(r) = "error")]

\* Mutant: the page of a block counts by its status.
SarifListsByStatus(r) == r.ip \/ r.ua \/ r.status = "200"
\* sarif.ts: the results a SARIF file lists.
SarifLists(r) == r.ip \/ r.ua \/ (~r.blocked /\ r.status = "200")

\* markdown.ts: the branches are tried in this order.
MdBlocked(r)  == r.note # "origin_blocked" /\ (r.blocked \/ r.status \in {"403", "BLOCKED"})
MdBypassed(r) == ~MdBlocked(r) /\ r.status = "200" /\ ~r.blocked
MdMissed(r)   == ~MdBlocked(r) /\ r.status = "404"
MdError(r)    == ~MdBlocked(r) /\ r.status \in {"ERR", "500"}

MarkdownReport(rs) ==
  [blocked |-> Count(rs, MdBlocked), bypassed |-> Count(rs, MdBypassed),
   misses |-> Count(rs, MdMissed), errors |-> Count(rs, MdError),
   other |-> Len(rs) - Count(rs, MdBlocked) - Count(rs, MdBypassed)
                     - Count(rs, MdMissed) - Count(rs, MdError),
   listed |-> Where(rs, LAMBDA r : r.status = "200" /\ ~r.blocked),
   missed |-> Where(rs, LAMBDA r : r.status = "404"),
   score  |-> IF rs = << >> THEN 100 ELSE Percent(Count(rs, MdBlocked), Len(rs))]

\* html.ts: the cards, and the rows its buttons leave in the table.
HtmlReport(rs) ==
  [blocked  |-> Count(rs, LAMBDA r : (r.status \in {"403", "BLOCKED"} \/ r.blocked)
                                     /\ r.note # "origin_blocked"),
   bypassed |-> Count(rs, LAMBDA r : r.status = "200" /\ ~r.blocked),
   errors   |-> Count(rs, LAMBDA r : r.status = "ERR" \/ r.error),
   rows     |-> [blocked  |-> Where(rs, LAMBDA r : r.status \in {"403", "BLOCKED"}),
                 bypassed |-> Where(rs, LAMBDA r : r.status = "200"),
                 errors   |-> Where(rs, LAMBDA r : r.status = "ERR" \/ r.error)]]

-----------------------------------------------------------------------------
(* The commands.                                                           *)

\* check: printed, and compared with --threshold.
Check(rs) ==
  LET blocked == Count(rs, LAMBDA r : (r.status \in {"403", "BLOCKED"} \/ r.blocked)
                                      /\ r.note # "origin_blocked")
  IN [blocked |-> blocked,
      bypassed |-> Where(rs, LAMBDA r : r.status = "200" /\ ~r.blocked),
      uaBypasses |-> Where(rs, LAMBDA r : r.ua), ipBypasses |-> Where(rs, LAMBDA r : r.ip),
      score |-> IF rs = << >> THEN 100 ELSE Percent(blocked, Len(rs))]

\* batch: the statuses alone, whatever the verdict.
Batch(rs) ==
  [total |-> Len(rs), blocked |-> Count(rs, LAMBDA r : r.status \in {"403", "BLOCKED"}),
   bypassed |-> Count(rs, LAMBDA r : r.status = "200")]

\* The results a pipeline fails on with --fail-on-bypass.
Bypasses(rs) == LET c == Check(rs) IN c.bypassed \cup c.uaBypasses \cup c.ipBypasses

-----------------------------------------------------------------------------
(* Properties, of every scan.                                              *)

\* The command, the statistics and three formats count the same, and the files
\* that fail a pipeline list exactly what --fail-on-bypass fails on
\* (README.md:220: "WAF bypasses are reported as failures").
SameCounts(rs) ==
  LET s == Stats(rs)  c == Check(rs)  m == MarkdownReport(rs)  h == HtmlReport(rs) IN
  /\ s.blocked = c.blocked /\ m.blocked = c.blocked /\ h.blocked = c.blocked
  /\ s.score = c.score /\ m.score = c.score
  /\ \A n \in {s.bypassed, m.bypassed, h.bypassed, Cardinality(m.listed)} :
       n = Cardinality(c.bypassed)
  /\ JUnitReport(rs).failures = Bypasses(rs) /\ Where(rs, SarifLists) = Bypasses(rs)
  /\ JUnitReport(rs).errors = s.errors

\* The batch command counts no fewer bypasses and no more blocks than the check
\* command; they differ only by blocks with a status other than 403, and by
\* refusals of the origin (index.ts:811-812, 521-522).
BatchIsNoKinder(rs) ==
  LET b == Batch(rs)  c == Check(rs)
      odd    == Count(rs, LAMBDA r : r.blocked /\ r.status \notin {"403", "BLOCKED"})
      origin == Count(rs, LAMBDA r : r.note = "origin_blocked" /\ r.status = "403")
  IN /\ b.bypassed >= Cardinality(c.bypassed)
     /\ b.blocked = c.blocked - odd + origin

\* Nothing is lost in a comparison, and going back undoes it.
DiffPartitions(previous, current) ==
  LET d == Diff(previous, current)  back == Diff(current, previous) IN
  /\ Cardinality(d.regressions) + Cardinality(d.improvements) + Cardinality(d.unchanged)
       + Cardinality(d.other) + Cardinality(d.added) = Cardinality(Keys(current))
  /\ d.regressions = back.improvements /\ d.added = back.removed
=============================================================================
