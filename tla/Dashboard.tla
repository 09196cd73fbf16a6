----------------------------- MODULE Dashboard -----------------------------
(***************************************************************************)
(* What static/main.js makes of the results of a scan: the coloured table  *)
(* with its filters, the summary bars, the highlighted categories, the     *)
(* scores of the categories and the executive summary of the exports.      *)
(* Each is computed on its own from the same results.                      *)
(***************************************************************************)
EXTENDS Integers, Sequences, FiniteSets

CONSTANTS Sessions, \* results a scan may give: [category, status, blocked, ua]
          Nothing

VARIABLES session, \* the results on show, Nothing before the first scan
          fp,      \* they are of a false positive test
          wafSeen, \* the session has a detection
          table    \* the boxes above the table

vars == <<session, fp, wafSeen, table>>

Init == session = Nothing /\ fp = FALSE /\ wafSeen = FALSE /\ table = Nothing

Statuses(rs) == {rs[n].status : n \in DOMAIN rs}
Categories(rs) == {rs[n].category : n \in DOMAIN rs}
Those(rs, T(_)) == {n \in DOMAIN rs : T(rs[n])}
Among(rs, T(_)) == Cardinality(Those(rs, T))

-----------------------------------------------------------------------------
(* The table.                                                              *)

\* getStatusClass, for a result that is no redirect.
Colour(status, test) ==
  CASE status = "405" -> "redirect"
    [] status = "403" -> IF test THEN "red" ELSE "green"
    [] status \in {"200", "500"} -> IF test THEN "green" ELSE "red"
    [] status \in {"404", "406"} -> "orange"
    [] OTHER -> "gray"

\* displayHTTPManipulationResults has a verdict of its own on the same status.
Verdict(status) ==
  CASE status = "ERR" -> "unreachable"
    [] status = "200" -> "bypass"
    [] status = "500" -> "server error"
    [] status = "403" -> "blocked"
    [] OTHER          -> "rejected"

\* The bar of each status and, in a security test, that of the spoofed agents.
Bars == [s \in Statuses(session) |-> Among(session, LAMBDA r : r.status = s)]
AgentBar == IF fp THEN 0 ELSE Among(session, LAMBDA r : r.ua)

\* The patch button of a row.
Button(r) ==
  IF fp THEN "none"
  ELSE IF r.status = "200" /\ ~r.blocked THEN "bypass"
  ELSE IF r.status \in {"404", "500"} THEN "miss"
  ELSE "none"

\* highlightCategoryCheckboxesByResults
Highlighted == {c \in Categories(session) :
  \E n \in DOMAIN session : session[n].category = c /\ session[n].status = (IF fp THEN "403" ELSE "200")}

Rows ==
  Those(session, LAMBDA r :
    (r.status \in table.checked \/ (r.ua /\ table.ua)) /\ table.term \in {Nothing, r.category})

\* renderReport and renderSummary: every box is checked again.
Publish(rs, test, seen) ==
  /\ session' = rs /\ fp' = test /\ wafSeen' = seen
  /\ table' = [checked |-> Statuses(rs), all |-> TRUE, ua |-> TRUE, term |-> Nothing]

ToggleAll ==
  /\ session # Nothing
  /\ table' = [table EXCEPT !.all = ~@, !.checked = IF table.all THEN {} ELSE Statuses(session)]
  /\ UNCHANGED <<session, fp, wafSeen>>

\* Mutant: the box over all of them is not brought up to date.
BoxesOnly(checked) == [table EXCEPT !.checked = checked]

Boxes(checked) == [table EXCEPT !.checked = checked, !.all = checked = Statuses(session)]

ToggleStatus(s) ==
  /\ session # Nothing /\ s \in Statuses(session)
  /\ table' = Boxes(IF s \in table.checked THEN table.checked \ {s} ELSE table.checked \cup {s})
  /\ UNCHANGED <<session, fp, wafSeen>>

\* The box is there only with a bypass to show; that of the trusted address
\* headers works the same way.
ToggleAgents ==
  /\ session # Nothing /\ AgentBar > 0
  /\ table' = [table EXCEPT !.ua = ~@]
  /\ UNCHANGED <<session, fp, wafSeen>>

Search(term) ==
  /\ session # Nothing /\ table.term # term
  /\ table' = [table EXCEPT !.term = term]
  /\ UNCHANGED <<session, fp, wafSeen>>

-----------------------------------------------------------------------------
(* The scores.  Rates are fractions; only what is shown is rounded.        *)

Round(num, den) == (2 * num + den) \div (2 * den)

\* Of n tests b were bypassed.
Severity(b, n) ==
  IF 4 * b >= 3 * n THEN "Critical" ELSE IF 2 * b >= n THEN "High"
  ELSE IF 4 * b >= n THEN "Medium" ELSE "Low"
Score(b, n) ==
  CASE Severity(b, n) = "Critical" -> Round(90 * n + 10 * (4 * b - 3 * n), n)
    [] Severity(b, n) = "High"     -> Round(70 * n + 20 * (4 * b - 2 * n), n)
    [] Severity(b, n) = "Medium"   -> Round(40 * n + 30 * (4 * b - n), n)
    [] OTHER                       -> Round(160 * b, n)

\* generateVulnerabilityScores: a false positive test counts the 403.
Bypassed(c) ==
  Among(session, LAMBDA r : r.category = c /\ r.status = (IF fp THEN "403" ELSE "200"))
Tested(c) == Among(session, LAMBDA r : r.category = c)
Scored(c) == [category |-> c, bypassed |-> Bypassed(c), total |-> Tested(c),
              severity |-> Severity(Bypassed(c), Tested(c)), score |-> Score(Bypassed(c), Tested(c))]

\* The table of categories is sorted by score; of equal ones, the category met
\* first in the results comes first, as the sort is stable.
First(c) ==
  CHOOSE n \in DOMAIN session :
    session[n].category = c /\ \A m \in 1 .. n - 1 : session[m].category # c
Above(a, b) ==
  \/ a.score > b.score
  \/ a.score = b.score /\ First(a.category) < First(b.category)
Rank(a, all) == Cardinality({b \in all : Above(b, a)}) + 1
Scores ==
  LET all == {Scored(c) : c \in Categories(session)}
  IN [n \in 1 .. Cardinality(all) |-> CHOOSE a \in all : Rank(a, all) = n]

\* generateExecutiveSummary counts the 200 and 500 of either kind of test.
Reached == Among(session, LAMBDA r : r.status \in {"200", "500"})
Has(severity) == \E c \in Categories(session) : Scored(c).severity = severity
OverRate(num, den) == den * Reached > num * Len(session)

\* Mutant: the rate alone makes the risk.
RiskByRate ==
  IF OverRate(3, 4) THEN "Critical" ELSE IF OverRate(1, 2) THEN "High"
  ELSE IF OverRate(1, 4) THEN "Medium" ELSE "Low"

Risk ==
  IF Has("Critical") \/ OverRate(3, 4) THEN "Critical"
  ELSE IF Has("High") \/ OverRate(1, 2) THEN "High"
  ELSE IF Has("Medium") \/ OverRate(1, 4) THEN "Medium"
  ELSE "Low"

\* One of the first three of the table, when it is severe.
Strengthen(n) ==
  IF n \in DOMAIN Scores /\ Scores[n].severity \in {"Critical", "High"}
  THEN <<Scores[n].category>> ELSE << >>
Advice ==
  LET all == (IF Has("Critical") THEN <<"review">> ELSE << >>)
             \o (IF OverRate(1, 2) THEN <<"improve">> ELSE << >>)
             \o (IF ~wafSeen THEN <<"implement">> ELSE << >>)
             \o Strengthen(1) \o Strengthen(2) \o Strengthen(3)
  IN IF all = << >> THEN <<"monitor">> ELSE SubSeq(all, 1, IF Len(all) < 5 THEN Len(all) ELSE 5)

Next ==
  \/ \E rs \in Sessions, test \in BOOLEAN, seen \in BOOLEAN : Publish(rs, test, seen)
  \/ ToggleAll
  \/ \E s \in IF session = Nothing THEN {} ELSE Statuses(session) : ToggleStatus(s)
  \/ ToggleAgents
  \/ \E t \in {Nothing} \cup IF session = Nothing THEN {} ELSE Categories(session) : Search(t)

Spec == Init /\ [][Next]_vars

-----------------------------------------------------------------------------

Level(s) == CASE s = "Critical" -> 3 [] s = "High" -> 2 [] s = "Medium" -> 1 [] OTHER -> 0

\* The overall risk (main.js:2482-2496) is never below that of a category, and
\* without a 500, in a security test, it is that of the worst one: an average
\* over the categories cannot be worse than each of them.
RiskIsTheWorst ==
  session # Nothing =>
    /\ \A c \in Categories(session) : Level(Risk) >= Level(Scored(c).severity)
    /\ ~fp /\ "500" \notin Statuses(session) => Has(Risk)

\* The first two of the table score no less than any below them and, when their
\* severity is high or critical, are among the recommendations, which stop at
\* five (main.js:2464, 2504-2525).
WorstIsNamed ==
  session # Nothing =>
    /\ \A m, n \in DOMAIN Scores : m < n => Scores[m].score >= Scores[n].score
    /\ \A n \in DOMAIN Scores : n <= 2 /\ Level(Scores[n].severity) >= 2 =>
         \E k \in DOMAIN Advice : Advice[k] = Scores[n].category

\* The views agree one way (main.js:410-438, 2414-2461): highlighted are the
\* categories with a bypass in the scores, which count every bypass once; a row with
\* a button for a bypass is red and of a highlighted category; and the table of
\* HTTP manipulations calls blocked what the other one paints green.  Not the other
\* way: a block page under 200 is red and scored as a bypass, but has no button.
ViewsAgree ==
  session # Nothing =>
    /\ Highlighted = {Scores[n].category : n \in {m \in DOMAIN Scores : Scores[m].bypassed > 0}}
    /\ \A n \in DOMAIN session : Button(session[n]) = "bypass" =>
         Colour(session[n].status, fp) = "red" /\ session[n].category \in Highlighted
    /\ \A s \in Statuses(session) : (Verdict(s) = "blocked") <=> (Colour(s, FALSE) = "green")

\* The box over all statuses tells the truth: when it is checked and nothing is
\* searched for, every row is visible (main.js:1983-2006, 2021-2055); when no
\* status is checked, the rows of a spoofed agent stay visible on their own box.
FilterIsHonest ==
  session # Nothing /\ table.term = Nothing =>
    /\ table.all => Rows = DOMAIN session
    /\ table.checked = {} /\ table.ua => Rows = Those(session, LAMBDA r : r.ua)
=============================================================================
