------------------------------ MODULE MCEngine ------------------------------
(***************************************************************************)
(* What becomes of an answer: Verdict with VirtualPatch, which writes      *)
(* rules from the verdicts, and the page that scans (Browser) and shows    *)
(* them (Dashboard, Studio).  A behaviour is one of the component that     *)
(* part names; the others stay as they began.                              *)
(***************************************************************************)
EXTENDS Verdict, Integers, Sequences

CONSTANTS f1, f2,
          Stored, Choices,
          Targets, Opened, Types, Settings, Items, MaxPages, MaxScans, MaxOthers,
          Sessions, Nothing,
          Published, Vendors, Formats, MaxAsks

ASSUME EngineAssumption ==
  /\ Opened \in Targets
  /\ Settings \subseteq [auto : BOOLEAN, fp : BOOLEAN]
  /\ MaxScans \in Nat /\ MaxOthers \in Nat

VARIABLES part,
          scan, options, patches,
          session, fp, wafSeen, table,
          tab, saved, scans, audit, detect,
          latest, studio, asks, bundle

Patch    == INSTANCE VirtualPatch WITH report <- patches
Views    == INSTANCE Dashboard
Patching == INSTANCE Studio WITH report <- bundle, Scans <- Published
Window   == INSTANCE Browser WITH page <- tab

\* A table is shown only of a scan that gave results (main.js:180), and Nothing
\* and None are none of the values they stand in for.
ASSUME ViewsAssumption ==
  /\ Sessions \subseteq Seq([category : STRING, status : STRING, blocked : BOOLEAN, ua : BOOLEAN])
  /\ << >> \notin Sessions /\ Nothing \notin Sessions
  /\ MaxAsks \in Nat
  /\ None \notin [n : Nat, scan : Published \cup {None},
                  scope : {"bypasses", "misses", "all"}, rules : BOOLEAN]

\* A report is over the results of a scan, with the options of the dialog.
ASSUME PatchAssumption == Patch!Inputs

patchVars == <<scan, options, patches>>
viewVars  == <<session, fp, wafSeen, table>>
vpVars    == <<latest, studio, asks, bundle>>
tabVars   == <<tab, saved, scans, audit, detect>>
allVars   == <<part, vars, patchVars, viewVars, vpVars, tabVars>>

EngineInit ==
  /\ part \in {"verdict", "patch", "views", "patching", "window"}
  /\ Init /\ Patch!Init /\ Views!Init /\ Patching!Init /\ Window!Init

VerdictStep(A) ==
  /\ part = "verdict" /\ A
  /\ UNCHANGED <<part, patchVars, viewVars, vpVars, tabVars>>

EngineNext ==
  \/ \E w \in Wafs : VerdictStep(Detect(w))
  \/ VerdictStep(NoCalibration) \/ VerdictStep(Report) \/ VerdictStep(NextPage)
  \/ \E r \in Replies : VerdictStep(Calibrate(r))
  \/ \E r \in Replies, file \in BOOLEAN : VerdictStep(Judge(r, file))
  \/ /\ part = "patch" /\ Patch!Next
     /\ UNCHANGED <<part, vars, viewVars, vpVars, tabVars>>
  \/ /\ part = "views" /\ Views!Next
     /\ UNCHANGED <<part, vars, patchVars, vpVars, tabVars>>
  \/ /\ part = "patching" /\ Patching!Next
     /\ UNCHANGED <<part, vars, patchVars, viewVars, tabVars>>
  \/ /\ part = "window" /\ Window!Next
     /\ UNCHANGED <<part, vars, patchVars, viewVars, vpVars>>

EngineSpec == EngineInit /\ [][EngineNext]_allVars

-----------------------------------------------------------------------------
(* The inputs of each component.                                           *)

\* Two forms that are not alike.
MCAlike == {<<f1, f1>>, <<f2, f2>>}

\* The answers that differ in something the code reads: a body is looked at for
\* soft-block phrases only under 200 and 400, for the artifact only under 2xx,
\* for an authorisation error only under 403 and 406.
MCReplies ==
  {r \in Reply :
     /\ r.soft => r.status = "ok"
     /\ r.plausible => r.status = "ok"
     /\ r.originAuth => r.status = "403"
     /\ r.status \in {"ok", "403", "429", "ERR", "BLOCKED"}
     /\ r.status \in {"ERR", "BLOCKED"} => r.form = f1}

\* Results of each place and each form of a payload, with and without capitals,
\* and one that was missed.
Bypass(cat, methods, forms, caps, status) ==
  [cat : {cat}, method : methods, form : forms, nr : {0}, caps : caps, altered : {FALSE},
   status : {status}]
MCResults ==
  UNION {Bypass("SQL Injection", {"GET", "POST"}, {"word", "text", "phrase"}, BOOLEAN, "200"),
         Bypass("SQL Injection", {"GET"}, {"blank", "oddphrase"}, {FALSE}, "200"),
         Bypass("SQL Injection", {"GET"}, {"word"}, {FALSE}, "404"),
         {[r EXCEPT !.nr = 1, !.altered = a] :
            r \in Bypass("SQL Injection", {"GET"}, {"word"}, {FALSE}, "200"), a \in BOOLEAN},
         Bypass("XXE", {"GET", "POST"}, {"text"}, {TRUE}, "200"),
         Bypass("Path Traversal", {"GET"}, {"dots"}, {FALSE}, "200"),
         Bypass("XPath Injection", {"POST"}, {"word"}, {FALSE}, "200"),
         Bypass("User-Agent", {"GET"}, {"phrase"}, {TRUE}, "200"),
         Bypass("Sensitive Files", {"GET"}, {"ext", "vcs", "name"}, BOOLEAN, "200"),
         Bypass("Sensitive Files", {"GET"}, {"hidden", "vcsdir", "dots"}, {FALSE}, "200")}
MCStored == {<<r>> : r \in MCResults} \cup {<<r, s>> : r, s \in MCResults}
MCChoices ==
  [vendor : {"all", "coraza"}, tier : {"strict", "both"}, grouped : BOOLEAN,
   scoped : BOOLEAN, misses : {FALSE}]
  \cup [vendor : {"all"}, tier : {"heuristic"}, grouped : BOOLEAN,
        scoped : {FALSE}, misses : {TRUE}]

MCSettings == {[auto |-> TRUE, fp |-> FALSE], [auto |-> FALSE, fp |-> TRUE]}
MCItems    == {[status |-> "200", blocked |-> FALSE]}

\* Sessions of one, two and four results over two categories, and of one result
\* in each of four.
Row(c, status, blocked, ua) ==
  [category |-> c, status |-> status, blocked |-> blocked, ua |-> ua]
MCRows ==
  {Row(c, s, s = "403", FALSE) : c \in {"c1", "c2"}, s \in {"200", "403", "404", "500"}}
  \cup {Row("c1", "403", TRUE, TRUE), Row("c2", "200", TRUE, FALSE)}
MCSessions ==
  LET first  == {r \in MCRows : r.category = "c1"}
      second == {r \in MCRows : r.category = "c2" /\ r.status # "404"}
  IN {<<a>> : a \in MCRows} \cup {<<a, b>> : a \in first, b \in MCRows}
     \cup {<<Row("c1", "200", FALSE, FALSE), Row("c2", "403", TRUE, FALSE), a, b>> :
             a \in {r \in first : ~r.ua}, b \in second}
     \cup {<<Row("c1", a, FALSE, FALSE), Row("c2", "403", TRUE, FALSE),
             Row("c3", "403", TRUE, FALSE), Row("c4", b, FALSE, FALSE)>> :
             a \in {"200", "404"}, b \in {"200", "500"}}

MCPublished == {[id |-> 1, hits |-> 1, misses |-> 0], [id |-> 2, hits |-> 0, misses |-> 1],
                [id |-> 3, hits |-> 0, misses |-> 0]}

-----------------------------------------------------------------------------
(* Properties of the components.                                           *)

\* The patches look for what they were verified for where it was sent, with unique
\* ids, no empty rule and complete bundles (virtual-patch/index.ts:60-175).
PatchesHold == part = "patch" => Patch!PatchesHold

\* However scans, audits, detections, cancelling and reloading interleave, what
\* the page keeps of a scan is that scan's, a type found for a scan is of its
\* target, and Cancel reaches a request that waits (main.js:543-871).
ScansAreApart ==
  part = "window" =>
    Window!SessionIsOneScan /\ Window!TypeIsItsOwn /\ Window!CancelReachesARequest

\* The scores and the summary are of the rows of the table, a row with a button for
\* a bypass is one that they count (not every one they count has a button), and the
\* text of the patches is that of the tab chosen, and of the last choice unless an
\* answer came late (main.js:115-438, 1015-1200, 2414-2526).
PageIsConsistent ==
  /\ part = "views" =>
       /\ Views!RiskIsTheWorst /\ Views!WorstIsNamed
       /\ Views!ViewsAgree /\ Views!FilterIsHonest
  /\ part = "patching" =>
       Patching!TextIsOfTheTab /\ Patching!FormatFits /\ Patching!InOrderIsCurrent
=============================================================================
