------------------------------ MODULE Studio ------------------------------
(***************************************************************************)
(* The virtual patching dialog of static/main.js.  Its inputs are the      *)
(* results of the last scan and the URL in the page, both of which may     *)
(* change while it is open; every change of a choice asks the worker for   *)
(* all vendors' patches, and the answers may come in another order.        *)
(***************************************************************************)
EXTENDS Naturals, FiniteSets

CONSTANTS Scans,    \* results: [id, hits, misses], the counts of 200 and of 404 or 5xx
          Vendors,  \* the tabs
          Formats,  \* "native" and what some vendors have besides
          MaxAsks,  \* bound: requests
          None

VARIABLES latest, \* window.latestScanResults
          studio, \* the dialog
          asks,   \* requests under way, [n, scan, scope, opens]
          report  \* currentVpReport

vars == <<latest, studio, asks, report>>

Init ==
  /\ latest = None /\ asks = {} /\ report = None
  /\ studio = [open |-> FALSE, empty |-> FALSE, copy |-> TRUE, vendor |-> "cloudflare",
               format |-> "native", scope |-> "bypasses", asked |-> 0, late |-> FALSE,
               view |-> [kind |-> "blank", vendor |-> None, format |-> None, report |-> None]]

Hits == IF latest = None THEN 0 ELSE latest.hits
Misses == IF latest = None THEN 0 ELSE latest.misses

\* A scan ends, with the dialog open or not.
ScanPublished(scan) ==
  /\ latest # scan /\ latest' = scan
  /\ UNCHANGED <<studio, asks, report>>

\* updateVpTabs: the formats a vendor has, and the fallback to native.
Supported(vendor) ==
  {"native"} \cup (IF vendor \in {"cloudflare", "aws", "gcp", "azure"} THEN {"terraform"} ELSE {})
             \cup (IF vendor = "gcp" THEN {"gcloud"} ELSE {})
             \cup (IF vendor = "azure" THEN {"azureCli"} ELSE {})

\* Mutant: the format chosen stays with every tab.
TabsOnly(vendor) == [studio EXCEPT !.vendor = vendor]

Tabs(vendor) ==
  [studio EXCEPT !.vendor = vendor,
                 !.format = IF studio.format \in Supported(vendor) THEN @ ELSE "native"]

Asked(st) == [st EXCEPT !.asked = @ + 1]

\* Mutant: the results are those of the scan when the answer comes.
AskOfBefore(st, opens) ==
  /\ st.asked < MaxAsks
  /\ asks' = asks \cup {[n |-> st.asked + 1, scan |-> latest, scope |-> studio.scope, opens |-> opens]}

\* refreshVpCode takes the results and the choices of now.
Ask(st, opens) ==
  /\ st.asked < MaxAsks
  /\ asks' = asks \cup {[n |-> st.asked + 1, scan |-> latest, scope |-> st.scope, opens |-> opens]}

\* What the worker makes of it: patches when something of the scope is there.
Answer(q) ==
  [n |-> q.n, scan |-> q.scan, scope |-> q.scope,
   rules |-> CASE q.scope = "bypasses" -> q.scan # None /\ q.scan.hits > 0
               [] q.scope = "misses"   -> q.scan # None /\ q.scan.misses > 0
               [] OTHER                -> q.scan # None /\ q.scan.hits + q.scan.misses > 0]

\* Mutant: the text is rendered only when there was none.
RenderedOnce(st, rep) ==
  IF rep = None \/ st.view.kind \in {"rules", "none"} THEN st
  ELSE [st EXCEPT !.view = [kind |-> IF rep.rules THEN "rules" ELSE "none", vendor |-> st.vendor,
                            format |-> st.format, report |-> rep]]

\* renderVpCode: nothing without a report, and never an extra format that the
\* vendor's bundle lacks.
Rendered(st, rep) ==
  IF rep = None THEN st
  ELSE [st EXCEPT !.view = [kind |-> IF rep.rules THEN "rules" ELSE "none", vendor |-> st.vendor,
                            format |-> st.format, report |-> rep]]

\* The scope of the button that was pressed, or the one that has something.
ScopeFor(initial) ==
  IF initial # None THEN initial
  ELSE IF Hits > 0 THEN "bypasses" ELSE IF Misses > 0 THEN "all" ELSE "bypasses"

\* showVirtualPatchModal; detected: the vendor of window.detectedWAF, if any.
\* The dialog opens when the answer is there, at once when there is nothing.
Show(initial, detected) ==
  LET st == [Tabs(IF detected = None THEN studio.vendor ELSE detected)
               EXCEPT !.scope = ScopeFor(initial), !.empty = FALSE, !.copy = TRUE]
  IN
  /\ IF Hits = 0 /\ Misses = 0
     THEN /\ studio' = [studio EXCEPT !.open = TRUE, !.scope = ScopeFor(initial),
                                      !.empty = TRUE, !.copy = FALSE]
          /\ UNCHANGED asks
     ELSE /\ Ask(st, TRUE) /\ studio' = Asked(st)
  /\ UNCHANGED <<latest, report>>

\* late (history): an answer failed, or came after that to a later request.
Answered(q, ok) ==
  /\ q \in asks /\ asks' = asks \ {q}
  /\ LET st == [studio EXCEPT !.open = @ \/ q.opens,
                              !.late = @ \/ ~ok \/ (report # None /\ report.n > q.n)] IN
     IF ok
     THEN report' = Answer(q) /\ studio' = Rendered(st, Answer(q))
     ELSE /\ studio' = [st EXCEPT !.view = [kind |-> "error", vendor |-> None, format |-> None, report |-> None]]
          /\ UNCHANGED report
  /\ UNCHANGED latest

\* selectVpVendor renders the report of before under the new tab.
SelectVendor(vendor) ==
  /\ studio.open /\ ~studio.empty /\ vendor # studio.vendor
  /\ studio' = Rendered(Tabs(vendor), report)
  /\ UNCHANGED <<latest, asks, report>>

Choose(st) == studio.open /\ ~studio.empty /\ Ask(st, FALSE) /\ studio' = Asked(st) /\ UNCHANGED <<latest, report>>
SelectScope(scope) == scope # studio.scope /\ Choose([studio EXCEPT !.scope = scope])
\* A format that the tab lacks is hidden from the list.
SelectFormat(format) ==
  format \in Supported(studio.vendor) \ {studio.format} /\ Choose([studio EXCEPT !.format = format])

Close == studio.open /\ studio' = [studio EXCEPT !.open = FALSE] /\ UNCHANGED <<latest, asks, report>>

\* copyVpCode and downloadVpCode: the text of the viewer under the tab's name.
Copied == [text |-> studio.view.kind, of |-> studio.view.vendor, named |-> studio.vendor]

Next ==
  \/ \E scan \in Scans : ScanPublished(scan)
  \/ \E s \in {None, "bypasses", "misses"}, d \in {None} \cup Vendors : Show(s, d)
  \/ \E q \in asks, ok \in BOOLEAN : Answered(q, ok)
  \/ \E v \in Vendors : SelectVendor(v)
  \/ \E s \in {"bypasses", "misses", "all"} : SelectScope(s)
  \/ \E f \in Formats : SelectFormat(f)
  \/ Close

Spec == Init /\ [][Next]_vars

-----------------------------------------------------------------------------

\* Once every request is answered, in whatever order (main.js:1087-1089,
\* 1140-1144, 1172-1199), the text to copy or download is an error or the rules
\* of the tab and the format that are chosen, taken from the report kept last.
TextIsOfTheTab ==
  asks = {} /\ studio.view.kind = "rules" =>
    /\ studio.view.vendor = studio.vendor /\ studio.view.format = studio.format
    /\ studio.view.report = report /\ Copied.of = Copied.named

\* The format is one that the vendor has (main.js:1110-1137): a Terraform or a
\* shell name is never given to the rules of a vendor without them.
FormatFits == studio.format \in Supported(studio.vendor)

\* While every answer comes in the order of the requests (main.js:1146-1199),
\* the report is the answer to the last choice of scope and format; nothing in
\* the code puts answers that come otherwise in order.  The button to copy is
\* off when there was nothing to patch.
InOrderIsCurrent ==
  /\ asks = {} /\ ~studio.late /\ ~studio.empty /\ report # None =>
       report.n = studio.asked /\ report.scope = studio.scope
  /\ studio.open /\ studio.empty => ~studio.copy
=============================================================================
