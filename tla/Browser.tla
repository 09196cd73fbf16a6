------------------------------ MODULE Browser ------------------------------
(***************************************************************************)
(* The page of static/main.js: scans of a target, WAF detection, the       *)
(* reverse engineering audit, cancelling and reloading.  They run          *)
(* concurrently: the Enter key starts a scan whatever the button says, and *)
(* all of them share one abort controller and one detected WAF.            *)
(***************************************************************************)
EXTENDS Naturals, Sequences, FiniteSets

CONSTANTS Targets,  \* URLs
          Types,    \* WAFs a detection may name
          Settings, \* [auto, fp]: to detect a WAF first, and the false positive test
          Items,    \* results of a page: [status, blocked]
          MaxPages, \* pages the server has of a scan
          MaxScans, \* bound: scans started
          MaxOthers,\* bound: audits and detections started
          Opened,   \* the URL in the input at first
          None

VARIABLES page,   \* the globals and the inputs of the page
          saved,  \* localStorage
          scans,  \* the calls of fetchResults
          audit,  \* the call of runReverseEngineering
          detect  \* the call of detectWAF

vars == <<page, saved, scans, audit, detect>>

Blank == [phase |-> "off", target |-> None, auto |-> FALSE, fp |-> FALSE,
          type |-> None, from |-> None, known |-> FALSE, upfront |-> FALSE, found |-> None,
          signal |-> 0, aborted |-> FALSE, results |-> << >>, probes |-> 0]
Quiet == [phase |-> "off", target |-> None, signal |-> 0, aborted |-> FALSE]

\* A controller is known by what made it: a scan, or the audit that was started
\* after the others.  from, known and probes are history: the target a type was
\* found at, whether a type was known at the start, and the pages that made the
\* server detect.
Fresh(url) ==
  [url |-> url, detected |-> None, from |-> None, controller |-> 0,
   check |-> TRUE, cancel |-> FALSE, session |-> None, others |-> 0]

Init ==
  /\ page = Fresh(Opened)
  /\ saved = None
  /\ scans = [s \in 1 .. MaxScans |-> Blank]
  /\ audit = Quiet /\ detect = Quiet

Busy(s) == scans[s].phase \in {"detect", "page"}
Type(url) == page.url # url /\ page' = [page EXCEPT !.url = url] /\ UNCHANGED <<saved, scans, audit, detect>>

-----------------------------------------------------------------------------
(* A scan.  Its first part runs to the first request without a pause.      *)

\* Mutant: every page asks for a detection.
AsksAlways(s) == s.auto

\* Which page requests ask the server to detect for itself.
Asks(s) == s.auto /\ (s.type # None \/ ~s.upfront)

\* The request of a page is bound to the controller of now, whoever made it.
Bound(s, controller) ==
  [s EXCEPT !.phase = "page", !.signal = controller, !.aborted = FALSE,
            !.probes = IF Asks(s) /\ s.type = None THEN @ + 1 ELSE @]

\* Mutant: a finished scan leaves its controller.
ReleasedKeeping(p) == [p EXCEPT !.check = TRUE, !.cancel = FALSE]

\* finally: the buttons are those of no scan, and the controller is gone.
Released(p) == [p EXCEPT !.check = TRUE, !.cancel = FALSE, !.controller = 0]

HasType == page.detected # None

\* A scan begins with the target and the type of the page, if it has one.
NewScan(auto, fp) ==
  [Blank EXCEPT !.target = page.url, !.auto = auto, !.fp = fp, !.type = page.detected,
                !.from = page.from, !.known = HasType]

StartScan(s, auto, fp) ==
  LET p == [page EXCEPT !.check = FALSE, !.cancel = TRUE]
      scan == NewScan(auto, fp)
  IN
  /\ scans[s].phase = "off" /\ \A r \in 1 .. s - 1 : scans[r].phase # "off"
  /\ saved' = page.url
  /\ IF auto /\ ~HasType
     THEN /\ scans' = [scans EXCEPT ![s] = [scan EXCEPT !.phase = "detect"]]
          /\ page' = p
     ELSE /\ scans' = [scans EXCEPT ![s] = Bound(scan, s)]
          /\ page' = [p EXCEPT !.controller = s]
  /\ UNCHANGED <<audit, detect>>

\* showWAFPanel for a WAF that was named.
Shown(p, t, url) == [p EXCEPT !.detected = t, !.from = url]

\* Mutant: an earlier type of the page wins.
UpfrontTypeOfPage(s, t) ==
  IF page.detected # None THEN [type |-> page.detected, from |-> page.from]
  ELSE [type |-> t, from |-> scans[s].target]

\* The answer names this scan's type; the global may be overwritten meanwhile.
UpfrontType(s, t) == [type |-> t, from |-> scans[s].target]

\* answer: a WAF, "nothing" (or an answer that is no JSON), or "failed".
UpfrontAnswered(s, answer) ==
  LET named == answer \in Types
      u == UpfrontType(s, answer)
      scan == IF named
              THEN [scans[s] EXCEPT !.upfront = TRUE, !.type = u.type, !.from = u.from,
                                    !.found = scans[s].target]
              ELSE [scans[s] EXCEPT !.upfront = answer = "nothing"]
      p == IF named THEN Shown(page, answer, scans[s].target) ELSE page
  IN
  /\ scans[s].phase = "detect"
  /\ scans' = [scans EXCEPT ![s] = Bound(scan, s)]
  /\ page' = [p EXCEPT !.controller = s]
  /\ UNCHANGED <<saved, audit, detect>>

Hits(results, S) == Cardinality({n \in DOMAIN results : results[n].status \in S})

\* Mutant: the session is named after the input field.
SessionOfInput(s, scan) ==
  [scan |-> s, url |-> page.url, results |-> scan.results, found |-> scan.found,
   banner |-> Hits(scan.results, {"200"})]

\* currentTestSession, latestScanResults and the banner of virtual patches.
Session(s, scan) ==
  [scan |-> s, url |-> scan.target, results |-> scan.results, found |-> scan.found,
   banner |-> IF scan.fp THEN 0
              ELSE IF Hits(scan.results, {"200"}) > 0 THEN Hits(scan.results, {"200"})
              ELSE Hits(scan.results, {"404", "500"})]

\* Of a scan that is over only what its session shows is left.
Ended(scan, published) ==
  IF published
  THEN [Blank EXCEPT !.phase = "ended", !.target = scan.target, !.fp = scan.fp,
                     !.found = scan.found, !.results = scan.results, !.aborted = scan.aborted]
  ELSE [Blank EXCEPT !.phase = "ended"]

\* The end of the loop, an empty page or a refused one: what there is becomes
\* the session; without a result nothing changes but the pane.
Publish(s) ==
  /\ scans' = [scans EXCEPT ![s] = Ended(@, @.results # << >>)]
  /\ page' = IF scans[s].results = << >> THEN Released(page)
             ELSE [Released(page) EXCEPT !.session = Session(s, scans[s])]

\* catch: the results so far are dropped.
Throw(s) ==
  /\ scans' = [scans EXCEPT ![s] = Ended(@, FALSE)]
  /\ page' = Released(page)

\* Mutant: an answer counts after its request was aborted.
AnswerableAborted(s) == scans[s].phase = "page"

Answerable(s) == scans[s].phase = "page" /\ ~scans[s].aborted

\* A page came; the next request reads the controller again, and fails when
\* another activity has put it back to null.
PageAnswered(s, item) ==
  LET scan == [scans[s] EXCEPT !.results = Append(@, item)] IN
  /\ Answerable(s) /\ Len(scans[s].results) < MaxPages
  /\ IF page.controller = 0
     THEN Throw(s)
     ELSE scans' = [scans EXCEPT ![s] = Bound(scan, page.controller)] /\ UNCHANGED page
  /\ UNCHANGED <<saved, audit, detect>>

ScanEnds(s, failed) ==
  /\ Answerable(s)
  /\ IF failed THEN Throw(s) ELSE Publish(s)
  /\ UNCHANGED <<saved, audit, detect>>

ScanAborted(s) ==
  /\ scans[s].phase = "page" /\ scans[s].aborted
  /\ Throw(s)
  /\ UNCHANGED <<saved, audit, detect>>

\* abort(): what waits on the controller of now fails.
Aborted(call, waiting) ==
  IF call.phase = waiting /\ call.signal = page.controller
  THEN [call EXCEPT !.aborted = TRUE] ELSE call

\* cancelCurrentScan: every request bound to the controller, and nothing while
\* a scan still waits for its up-front detection.
Cancel ==
  /\ page.cancel /\ page.controller # 0
  /\ page' = [page EXCEPT !.controller = 0, !.cancel = FALSE]
  /\ scans' = [s \in 1 .. MaxScans |-> Aborted(scans[s], "page")]
  /\ audit' = Aborted(audit, "asked")
  /\ UNCHANGED <<saved, detect>>

-----------------------------------------------------------------------------
(* The audit and the detection buttons.                                    *)

StartAudit ==
  /\ audit.phase = "off" /\ page.others < MaxOthers
  /\ audit' = [Quiet EXCEPT !.phase = "asked", !.signal = MaxScans + page.others + 1]
  /\ page' = [page EXCEPT !.cancel = TRUE, !.controller = audit'.signal, !.others = @ + 1]
  /\ UNCHANGED <<saved, scans, detect>>

\* Rendered, refused or aborted: the buttons of a scan under way go as well.
AuditEnds ==
  /\ audit.phase = "asked" /\ audit' = Quiet
  /\ page' = [page EXCEPT !.cancel = FALSE, !.controller = 0]
  /\ UNCHANGED <<saved, scans, detect>>

StartDetect ==
  /\ detect.phase = "off" /\ page.others < MaxOthers
  /\ detect' = [Quiet EXCEPT !.phase = "asked", !.target = page.url]
  /\ page' = [page EXCEPT !.others = @ + 1]
  /\ UNCHANGED <<saved, scans, audit>>

\* A captcha alone leaves the detected WAF of before.
DetectAnswered(answer) ==
  /\ detect.phase = "asked" /\ detect' = Quiet
  /\ page' = IF answer \in Types THEN Shown(page, answer, detect.target)
             ELSE IF answer = "nothing" THEN [page EXCEPT !.detected = None, !.from = None]
             ELSE page
  /\ UNCHANGED <<saved, scans, audit>>

\* The selector of the card is not CSS: a browser that refuses it leaves the
\* function there, one that ignores it comes to the reset.
ClearDetection ==
  /\ page.detected # None /\ page' = [page EXCEPT !.detected = None, !.from = None]
  /\ UNCHANGED <<saved, scans, audit, detect>>

\* A reload forgets all but the saved settings, and nobody waits for the answers.
Reload ==
  /\ saved # None
  /\ page' = [Fresh(saved) EXCEPT !.others = page.others]
  /\ scans' = [s \in 1 .. MaxScans |->
                 IF scans[s].phase = "off" THEN Blank ELSE [Blank EXCEPT !.phase = "ended"]]
  /\ audit' = Quiet /\ detect' = Quiet
  /\ UNCHANGED saved

Next ==
  \/ \E t \in Targets : Type(t)
  \/ \E s \in 1 .. MaxScans :
       \/ \E o \in Settings : StartScan(s, o.auto, o.fp)
       \/ \E a \in Types \cup {"nothing", "failed"} : UpfrontAnswered(s, a)
       \/ \E item \in Items : PageAnswered(s, item)
       \/ \E failed \in BOOLEAN : ScanEnds(s, failed)
       \/ ScanAborted(s)
  \/ Cancel
  \/ StartAudit \/ AuditEnds
  \/ StartDetect
  \/ \E a \in Types \cup {"nothing", "captcha", "failed"} : DetectAnswered(a)
  \/ ClearDetection
  \/ Reload

Spec == Init /\ [][Next]_vars

-----------------------------------------------------------------------------

TypeOK ==
  /\ page.url \in Targets /\ page.detected \in Types \cup {None}
  /\ page.controller \in 0 .. MaxScans + MaxOthers
  /\ \A s \in 1 .. MaxScans : scans[s].phase \in {"off", "detect", "page", "ended"}
  /\ \A c \in {audit, detect} : c.phase \in {"off", "asked"}

\* What the exports, the banner and the patches are made of (main.js:792-848)
\* is one scan of the URL it names that gave results and was not cancelled; a
\* detection in it is of that URL.
SessionIsOneScan ==
  page.session # None =>
    LET scan == scans[page.session.scan] IN
    /\ page.session.url = scan.target /\ page.session.results = scan.results
    /\ ~scan.aborted /\ scan.results # << >>
    /\ scan.found \in {None, scan.target} /\ page.session.found = scan.found
    /\ page.session.banner > 0 => ~scan.fp

\* A scan that found no WAF named when it began (main.js:659, 668-684) uses
\* only what was detected at its own target, whatever another detection does
\* to the shared variable; and the server is asked to detect only when the
\* up-front detection never answered (the comment at 707-709).
TypeIsItsOwn ==
  \A s \in 1 .. MaxScans :
    /\ scans[s].type # None /\ ~scans[s].known => scans[s].from = scans[s].target
    /\ scans[s].probes > 0 => ~scans[s].upfront

\* The controller that Cancel aborts is always the one of a request that is
\* waiting, and once nothing runs the page is as before the first scan
\* (main.js:687, 866-871, 918-924).
CancelReachesARequest ==
  /\ page.controller # 0 =>
       \/ audit.phase = "asked" /\ audit.signal = page.controller
       \/ \E s \in 1 .. MaxScans : scans[s].phase = "page" /\ scans[s].signal = page.controller
  /\ (\A s \in 1 .. MaxScans : ~Busy(s)) =>
       page.check /\ (audit.phase = "off" => ~page.cancel /\ page.controller = 0)
=============================================================================
