---------------------------- MODULE BrowserProofs ----------------------------
(***************************************************************************)
(* Proofs about Browser: scans that share the globals of one page stay     *)
(* apart, for any number of scans, targets and pages.                      *)
(***************************************************************************)
EXTENDS Browser, TLAPS

\* What the proofs assume of the constants.
Inputs ==
  /\ Opened \in Targets
  /\ Settings \subseteq [auto : BOOLEAN, fp : BOOLEAN]
  /\ MaxScans \in Nat /\ MaxOthers \in Nat

Urls  == Targets \cup {None}
Named == Types \cup {None}

ScanRec ==
  [phase : {"off", "detect", "page", "ended"}, target : Urls, auto : BOOLEAN, fp : BOOLEAN,
   type : Named, from : Urls, known : BOOLEAN, upfront : BOOLEAN, found : Urls,
   signal : Nat, aborted : BOOLEAN, results : Seq(Items), probes : Nat]

CallRec == [phase : {"off", "asked"}, target : Urls, signal : Nat, aborted : BOOLEAN]

PageOK ==
  /\ page = [url |-> page.url, detected |-> page.detected, from |-> page.from,
             controller |-> page.controller, check |-> page.check, cancel |-> page.cancel,
             session |-> page.session, others |-> page.others]
  /\ page.url \in Targets /\ page.detected \in Named /\ page.from \in Urls
  /\ page.controller \in Nat /\ page.check \in BOOLEAN /\ page.cancel \in BOOLEAN
  /\ page.others \in Nat

Slots == 1 .. MaxScans

TypeInv ==
  /\ PageOK
  /\ saved \in Urls
  /\ scans \in [Slots -> ScanRec]
  /\ audit \in CallRec /\ detect \in CallRec

\* A scan without a type of the page at its start has one of its own target, and
\* the server detects for it only if the up-front detection never answered.
Own(c) ==
  /\ c.found \in {None, c.target}
  /\ c.type # None /\ ~c.known => c.from = c.target
  /\ c.probes > 0 => ~c.upfront
  /\ c.phase = "detect" => c.probes = 0

\* The session is that of a scan which is over, and was not cancelled.
SessionInv ==
  page.session # None =>
    \E s \in Slots : /\ page.session = Session(s, scans[s])
                     /\ scans[s].phase = "ended" /\ ~scans[s].aborted
                     /\ scans[s].results # << >>

Inv ==
  /\ TypeInv
  /\ \A s \in Slots : Own(scans[s])
  /\ SessionInv
  /\ CancelReachesARequest

-----------------------------------------------------------------------------

LEMMA BlankIs == Blank \in ScanRec /\ Own(Blank) /\ Quiet \in CallRec
BY DEF Blank, ScanRec, Urls, Named, Own, Quiet, CallRec

\* A request is bound to a controller (main.js:700-715).
LEMMA BoundIs ==
  ASSUME NEW c \in ScanRec, Own(c), NEW k \in Nat
  PROVE  /\ Bound(c, k) \in ScanRec /\ Own(Bound(c, k))
         /\ Bound(c, k).phase = "page" /\ Bound(c, k).signal = k
<1> DEFINE b == Bound(c, k)
           n == IF Asks(c) /\ c.type = None THEN c.probes + 1 ELSE c.probes
<1>1. n \in Nat /\ (n > 0 => ~c.upfront)
  BY DEF Asks, Own, ScanRec
<1>2. b = [c EXCEPT !.phase = "page", !.signal = k, !.aborted = FALSE, !.probes = n]
  BY DEF Bound
<1> HIDE DEF n, b
<1>3. b \in ScanRec
  BY <1>1, <1>2 DEF ScanRec
<1>4. /\ b.phase = "page" /\ b.signal = k /\ b.found = c.found /\ b.target = c.target
      /\ b.type = c.type /\ b.known = c.known /\ b.from = c.from /\ b.probes = n
      /\ b.upfront = c.upfront
  BY <1>2 DEF ScanRec
<1>5. Own(b)
  BY <1>1, <1>4 DEF Own
<1> QED BY <1>3, <1>4, <1>5 DEF b

\* A scan that ends keeps nothing, or what its session shows.
LEMMA EndedIs ==
  ASSUME NEW c \in ScanRec, Own(c), NEW published \in BOOLEAN
  PROVE  /\ Ended(c, published) \in ScanRec /\ Own(Ended(c, published))
         /\ Ended(c, published).phase = "ended"
         /\ published => /\ Ended(c, published).target = c.target
                         /\ Ended(c, published).fp = c.fp
                         /\ Ended(c, published).found = c.found
                         /\ Ended(c, published).results = c.results
                         /\ Ended(c, published).aborted = c.aborted
<1>1. CASE published
  <2>1. Ended(c, published) =
          [phase |-> "ended", target |-> c.target, auto |-> FALSE, fp |-> c.fp,
           type |-> None, from |-> None, known |-> FALSE, upfront |-> FALSE,
           found |-> c.found, signal |-> 0, aborted |-> c.aborted,
           results |-> c.results, probes |-> 0]
    BY <1>1 DEF Ended, Blank
  <2>2. Ended(c, published) \in ScanRec
    BY <2>1 DEF ScanRec, Urls, Named
  <2>3. Own(Ended(c, published))
    BY <2>1 DEF Own
  <2> QED BY <2>1, <2>2, <2>3
<1>2. CASE ~published
  <2>1. Ended(c, published) = [Blank EXCEPT !.phase = "ended"]
    BY <1>2 DEF Ended
  <2>2. Ended(c, published) \in ScanRec /\ Ended(c, published).phase = "ended"
    BY <2>1, BlankIs DEF ScanRec
  <2>3. Own(Ended(c, published))
    BY <2>1 DEF Own, Blank
  <2> QED BY <1>2, <2>2, <2>3
<1> QED BY <1>1, <1>2

\* The session of a scan depends on what Ended keeps.
LEMMA SessionKept ==
  ASSUME NEW s, NEW c, NEW d,
         d.target = c.target, d.fp = c.fp, d.found = c.found, d.results = c.results
  PROVE  Session(s, d) = Session(s, c)
BY DEF Session

\* The holder of the controller: a request that waits, on which Cancel acts.
Holder ==
  page.controller # 0 =>
    \/ audit.phase = "asked" /\ audit.signal = page.controller
    \/ \E s \in Slots : scans[s].phase = "page" /\ scans[s].signal = page.controller

\* Nothing runs, so the page is as before the first scan.
AtRest ==
  (\A s \in Slots : ~Busy(s)) =>
    page.check /\ (audit.phase = "off" => ~page.cancel /\ page.controller = 0)

LEMMA CancelParts == CancelReachesARequest <=> Holder /\ AtRest
BY DEF CancelReachesARequest, Holder, AtRest, Slots

\* Scans that are over stay as they are, so a session stays that of its scan.
LEMMA SessionStays ==
  ASSUME SessionInv, page'.session = page.session,
         \A s \in Slots : scans[s].phase = "ended" => scans'[s] = scans[s]
  PROVE  SessionInv'
<1> SUFFICES ASSUME page'.session # None
             PROVE  \E s \in Slots : /\ page'.session = Session(s, scans'[s])
                                     /\ scans'[s].phase = "ended" /\ ~scans'[s].aborted
                                     /\ scans'[s].results # << >>
  BY DEF SessionInv, Session, Hits
<1>1. PICK s \in Slots : /\ page.session = Session(s, scans[s])
                         /\ scans[s].phase = "ended" /\ ~scans[s].aborted
                         /\ scans[s].results # << >>
  BY DEF SessionInv
<1>2. scans'[s] = scans[s]
  BY <1>1
<1> QED BY <1>1, <1>2

\* A step that gives one scan a new value.
LEMMA OneScan ==
  ASSUME Inv, NEW s \in Slots, NEW c \in ScanRec, Own(c),
         scans' = [scans EXCEPT ![s] = c]
  PROVE  /\ scans' \in [Slots -> ScanRec] /\ \A r \in Slots : Own(scans'[r])
         /\ scans'[s] = c /\ \A r \in Slots \ {s} : scans'[r] = scans[r]
<1>1. scans \in [Slots -> ScanRec]
  BY DEF Inv, TypeInv
<1>2. scans'[s] = c /\ \A r \in Slots \ {s} : scans'[r] = scans[r]
  BY <1>1
<1>3. scans' \in [Slots -> ScanRec]
  BY <1>1
<1>4. \A r \in Slots : Own(scans'[r])
  BY <1>2 DEF Inv
<1> QED BY <1>2, <1>3, <1>4

\* What a new scan starts with (main.js:648-666).
LEMMA Started ==
  ASSUME TypeInv, NEW auto \in BOOLEAN, NEW fp \in BOOLEAN
  PROVE  /\ NewScan(auto, fp) \in ScanRec /\ Own(NewScan(auto, fp))
         /\ NewScan(auto, fp).probes = 0
<1> DEFINE c == NewScan(auto, fp)
<1>1. PICK known \in BOOLEAN : known = HasType /\ (known = FALSE => page.detected = None)
  BY DEF HasType
<1>2. c = [Blank EXCEPT !.target = page.url, !.auto = auto, !.fp = fp, !.type = page.detected,
                        !.from = page.from, !.known = known]
  BY <1>1 DEF NewScan
<1>3. page.url \in Urls /\ page.detected \in Named /\ page.from \in Urls
  BY DEF TypeInv, PageOK, Urls
<1> HIDE DEF c
<1>4. c \in ScanRec
  BY <1>2, <1>3, BlankIs DEF ScanRec
<1>5. /\ c.type = page.detected /\ c.known = known /\ c.found = None /\ c.probes = 0
      /\ c.phase = "off"
  BY <1>2, <1>3 DEF Blank
<1>6. Own(c)
  BY <1>1, <1>5 DEF Own
<1> QED BY <1>4, <1>5, <1>6 DEF c

LEMMA StartInv ==
  ASSUME Inputs, Inv, NEW s \in Slots, NEW o \in Settings, StartScan(s, o.auto, o.fp)
  PROVE  Inv'
<1> DEFINE c == NewScan(o.auto, o.fp)
           d == [c EXCEPT !.phase = "detect"]
           waits == o.auto /\ ~HasType
<1>1. c \in ScanRec /\ Own(c) /\ c.probes = 0
  <2>1. o.auto \in BOOLEAN /\ o.fp \in BOOLEAN
    BY DEF Inputs
  <2> QED BY <2>1, Started DEF Inv
<1>2. s \in Nat /\ s # 0
  BY DEF Slots
<1>3. Bound(c, s) \in ScanRec /\ Own(Bound(c, s)) /\ Bound(c, s).phase = "page" /\ Bound(c, s).signal = s
  BY <1>1, <1>2, BoundIs
<1>4. /\ scans[s].phase = "off" /\ saved' = page.url /\ audit' = audit /\ detect' = detect
      /\ waits => /\ scans' = [scans EXCEPT ![s] = d]
                  /\ page' = [page EXCEPT !.check = FALSE, !.cancel = TRUE]
      /\ ~waits => /\ scans' = [scans EXCEPT ![s] = Bound(c, s)]
                   /\ page' = [page EXCEPT !.check = FALSE, !.cancel = TRUE, !.controller = s]
  BY DEF StartScan
<1> HIDE DEF c, waits
<1>5. d \in ScanRec /\ Own(d) /\ d.phase = "detect"
  BY <1>1 DEF ScanRec, Own
<1> HIDE DEF d
<1>6. /\ scans' \in [Slots -> ScanRec] /\ \A r \in Slots : Own(scans'[r])
      /\ \A r \in Slots \ {s} : scans'[r] = scans[r]
      /\ waits => scans'[s].phase = "detect"
      /\ ~waits => scans'[s].phase = "page" /\ scans'[s].signal = s
  <2>1. CASE waits
    BY <1>4, <1>5, <2>1, OneScan
  <2>2. CASE ~waits
    BY <1>3, <1>4, <2>2, OneScan
  <2> QED BY <2>1, <2>2
<1>7. /\ PageOK' /\ page'.session = page.session
      /\ waits => page'.controller = page.controller
      /\ ~waits => page'.controller = s
  <2>1. PageOK
    BY DEF Inv, TypeInv
  <2>2. CASE waits
    BY <1>4, <2>1, <2>2 DEF PageOK
  <2>3. CASE ~waits
    BY <1>2, <1>4, <2>1, <2>3 DEF PageOK
  <2> QED BY <2>2, <2>3
<1>8. TypeInv'
  BY <1>4, <1>6, <1>7 DEF Inv, TypeInv, PageOK, Urls
<1>9. SessionInv'
  BY <1>4, <1>6, <1>7, SessionStays DEF Inv
<1>10. Holder'
  <2>1. CASE waits
    <3>1. Holder
      BY CancelParts DEF Inv
    <3> QED BY <1>4, <1>6, <1>7, <2>1, <3>1 DEF Holder
  <2>2. CASE ~waits
    BY <1>6, <1>7, <2>2 DEF Holder
  <2> QED BY <2>1, <2>2
<1>11. AtRest'
  <2>1. Busy(s)'
    BY <1>6 DEF Busy
  <2> QED BY <2>1 DEF AtRest
<1> QED BY <1>6, <1>8, <1>9, <1>10, <1>11, CancelParts DEF Inv, CancelReachesARequest, Holder, AtRest, Slots

\* A scan that sends a request under the controller of the page.
LEMMA RequestInv ==
  ASSUME Inputs, Inv, NEW s \in Slots, NEW c \in ScanRec, Own(c), c.phase = "page",
         scans[s].phase # "ended", scans' = [scans EXCEPT ![s] = c],
         PageOK', page'.session = page.session, page'.controller = c.signal,
         UNCHANGED <<saved, audit, detect>>
  PROVE  Inv'
<1>1. /\ scans' \in [Slots -> ScanRec] /\ \A r \in Slots : Own(scans'[r])
      /\ scans'[s] = c /\ \A r \in Slots \ {s} : scans'[r] = scans[r]
  BY OneScan
<1>2. TypeInv'
  BY <1>1 DEF Inv, TypeInv
<1>3. SessionInv'
  BY <1>1, SessionStays DEF Inv
<1>4. Holder'
  BY <1>1 DEF Holder
<1>5. AtRest'
  <2>1. Busy(s)'
    BY <1>1 DEF Busy
  <2> QED BY <2>1 DEF AtRest
<1> QED BY <1>1, <1>2, <1>3, <1>4, <1>5, CancelParts DEF Inv, CancelReachesARequest, Holder, AtRest, Slots

\* A scan that is over, with a session of its own or none.
LEMMA OverInv ==
  ASSUME Inputs, Inv, NEW s \in Slots, NEW c \in ScanRec, Own(c), c.phase = "ended",
         scans[s].phase # "ended", scans' = [scans EXCEPT ![s] = c],
         PageOK', page'.check, ~page'.cancel, page'.controller = 0,
         \/ page'.session = page.session
         \/ page'.session = Session(s, c) /\ ~c.aborted /\ c.results # << >>,
         UNCHANGED <<saved, audit, detect>>
  PROVE  Inv'
<1>1. /\ scans' \in [Slots -> ScanRec] /\ \A r \in Slots : Own(scans'[r])
      /\ scans'[s] = c /\ \A r \in Slots \ {s} : scans'[r] = scans[r]
  BY OneScan
<1>2. TypeInv'
  BY <1>1 DEF Inv, TypeInv
<1>3. SessionInv'
  <2>1. CASE page'.session = page.session
    BY <1>1, <2>1, SessionStays DEF Inv
  <2>2. CASE page'.session = Session(s, c) /\ ~c.aborted /\ c.results # << >>
    BY <1>1, <2>2 DEF SessionInv, Session, Hits
  <2> QED BY <2>1, <2>2
<1>4. Holder' /\ AtRest'
  BY DEF Holder, AtRest
<1> QED BY <1>1, <1>2, <1>3, <1>4, CancelParts DEF Inv, CancelReachesARequest, Holder, AtRest, Slots

\* The answer of the up-front detection (main.js:668-688).
LEMMA UpfrontInv ==
  ASSUME Inputs, Inv, NEW s \in Slots, NEW a \in Types \cup {"nothing", "failed"},
         UpfrontAnswered(s, a)
  PROVE  Inv'
<1> DEFINE named == a \in Types
           c == IF named
                THEN [scans[s] EXCEPT !.upfront = TRUE, !.type = a, !.from = scans[s].target,
                                      !.found = scans[s].target]
                ELSE [scans[s] EXCEPT !.upfront = a = "nothing"]
           p == IF named THEN Shown(page, a, scans[s].target) ELSE page
<1>1. scans[s] \in ScanRec /\ Own(scans[s]) /\ PageOK
  BY DEF Inv, TypeInv
<1>2. /\ scans[s].phase = "detect" /\ scans' = [scans EXCEPT ![s] = Bound(c, s)]
      /\ page' = [p EXCEPT !.controller = s] /\ UNCHANGED <<saved, audit, detect>>
  BY DEF UpfrontAnswered, UpfrontType
<1>3. c \in ScanRec /\ Own(c)
  <2>1. CASE named
    <3>1. c = [scans[s] EXCEPT !.upfront = TRUE, !.type = a, !.from = scans[s].target,
                               !.found = scans[s].target]
      BY <2>1
    <3> HIDE DEF c
    <3>2. c \in ScanRec
      BY <1>1, <2>1, <3>1 DEF ScanRec, Named
    <3>3. /\ c.found = c.target /\ c.from = c.target /\ c.probes = 0
      BY <1>1, <1>2, <3>1 DEF ScanRec, Own
    <3> QED BY <3>2, <3>3 DEF Own
  <2>2. CASE ~named
    <3>1. PICK up \in BOOLEAN : up = (a = "nothing")
      OBVIOUS
    <3>2. c = [scans[s] EXCEPT !.upfront = up]
      BY <2>2, <3>1
    <3> HIDE DEF c
    <3>3. c \in ScanRec
      BY <1>1, <3>2 DEF ScanRec
    <3>4. /\ c.found = scans[s].found /\ c.target = scans[s].target /\ c.type = scans[s].type
          /\ c.known = scans[s].known /\ c.from = scans[s].from /\ c.probes = 0
      BY <1>1, <1>2, <3>2 DEF ScanRec, Own
    <3> QED BY <1>1, <3>3, <3>4 DEF Own
  <2> QED BY <2>1, <2>2
<1>4. PageOK' /\ page'.session = page.session /\ page'.controller = s
  <2>1. s \in Nat
    BY DEF Slots
  <2>2. scans[s].target \in Urls
    BY <1>1 DEF ScanRec
  <2>3. CASE named
    BY <1>1, <1>2, <2>1, <2>2, <2>3 DEF PageOK, Shown, Named
  <2>4. CASE ~named
    BY <1>1, <1>2, <2>1, <2>4 DEF PageOK
  <2> QED BY <2>3, <2>4
<1> HIDE DEF c, p
<1>5. /\ Bound(c, s) \in ScanRec /\ Own(Bound(c, s)) /\ Bound(c, s).phase = "page"
      /\ Bound(c, s).signal = s
  BY <1>3, BoundIs DEF Slots
<1> QED BY <1>2, <1>4, <1>5, RequestInv

\* A scan that throws ends without a session (main.js:858-871).
LEMMA ThrowInv ==
  ASSUME Inputs, Inv, NEW s \in Slots, scans[s].phase = "page", Throw(s),
         UNCHANGED <<saved, audit, detect>>
  PROVE  Inv'
<1> DEFINE c == Ended(scans[s], FALSE)
<1>1. scans[s] \in ScanRec /\ Own(scans[s]) /\ PageOK
  BY DEF Inv, TypeInv
<1>2. c \in ScanRec /\ Own(c) /\ c.phase = "ended"
  BY <1>1, EndedIs
<1>3. scans' = [scans EXCEPT ![s] = c] /\ page' = Released(page)
  BY DEF Throw, Ended
<1>4. /\ PageOK' /\ page'.check /\ ~page'.cancel /\ page'.controller = 0
      /\ page'.session = page.session
  BY <1>1, <1>3 DEF PageOK, Released
<1> HIDE DEF c
<1> QED BY <1>2, <1>3, <1>4, OverInv

\* A scan that ends with results shows them (main.js:776-857).
LEMMA PublishInv ==
  ASSUME Inputs, Inv, NEW s \in Slots, scans[s].phase = "page", ~scans[s].aborted, Publish(s),
         UNCHANGED <<saved, audit, detect>>
  PROVE  Inv'
<1>1. scans[s] \in ScanRec /\ Own(scans[s]) /\ PageOK
  BY DEF Inv, TypeInv
<1>2. PICK some \in BOOLEAN : some = (scans[s].results # << >>)
  OBVIOUS
<1> DEFINE c == Ended(scans[s], some)
<1>3. /\ c \in ScanRec /\ Own(c) /\ c.phase = "ended"
      /\ some => /\ c.target = scans[s].target /\ c.fp = scans[s].fp
                 /\ c.found = scans[s].found /\ c.results = scans[s].results
                 /\ c.aborted = scans[s].aborted
  BY <1>1, EndedIs
<1>4. scans' = [scans EXCEPT ![s] = c]
  <2>1. CASE some
    BY <1>2, <2>1 DEF Publish, Ended
  <2>2. CASE ~some
    BY <1>2, <2>2 DEF Publish, Ended
  <2> QED BY <2>1, <2>2
<1>5. page' = IF some THEN [Released(page) EXCEPT !.session = Session(s, scans[s])] ELSE Released(page)
  BY <1>2 DEF Publish
<1> HIDE DEF c
<1>6. PageOK' /\ page'.check /\ ~page'.cancel /\ page'.controller = 0
  <2> DEFINE new == Session(s, scans[s])
  <2>1. some => page' = [Released(page) EXCEPT !.session = new]
    BY <1>5
  <2> HIDE DEF new
  <2>2. CASE some
    <3>1. PageOK
      BY <1>1
    <3>2. page' = [url |-> page.url, detected |-> page.detected, from |-> page.from,
                   controller |-> 0, check |-> TRUE, cancel |-> FALSE,
                   session |-> new, others |-> page.others]
      BY <2>1, <2>2, <3>1 DEF PageOK, Released
    <3> QED BY <3>1, <3>2 DEF PageOK
  <2>3. CASE ~some
    BY <1>1, <1>5, <2>3 DEF PageOK, Released
  <2> QED BY <2>2, <2>3
<1>7. \/ page'.session = page.session
      \/ page'.session = Session(s, c) /\ ~c.aborted /\ c.results # << >>
  <2> DEFINE new == Session(s, scans[s])
  <2>1. some => page' = [Released(page) EXCEPT !.session = new]
    BY <1>5
  <2>2. some => new = Session(s, c)
    BY <1>3, SessionKept
  <2> HIDE DEF new
  <2>3. CASE some
    <3>1. page'.session = new
      BY <1>1, <2>1, <2>3 DEF PageOK, Released
    <3> QED BY <1>2, <1>3, <2>2, <2>3, <3>1
  <2>4. CASE ~some
    BY <1>1, <1>5, <2>4 DEF PageOK, Released
  <2> QED BY <2>3, <2>4
<1> QED BY <1>3, <1>4, <1>6, <1>7, OverInv

\* A page came (main.js:743-774): the next request, or the end if there is no controller.
LEMMA PageAnsweredInv ==
  ASSUME Inputs, Inv, NEW s \in Slots, NEW item \in Items, PageAnswered(s, item)
  PROVE  Inv'
<1>1. /\ scans[s].phase = "page" /\ UNCHANGED <<saved, audit, detect>>
      /\ page.controller = 0 => Throw(s)
      /\ page.controller # 0 =>
           /\ scans' = [scans EXCEPT ![s] =
                           Bound([scans[s] EXCEPT !.results = Append(@, item)], page.controller)]
           /\ UNCHANGED page
  BY DEF PageAnswered, Answerable
<1>2. CASE page.controller = 0
  BY <1>1, <1>2, ThrowInv
<1>3. CASE page.controller # 0
  <2> DEFINE c == [scans[s] EXCEPT !.results = Append(@, item)]
             k == page.controller
  <2>1. scans[s] \in ScanRec /\ Own(scans[s]) /\ PageOK /\ k \in Nat
    BY DEF Inv, TypeInv, PageOK
  <2>2. PICK l \in Seq(Items) : l = Append(scans[s].results, item)
    <3>1. scans[s].results \in Seq(Items)
      BY <2>1 DEF ScanRec
    <3>2. Append(scans[s].results, item) \in Seq(Items)
      BY <3>1
    <3> QED BY <3>2
  <2>3. c = [scans[s] EXCEPT !.results = l]
    BY <2>2
  <2>4. scans' = [scans EXCEPT ![s] = Bound(c, k)]
    BY <1>1, <1>3
  <2> HIDE DEF c, k
  <2>5. c \in ScanRec
    BY <2>1, <2>3 DEF ScanRec
  <2>6. /\ c.found = scans[s].found /\ c.target = scans[s].target /\ c.type = scans[s].type
        /\ c.known = scans[s].known /\ c.from = scans[s].from /\ c.probes = scans[s].probes
        /\ c.upfront = scans[s].upfront /\ c.phase = scans[s].phase
    BY <2>1, <2>3 DEF ScanRec
  <2>7. Own(c)
    BY <2>1, <2>6 DEF Own
  <2>8. /\ Bound(c, k) \in ScanRec /\ Own(Bound(c, k)) /\ Bound(c, k).phase = "page"
        /\ Bound(c, k).signal = k
    BY <2>1, <2>5, <2>7, BoundIs
  <2>9. PageOK' /\ page'.session = page.session /\ page'.controller = k
    BY <1>1, <1>3, <2>1 DEF PageOK, k
  <2> QED BY <1>1, <2>4, <2>8, <2>9, RequestInv
<1> QED BY <1>2, <1>3

\* abort() changes no scan but those that wait (main.js:106-113).
LEMMA CancelInv ==
  ASSUME Inputs, Inv, Cancel
  PROVE  Inv'
<1>1. PageOK /\ scans \in [Slots -> ScanRec] /\ audit \in CallRec
  BY DEF Inv, TypeInv
<1>2. /\ PageOK' /\ page'.session = page.session /\ page'.check = page.check
      /\ ~page'.cancel /\ page'.controller = 0
  BY <1>1 DEF Cancel, PageOK
<1>3. ASSUME NEW r \in Slots
      PROVE  /\ scans'[r] \in ScanRec /\ Own(scans'[r]) /\ scans'[r].phase = scans[r].phase
             /\ scans[r].phase = "ended" => scans'[r] = scans[r]
  <2>1. scans[r] \in ScanRec /\ Own(scans[r])
    BY <1>1 DEF Inv
  <2>2. scans'[r] = Aborted(scans[r], "page")
    BY DEF Cancel, Slots
  <2>3. CASE scans[r].phase = "page" /\ scans[r].signal = page.controller
    <3>1. scans'[r] = [scans[r] EXCEPT !.aborted = TRUE]
      BY <2>2, <2>3 DEF Aborted
    <3>2. scans'[r] \in ScanRec
      BY <2>1, <3>1 DEF ScanRec
    <3>3. Own(scans'[r]) /\ scans'[r].phase = scans[r].phase
      BY <2>1, <3>1 DEF ScanRec, Own
    <3> QED BY <2>3, <3>2, <3>3
  <2>4. CASE ~(scans[r].phase = "page" /\ scans[r].signal = page.controller)
    BY <2>1, <2>2, <2>4 DEF Aborted
  <2> QED BY <2>3, <2>4
<1>4. scans' \in [Slots -> ScanRec]
  <2>1. scans' = [r \in Slots |-> scans'[r]]
    BY DEF Cancel, Slots
  <2> QED BY <1>3, <2>1
<1>5. audit' \in CallRec /\ audit'.phase = audit.phase
  <2>1. CASE audit.phase = "asked" /\ audit.signal = page.controller
    <3>1. audit' = [audit EXCEPT !.aborted = TRUE]
      BY <2>1 DEF Cancel, Aborted
    <3> QED BY <1>1, <3>1 DEF CallRec
  <2>2. CASE ~(audit.phase = "asked" /\ audit.signal = page.controller)
    BY <1>1, <2>2 DEF Cancel, Aborted
  <2> QED BY <2>1, <2>2
<1>6. TypeInv'
  BY <1>2, <1>4, <1>5 DEF Inv, TypeInv, Cancel
<1>7. SessionInv'
  BY <1>2, <1>3, SessionStays DEF Inv
<1>8. Holder'
  BY <1>2 DEF Holder
<1>9. AtRest'
  <2>1. AtRest
    BY CancelParts DEF Inv
  <2>2. \A r \in Slots : Busy(r)' <=> Busy(r)
    BY <1>3 DEF Busy
  <2> QED BY <1>2, <2>1, <2>2 DEF AtRest
<1> QED BY <1>3, <1>6, <1>7, <1>8, <1>9, CancelParts DEF Inv, CancelReachesARequest, Holder, AtRest, Slots

\* The audit takes the controller (main.js:877-902).
LEMMA StartAuditInv ==
  ASSUME Inputs, Inv, StartAudit
  PROVE  Inv'
<1>1. PageOK
  BY DEF Inv, TypeInv
<1>2. audit' \in CallRec /\ audit'.phase = "asked"
  <2> DEFINE k == MaxScans + page.others + 1
  <2>1. k \in Nat
    BY <1>1 DEF Inputs, PageOK
  <2>2. audit' = [Quiet EXCEPT !.phase = "asked", !.signal = k]
    BY DEF StartAudit
  <2> HIDE DEF k
  <2> QED BY <2>1, <2>2 DEF Quiet, CallRec, Urls
<1>3. PageOK' /\ page'.session = page.session /\ page'.check = page.check /\ page'.controller = audit'.signal
  <2>1. PICK k \in Nat : k = audit'.signal
    BY <1>2 DEF CallRec
  <2>2. PICK n \in Nat : n = page.others + 1
    BY <1>1 DEF PageOK
  <2>3. page' = [page EXCEPT !.cancel = TRUE, !.controller = k, !.others = n]
    BY <2>1, <2>2 DEF StartAudit
  <2>4. page' = [url |-> page.url, detected |-> page.detected, from |-> page.from,
                 controller |-> k, check |-> page.check, cancel |-> TRUE,
                 session |-> page.session, others |-> n]
    BY <1>1, <2>3 DEF PageOK
  <2>5. PageOK' /\ page'.session = page.session /\ page'.check = page.check /\ page'.controller = k
    BY <1>1, <2>4 DEF PageOK
  <2> QED BY <2>1, <2>5
<1>4. scans' = scans /\ saved' = saved /\ detect' = detect
  BY DEF StartAudit
<1>5. TypeInv'
  BY <1>2, <1>3, <1>4 DEF Inv, TypeInv
<1>6. SessionInv'
  BY <1>3, <1>4, SessionStays DEF Inv
<1>7. Holder'
  BY <1>2, <1>3 DEF Holder
<1>8. AtRest'
  <2>1. AtRest
    BY CancelParts DEF Inv
  <2>2. \A r \in Slots : Busy(r)' <=> Busy(r)
    BY <1>4 DEF Busy
  <2> QED BY <1>2, <1>3, <2>1, <2>2 DEF AtRest
<1> QED BY <1>4, <1>5, <1>6, <1>7, <1>8, CancelParts DEF Inv, CancelReachesARequest, Holder, AtRest, Slots

\* The audit puts the controller back, also that of a scan (main.js:904-925).
LEMMA AuditEndsInv ==
  ASSUME Inputs, Inv, AuditEnds
  PROVE  Inv'
<1>1. PageOK
  BY DEF Inv, TypeInv
<1>2. audit' \in CallRec
  BY BlankIs DEF AuditEnds
<1>3. /\ PageOK' /\ page'.session = page.session /\ page'.check = page.check
      /\ page'.controller = 0 /\ ~page'.cancel
  BY <1>1 DEF AuditEnds, PageOK
<1>4. scans' = scans /\ saved' = saved /\ detect' = detect
  BY DEF AuditEnds
<1>5. TypeInv'
  BY <1>2, <1>3, <1>4 DEF Inv, TypeInv
<1>6. SessionInv'
  BY <1>3, <1>4, SessionStays DEF Inv
<1>7. Holder'
  BY <1>3 DEF Holder
<1>8. AtRest'
  <2>1. AtRest
    BY CancelParts DEF Inv
  <2>2. \A r \in Slots : Busy(r)' <=> Busy(r)
    BY <1>4 DEF Busy
  <2> QED BY <1>3, <2>1, <2>2 DEF AtRest
<1> QED BY <1>4, <1>5, <1>6, <1>7, <1>8, CancelParts DEF Inv, CancelReachesARequest, Holder, AtRest, Slots

\* Steps that leave the scans, the audit, the controller and the buttons alone.
LEMMA AsideInv ==
  ASSUME Inputs, Inv, PageOK', saved' \in Urls, detect' \in CallRec,
         UNCHANGED <<scans, audit>>,
         page'.session = page.session, page'.controller = page.controller,
         page'.check = page.check, page'.cancel = page.cancel
  PROVE  Inv'
<1>1. TypeInv'
  BY DEF Inv, TypeInv
<1>2. SessionInv'
  BY SessionStays DEF Inv
<1>3. Holder'
  <2>1. Holder
    BY CancelParts DEF Inv
  <2> QED BY <2>1 DEF Holder
<1>4. AtRest'
  <2>1. AtRest
    BY CancelParts DEF Inv
  <2>2. \A r \in Slots : Busy(r)' <=> Busy(r)
    BY DEF Busy
  <2> QED BY <2>1, <2>2 DEF AtRest
<1> QED BY <1>1, <1>2, <1>3, <1>4, CancelParts DEF Inv, CancelReachesARequest, Holder, AtRest, Slots

\* The detection button, its answer, the end of a detection and the input.
LEMMA StartDetectInv ==
  ASSUME Inputs, Inv, StartDetect
  PROVE  Inv'
<1>1. PageOK /\ page.url \in Urls
  BY DEF Inv, TypeInv, PageOK, Urls
<1>2. /\ PageOK' /\ page'.session = page.session /\ page'.controller = page.controller
      /\ page'.check = page.check /\ page'.cancel = page.cancel
  BY <1>1 DEF StartDetect, PageOK
<1>3. detect' \in CallRec
  <2>1. detect' = [Quiet EXCEPT !.phase = "asked", !.target = page.url]
    BY DEF StartDetect
  <2> QED BY <1>1, <2>1 DEF Quiet, CallRec
<1>4. saved' \in Urls /\ UNCHANGED <<scans, audit>>
  BY DEF StartDetect, Inv, TypeInv
<1> QED BY <1>2, <1>3, <1>4, AsideInv

LEMMA DetectAnsweredInv ==
  ASSUME Inputs, Inv, NEW a, DetectAnswered(a)
  PROVE  Inv'
<1>1. PageOK /\ detect.target \in Urls
  BY DEF Inv, TypeInv, CallRec
<1>2. /\ PageOK' /\ page'.session = page.session /\ page'.controller = page.controller
      /\ page'.check = page.check /\ page'.cancel = page.cancel
  <2>1. CASE a \in Types
    <3>1. page' = [page EXCEPT !.detected = a, !.from = detect.target]
      BY <2>1 DEF DetectAnswered, Shown
    <3>2. a \in Named
      BY <2>1 DEF Named
    <3> QED BY <1>1, <3>1, <3>2 DEF PageOK
  <2>2. CASE a \notin Types /\ a = "nothing"
    <3>1. page' = [page EXCEPT !.detected = None, !.from = None]
      BY <2>2 DEF DetectAnswered
    <3> QED BY <1>1, <3>1 DEF PageOK, Named, Urls
  <2>3. CASE a \notin Types /\ a # "nothing"
    <3>1. page' = page
      BY <2>3 DEF DetectAnswered
    <3> QED BY <1>1, <3>1 DEF PageOK
  <2> QED BY <2>1, <2>2, <2>3
<1>3. detect' \in CallRec /\ saved' \in Urls /\ UNCHANGED <<scans, audit>>
  BY BlankIs DEF DetectAnswered, Inv, TypeInv
<1> QED BY <1>2, <1>3, AsideInv

LEMMA ClearDetectionInv ==
  ASSUME Inputs, Inv, ClearDetection
  PROVE  Inv'
<1>1. PageOK
  BY DEF Inv, TypeInv
<1>2. /\ PageOK' /\ page'.session = page.session /\ page'.controller = page.controller
      /\ page'.check = page.check /\ page'.cancel = page.cancel
  BY <1>1 DEF ClearDetection, PageOK, Named, Urls
<1>3. detect' \in CallRec /\ saved' \in Urls /\ UNCHANGED <<scans, audit>>
  BY DEF ClearDetection, Inv, TypeInv
<1> QED BY <1>2, <1>3, AsideInv

LEMMA TypeStepInv ==
  ASSUME Inputs, Inv, NEW t \in Targets, Type(t)
  PROVE  Inv'
<1>1. PageOK
  BY DEF Inv, TypeInv
<1>2. /\ PageOK' /\ page'.session = page.session /\ page'.controller = page.controller
      /\ page'.check = page.check /\ page'.cancel = page.cancel
  BY <1>1 DEF Type, PageOK
<1>3. detect' \in CallRec /\ saved' \in Urls /\ UNCHANGED <<scans, audit>>
  BY DEF Type, Inv, TypeInv
<1> QED BY <1>2, <1>3, AsideInv

\* A page that was loaded again knows of no session and no controller
\* (main.js:1914-1970).
LEMMA ReloadInv ==
  ASSUME Inputs, Inv, Reload
  PROVE  Inv'
<1>1. PageOK /\ saved \in Targets
  BY DEF Inv, TypeInv, Reload, Urls
<1>2. /\ PageOK' /\ page'.session = None /\ page'.check /\ ~page'.cancel
      /\ page'.controller = 0
  BY <1>1 DEF Reload, PageOK, Fresh, Named, Urls
<1>3. ASSUME NEW r \in Slots
      PROVE  scans'[r] \in ScanRec /\ Own(scans'[r])
  <2>1. scans'[r] = Blank \/ scans'[r] = [Blank EXCEPT !.phase = "ended"]
    BY DEF Reload, Slots
  <2>2. CASE scans'[r] = Blank
    BY <2>2, BlankIs
  <2>3. CASE scans'[r] = [Blank EXCEPT !.phase = "ended"]
    <3>1. scans'[r] \in ScanRec
      BY <2>3, BlankIs DEF ScanRec
    <3>2. Own(scans'[r])
      BY <2>3 DEF Own, Blank
    <3> QED BY <3>1, <3>2
  <2> QED BY <2>1, <2>2, <2>3
<1>4. scans' \in [Slots -> ScanRec]
  <2>1. scans' = [r \in Slots |-> scans'[r]]
    BY DEF Reload, Slots
  <2> QED BY <1>3, <2>1
<1>5. audit' \in CallRec /\ detect' \in CallRec /\ saved' = saved
  BY BlankIs DEF Reload
<1>6. TypeInv'
  BY <1>1, <1>2, <1>4, <1>5 DEF TypeInv, Urls
<1>7. SessionInv' /\ Holder' /\ AtRest'
  BY <1>2 DEF SessionInv, Holder, AtRest
<1> QED BY <1>3, <1>6, <1>7, CancelParts DEF Inv, CancelReachesARequest, Holder, AtRest, Slots

-----------------------------------------------------------------------------

LEMMA InitInv ==
  ASSUME Inputs, Init
  PROVE  Inv
<1>1. /\ PageOK /\ page.session = None /\ page.controller = 0 /\ page.check /\ ~page.cancel
  BY DEF Init, Inputs, Fresh, PageOK, Named, Urls
<1>2. scans \in [Slots -> ScanRec] /\ \A s \in Slots : Own(scans[s])
  <2>1. scans = [s \in Slots |-> Blank]
    BY DEF Init, Slots
  <2> QED BY <2>1, BlankIs
<1>3. TypeInv
  BY <1>1, <1>2, BlankIs DEF Init, TypeInv, Urls
<1>4. SessionInv /\ Holder /\ AtRest
  BY <1>1 DEF SessionInv, Holder, AtRest
<1> QED BY <1>2, <1>3, <1>4, CancelParts DEF Inv

LEMMA StutterInv ==
  ASSUME Inputs, Inv, UNCHANGED vars
  PROVE  Inv'
<1>1. PageOK'
  BY DEF Inv, TypeInv, PageOK, vars
<1>2. saved' \in Urls /\ detect' \in CallRec
  BY DEF Inv, TypeInv, vars
<1> QED BY <1>1, <1>2, AsideInv DEF vars

LEMMA NextInv ==
  ASSUME Inputs, Inv, [Next]_vars
  PROVE  Inv'
<1>1. CASE \E t \in Targets : Type(t)
  BY <1>1, TypeStepInv
<1>2. ASSUME NEW s \in Slots, NEW o \in Settings, StartScan(s, o.auto, o.fp)
      PROVE  Inv'
  BY <1>2, StartInv
<1>3. ASSUME NEW s \in Slots, NEW a \in Types \cup {"nothing", "failed"}, UpfrontAnswered(s, a)
      PROVE  Inv'
  BY <1>3, UpfrontInv
<1>4. ASSUME NEW s \in Slots, NEW item \in Items, PageAnswered(s, item)
      PROVE  Inv'
  BY <1>4, PageAnsweredInv
<1>5. ASSUME NEW s \in Slots, NEW failed \in BOOLEAN, ScanEnds(s, failed)
      PROVE  Inv'
  BY <1>5, ThrowInv, PublishInv DEF ScanEnds, Answerable
<1>6. ASSUME NEW s \in Slots, ScanAborted(s)
      PROVE  Inv'
  BY <1>6, ThrowInv DEF ScanAborted
<1>7. CASE Cancel
  BY <1>7, CancelInv
<1>8. CASE StartAudit \/ AuditEnds
  BY <1>8, StartAuditInv, AuditEndsInv
<1>9. CASE StartDetect \/ ClearDetection
  BY <1>9, StartDetectInv, ClearDetectionInv
<1>10. CASE \E a \in Types \cup {"nothing", "captcha", "failed"} : DetectAnswered(a)
  BY <1>10, DetectAnsweredInv
<1>11. CASE Reload
  BY <1>11, ReloadInv
<1>12. CASE UNCHANGED vars
  BY <1>12, StutterInv
<1> QED BY <1>1, <1>2, <1>3, <1>4, <1>5, <1>6, <1>7, <1>8, <1>9, <1>10, <1>11, <1>12
        DEF Next, Slots

LEMMA Invariant == ASSUME Inputs PROVE Spec => []Inv
<1>1. Init => Inv
  BY InitInv
<1>2. Inv /\ [Next]_vars => Inv'
  BY NextInv
<1> QED BY <1>1, <1>2, PTL DEF Spec

\* What the page exports and makes patches of is one scan that gave results and was
\* not cancelled, whatever other scans, audits, detections, cancels and reloads
\* happen meanwhile (main.js:789-848).
THEOREM OneScanPerSession == ASSUME Inputs PROVE Spec => []SessionIsOneScan
<1>1. Inv => SessionIsOneScan
  <2> SUFFICES ASSUME Inv, page.session # None PROVE SessionIsOneScan
    BY DEF SessionIsOneScan
  <2>1. PICK s \in Slots : /\ page.session = Session(s, scans[s])
                           /\ scans[s].phase = "ended" /\ ~scans[s].aborted
                           /\ scans[s].results # << >>
    BY DEF Inv, SessionInv
  <2>2. scans[s] \in ScanRec /\ Own(scans[s])
    BY DEF Inv, TypeInv
  <2>3. /\ page.session.scan = s /\ page.session.url = scans[s].target
        /\ page.session.results = scans[s].results /\ page.session.found = scans[s].found
        /\ scans[s].fp => page.session.banner = 0
    BY <2>1 DEF Session
  <2> QED BY <2>1, <2>2, <2>3 DEF SessionIsOneScan, Own
<1> QED BY <1>1, Invariant, PTL

\* A scan that knew no WAF at its start uses only one detected at its own target,
\* though detections share a variable of the window; the server detects for it only
\* if the up-front detection gave no answer (main.js:659-709).
THEOREM TypesStayApart == ASSUME Inputs PROVE Spec => []TypeIsItsOwn
<1>1. Inv => TypeIsItsOwn
  BY DEF Inv, Own, TypeIsItsOwn, Slots
<1> QED BY <1>1, Invariant, PTL

\* The controller that Cancel aborts is one a request waits on, and with nothing
\* running the buttons are those of an idle page (main.js:687, 866-871, 918-924).
THEOREM CancelActs == ASSUME Inputs PROVE Spec => []CancelReachesARequest
<1>1. Inv => CancelReachesARequest
  BY DEF Inv
<1> QED BY <1>1, Invariant, PTL
=============================================================================
