----------------------------- MODULE EngineProofs -----------------------------
(***************************************************************************)
(* The invariants of Verdict, for every set of answers and every relation  *)
(* of similarity that is reflexive, those of the page, which BrowserProofs *)
(* proves, as it runs in the engine's model, and what the virtual patches  *)
(* of any scan hold, asked for with any options.                           *)
(***************************************************************************)
EXTENDS MCEngine, Induction, TLAPS

Tab == INSTANCE BrowserProofs WITH page <- tab

\* The profile is what captureBaseline made of the benign answer, and a verdict
\* is what evaluateWAFVerdict makes of its answer now: nothing changed since.
Provenance ==
  /\ benign = None <=> profile = None
  /\ benign # None => profile = Capture(benign.reply, benign.waf)
  /\ stage = "calibrate" => benign = None
  /\ judged # None =>
       /\ stage = "scan"
       /\ judged.result = Evaluate(judged.reply, detected,
                                   IF judged.file THEN FileBaseline(profile) ELSE profile)

IInv == TypeOK /\ Provenance

\* Every answer the code can evaluate gets a documented result.
LEMMA EvaluateType ==
  ASSUME NEW r \in Reply, NEW w \in Wafs, NEW p \in Profile \cup {None}
  PROVE  /\ Evaluate(r, w, p) \in Result
         /\ Evaluate(r, w, p).blocked = (Evaluate(r, w, p).verdict = "blocked")
BY DEF Evaluate, Result, Notes, CustomBlock, Passed

\* captureBaseline returns a profile.
LEMMA CaptureType ==
  ASSUME NEW r \in Reply, NEW w \in Wafs
  PROVE  Capture(r, w) \in Profile
<1>1. IsOriginBlocked(r, w) \in BOOLEAN
  BY DEF IsOriginBlocked
<1>2. WafBlockedOnBenign(r, w) \in BOOLEAN
  <2>1. \A p \in Profile \cup {None} : Evaluate(r, w, p).blocked \in BOOLEAN
    BY EvaluateType DEF Result
  <2>2. [status |-> r.status, form |-> r.form,
         wafBlockedOnBenign |-> FALSE, isOriginBlocked |-> TRUE] \in Profile
    BY DEF Profile, Reply
  <2> QED BY <2>1, <2>2 DEF WafBlockedOnBenign
<1> QED BY <1>1, <1>2 DEF Capture, Profile, Reply

\* The invariant holds initially and every step keeps it.
LEMMA Inductive == (Init => IInv) /\ (IInv /\ [Next]_vars => IInv')
<1>1. Init => IInv
  BY DEF Init, IInv, TypeOK, Provenance, Wafs
<1>2. IInv /\ [Next]_vars => IInv'
  <2> SUFFICES ASSUME IInv, [Next]_vars PROVE IInv'
    OBVIOUS
  <2> USE VerdictAssumption DEF IInv
  <2>1. CASE \E w \in Wafs : Detect(w)
    BY <2>1 DEF Detect, TypeOK, Provenance
  <2>2. CASE NoCalibration
    BY <2>2 DEF NoCalibration, TypeOK, Provenance
  <2>3. CASE Report
    BY <2>3 DEF Report, TypeOK, Provenance
  <2>4. CASE NextPage
    BY <2>4 DEF NextPage, TypeOK, Provenance
  <2>5. CASE \E r \in Replies : Calibrate(r)
    <3> PICK r \in Replies : Calibrate(r)
      BY <2>5
    <3>1. r \in Reply /\ Capture(r, detected) \in Profile
      BY CaptureType DEF TypeOK
    <3>2. [reply |-> r, waf |-> detected] \in [reply : Reply, waf : Wafs]
      BY <3>1 DEF TypeOK
    <3>3. TypeOK'
      BY <3>1, <3>2 DEF Calibrate, TypeOK
    <3>4. benign' # None /\ profile' # None /\ judged' = None
      BY <3>1, <3>2 DEF Calibrate, Provenance
    <3>5. Provenance'
      BY <3>4 DEF Calibrate, Provenance
    <3> QED BY <3>3, <3>5
  <2>6. CASE \E r \in Replies, file \in BOOLEAN : Judge(r, file)
    <3> PICK r \in Replies, file \in BOOLEAN : Judge(r, file)
      BY <2>6
    <3> DEFINE used == IF file THEN FileBaseline(profile) ELSE profile
               res  == Evaluate(r, detected, used)
    <3>1. used \in Profile \cup {None}
      BY DEF TypeOK, FileBaseline
    <3>2. res \in Result /\ res.blocked = (res.verdict = "blocked")
      BY <3>1, EvaluateType DEF TypeOK
    <3>3. judged' = [reply |-> r, file |-> file, result |-> res]
      BY DEF Judge
    <3> HIDE DEF res
    <3>4. judged' \in Judgement
      BY <3>2, <3>3 DEF Judgement
    <3>5. TypeOK'
      BY <3>2, <3>3, <3>4 DEF Judge, TypeOK
    <3>6. Provenance'
      BY <3>3 DEF Judge, Provenance, res
    <3> QED BY <3>5, <3>6
  <2>7. CASE UNCHANGED vars
    BY <2>7 DEF vars, TypeOK, Provenance
  <2> QED BY <2>1, <2>2, <2>3, <2>4, <2>5, <2>6, <2>7 DEF Next
<1> QED BY <1>1, <1>2

\* Type correctness of the scan's verdicts, with where they come from.
THEOREM InvariantHolds == Spec => []IInv
BY Inductive, PTL DEF Spec

\* Every verdict the scan reports is well formed, whatever the target answers.
THEOREM TypeCorrect == Spec => []TypeOK
<1>1. IInv => TypeOK
  BY DEF IInv
<1> QED BY <1>1, InvariantHolds, PTL

-----------------------------------------------------------------------------
(* What a baseline clears and adds.                                        *)

\* What captureBaseline calls the origin's own denial carries no sign of a WAF.
LEMMA OriginBlockedIsClean ==
  ASSUME NEW r \in Reply, NEW w \in Wafs, Capture(r, w).isOriginBlocked
  PROVE  /\ Denial(r) /\ ~Signal(r, w) /\ Capture(r, w).status = r.status
         /\ Capture(r, w).form = r.form
<1> DEFINE self == [status |-> r.status, form |-> r.form,
                    wafBlockedOnBenign |-> FALSE, isOriginBlocked |-> TRUE]
<1>1. IsOriginBlocked(r, w) /\ Capture(r, w).status = r.status /\ Capture(r, w).form = r.form
  BY DEF Capture
<1>2. Denial(r) /\ ~Evaluate(r, w, self).blocked /\ Blocked(r, w)
  BY <1>1 DEF IsOriginBlocked, WafBlockedOnBenign, Denial, Blocked, BlockStatus
<1>3. OriginDenial(r, w, self)
  BY <1>2 DEF Evaluate, CustomBlock
<1> QED BY <1>1, <1>2, <1>3 DEF OriginDenial

\* captureBaseline and evaluateWAFVerdict agree about the benign answer itself.
LEMMA SelfAgreement ==
  ASSUME NEW r \in Reply, NEW w \in Wafs
  PROVE  Evaluate(r, w, Capture(r, w)).blocked <=> Capture(r, w).wafBlockedOnBenign
<1> DEFINE p == Capture(r, w)
           self == [status |-> r.status, form |-> r.form,
                    wafBlockedOnBenign |-> FALSE, isOriginBlocked |-> TRUE]
<1>0. p \in Profile /\ p # None /\ self # None /\ p.status = r.status /\ p.form = r.form
  <2>1. self \in Profile
    BY DEF Profile, Reply
  <2> QED BY <2>1, CaptureType, VerdictAssumption DEF Capture
<1>a. Similar(r, p) /\ Similar(r, self)
  BY <1>0, VerdictAssumption DEF Similar, Reply
<1>b. ~SoftBlock(r, w, p) /\ ~SoftBlock(r, w, self)
  BY <1>a DEF SoftBlock
<1>c. Evaluate(r, w, p).blocked <=> Blocked(r, w) /\ ~OriginDenial(r, w, p)
  BY <1>b DEF Evaluate, OriginDenial
<1>d. Evaluate(r, w, self).blocked <=> Blocked(r, w) /\ ~OriginDenial(r, w, self)
  BY <1>b DEF Evaluate, OriginDenial
<1>e. OriginDenial(r, w, self) <=> Blocked(r, w) /\ ~Signal(r, w)
  BY <1>0, <1>a DEF OriginDenial
<1>f. OriginDenial(r, w, p) <=> Blocked(r, w) /\ ~Signal(r, w) /\ p.isOriginBlocked
  BY <1>0, <1>a DEF OriginDenial
<1>g. Evaluate(r, w, None).blocked <=> Blocked(r, w)
  BY DEF Evaluate, OriginDenial, SoftBlock
<1> HIDE DEF self
<1>1. CASE r.status \in {"ERR", "BLOCKED"}
  <2>1. ~p.isOriginBlocked /\ (p.wafBlockedOnBenign <=> r.status = "BLOCKED")
    BY <1>1 DEF Capture
  <2>2. CASE r.status = "BLOCKED"
    BY <1>c, <1>f, <2>1, <2>2 DEF Blocked, BlockStatus
  <2>3. CASE r.status = "ERR"
    BY <1>c, <1>f, <2>1, <2>3 DEF Blocked, BlockStatus, Marked, Reply
  <2> QED BY <1>1, <2>2, <2>3
<1>2. CASE r.status \notin {"ERR", "BLOCKED"}
  <2>1. /\ p.wafBlockedOnBenign = WafBlockedOnBenign(r, w)
        /\ p.isOriginBlocked = IsOriginBlocked(r, w)
    BY <1>2 DEF Capture
  <2>2. CASE Denial(r)
    <3>1. Blocked(r, w)
      BY <2>2 DEF Denial, Blocked, BlockStatus
    <3>2. WafBlockedOnBenign(r, w) <=> Signal(r, w) \/ ~r.originAuth
      BY <2>2, <3>1, <1>d, <1>e DEF WafBlockedOnBenign, self
    <3>3. IsOriginBlocked(r, w) <=> ~Signal(r, w) /\ r.originAuth
      BY <2>2, <3>1, <3>2, <1>g DEF IsOriginBlocked
    <3> QED BY <2>1, <3>1, <3>2, <3>3, <1>c, <1>f
  <2>3. CASE ~Denial(r)
    <3>1. ~IsOriginBlocked(r, w) /\ (WafBlockedOnBenign(r, w) <=> Blocked(r, w))
      BY <2>3, <1>g DEF IsOriginBlocked, WafBlockedOnBenign
    <3> QED BY <2>1, <3>1, <1>c, <1>f
  <2> QED BY <2>2, <2>3
<1> QED BY <1>1, <1>2

\* The one way a baseline clears a block.
LEMMA Cleared ==
  ASSUME NEW r, NEW w, NEW p,
         Evaluate(r, w, None).blocked, ~Evaluate(r, w, p).blocked
  PROVE  OriginDenial(r, w, p)
BY DEF Evaluate, OriginDenial, SoftBlock, CustomBlock

\* The one way a baseline adds a block.
LEMMA Added ==
  ASSUME NEW r, NEW w, NEW p,
         ~Evaluate(r, w, None).blocked, Evaluate(r, w, p).blocked
  PROVE  SoftBlock(r, w, p)
BY DEF Evaluate, OriginDenial, SoftBlock, CustomBlock

\* An attack answered like the benign request is a block exactly when the
\* baseline holds that a WAF blocked the benign request.
THEOREM BaselineAgrees == Spec => []BenignAnswerAgrees
<1>1. IInv => BenignAnswerAgrees
  <2> SUFFICES ASSUME IInv, judged # None, benign # None,
                      judged.reply = benign.reply, ~judged.file, detected = benign.waf
               PROVE  judged.result.blocked <=> profile.wafBlockedOnBenign
    BY DEF BenignAnswerAgrees
  <2>1. benign.reply \in Reply /\ benign.waf \in Wafs
    BY DEF IInv, TypeOK
  <2>2. profile = Capture(benign.reply, benign.waf)
    BY DEF IInv, Provenance
  <2>3. judged.result = Evaluate(benign.reply, benign.waf, profile)
    BY DEF IInv, Provenance
  <2> QED BY <2>1, <2>2, <2>3, SelfAgreement
<1> QED BY <1>1, InvariantHolds, PTL

\* A block is cleared only for an answer like the benign one, with no sign of a
\* WAF on either, whatever pages lie between them.
THEOREM ClearedCorrectly == Spec => []ClearedOnlyAsOrigin
<1>1. IInv => ClearedOnlyAsOrigin
  <2> DEFINE used == IF judged.file THEN FileBaseline(profile) ELSE profile
             r == judged.reply
             b == benign.reply
  <2> SUFFICES ASSUME IInv, judged # None, Uncalibrated.blocked, ~judged.result.blocked
               PROVE  /\ benign # None /\ detected = "none" /\ benign.waf = "none"
                      /\ b.status = r.status /\ <<r.form, b.form>> \in Alike
                      /\ \A x \in {b, r} :
                           x.headers = "none" /\ x.marker \in {"none", "incident"}
    BY DEF ClearedOnlyAsOrigin
  <2>1. judged.result = Evaluate(r, detected, used)
    BY DEF IInv, Provenance
  <2>2. OriginDenial(r, detected, used)
    BY <2>1, Cleared DEF Uncalibrated
  <2>3. used = profile /\ profile # None /\ profile.isOriginBlocked
    BY <2>2 DEF OriginDenial, FileBaseline
  <2>4. benign # None /\ profile = Capture(b, benign.waf)
    BY <2>3 DEF IInv, Provenance
  <2>5. r \in Reply /\ b \in Reply /\ benign.waf \in Wafs /\ detected \in Wafs
    BY <2>4 DEF IInv, TypeOK, Judgement
  <2>6. /\ Denial(b) /\ ~Signal(b, benign.waf)
        /\ profile.status = b.status /\ profile.form = b.form
    BY <2>3, <2>4, <2>5, OriginBlockedIsClean
  <2>7. /\ Blocked(r, detected) /\ ~Signal(r, detected)
        /\ r.status = b.status /\ <<r.form, b.form>> \in Alike
    BY <2>2, <2>3, <2>6 DEF OriginDenial, Similar
  <2>8. \A x \in Reply, w \in Wafs : Blocked(x, w) /\ ~Signal(x, w) =>
           w = "none" /\ x.headers = "none" /\ x.marker \in {"none", "incident"}
    BY DEF Signal, Marked, Reply, Headers, Markers
  <2>9. Blocked(b, benign.waf)
    BY <2>6 DEF Denial, Blocked, BlockStatus
  <2> QED BY <2>4, <2>5, <2>6, <2>7, <2>8, <2>9
<1> QED BY <1>1, InvariantHolds, PTL

\* A block is added only for a page unlike the benign one.
THEOREM AddedCorrectly == Spec => []AddedOnlyIfDifferent
<1>1. IInv => AddedOnlyIfDifferent
  <2> DEFINE used == IF judged.file THEN FileBaseline(profile) ELSE profile
             r == judged.reply
  <2> SUFFICES ASSUME IInv, judged # None, judged.result.blocked, ~Uncalibrated.blocked
               PROVE  /\ benign # None /\ benign.reply.status = "ok"
                      /\ <<r.form, benign.reply.form>> \notin Alike
    BY DEF AddedOnlyIfDifferent
  <2>1. judged.result = Evaluate(r, detected, used)
    BY DEF IInv, Provenance
  <2>2. SoftBlock(r, detected, used)
    BY <2>1, Added DEF Uncalibrated
  <2>3. used = profile /\ profile # None /\ profile.status = "ok"
    BY <2>2 DEF SoftBlock, FileBaseline
  <2>4. benign # None /\ profile = Capture(benign.reply, benign.waf)
    BY <2>3 DEF IInv, Provenance
  <2>5. profile.status = benign.reply.status /\ profile.form = benign.reply.form
    BY <2>4 DEF Capture
  <2> QED BY <2>2, <2>3, <2>4, <2>5 DEF SoftBlock, Similar
<1> QED BY <1>1, InvariantHolds, PTL

\* The baseline of the base URL never clears the block of a file check.
THEOREM FileBlocksKept == Spec => []FileBlocksStay
<1>1. IInv => FileBlocksStay
  <2> DEFINE used == FileBaseline(profile)
  <2> SUFFICES ASSUME IInv, judged # None, judged.file, Uncalibrated.blocked,
                      ~judged.result.blocked
               PROVE  FALSE
    BY DEF FileBlocksStay, IInv, TypeOK, Judgement, Result
  <2>1. judged.result = Evaluate(judged.reply, detected, used)
    BY DEF IInv, Provenance
  <2>2. OriginDenial(judged.reply, detected, used)
    BY <2>1, Cleared DEF Uncalibrated
  <2> QED BY <2>2 DEF OriginDenial, FileBaseline
<1> QED BY <1>1, InvariantHolds, PTL

-----------------------------------------------------------------------------
(* The page.                                                               *)

\* MCEngine and BrowserProofs name the same actions of Browser.
LEMMA SameSteps == Window!Next => Tab!Next
<1>1. ASSUME NEW t PROVE Window!Type(t) => Tab!Type(t)
  BY DEF Window!Type, Tab!Type
<1>2. ASSUME NEW s, NEW auto, NEW test
      PROVE  Window!StartScan(s, auto, test) => Tab!StartScan(s, auto, test)
  BY DEF Window!StartScan, Tab!StartScan, Window!NewScan, Tab!NewScan, Window!Blank,
         Tab!Blank, Window!HasType, Tab!HasType, Window!Bound, Tab!Bound, Window!Asks,
         Tab!Asks
<1>3. ASSUME NEW s, NEW a PROVE Window!UpfrontAnswered(s, a) => Tab!UpfrontAnswered(s, a)
  BY DEF Window!UpfrontAnswered, Tab!UpfrontAnswered, Window!UpfrontType, Tab!UpfrontType,
         Window!Shown, Tab!Shown, Window!Bound, Tab!Bound, Window!Asks, Tab!Asks
<1>4. ASSUME NEW s, NEW item PROVE Window!PageAnswered(s, item) => Tab!PageAnswered(s, item)
  BY DEF Window!PageAnswered, Tab!PageAnswered, Window!Answerable, Tab!Answerable,
         Window!Throw, Tab!Throw, Window!Ended, Tab!Ended, Window!Blank, Tab!Blank,
         Window!Released, Tab!Released, Window!Bound, Tab!Bound, Window!Asks, Tab!Asks
<1>5. ASSUME NEW s, NEW failed PROVE Window!ScanEnds(s, failed) => Tab!ScanEnds(s, failed)
  BY DEF Window!ScanEnds, Tab!ScanEnds, Window!Answerable, Tab!Answerable, Window!Throw,
         Tab!Throw, Window!Publish, Tab!Publish, Window!Session, Tab!Session, Window!Hits,
         Tab!Hits, Window!Cardinality, Tab!Cardinality, Window!Ended, Tab!Ended,
         Window!Blank, Tab!Blank, Window!Released, Tab!Released
<1>6. ASSUME NEW s PROVE Window!ScanAborted(s) => Tab!ScanAborted(s)
  BY DEF Window!ScanAborted, Tab!ScanAborted, Window!Throw, Tab!Throw, Window!Ended,
         Tab!Ended, Window!Blank, Tab!Blank, Window!Released, Tab!Released
<1>7. Window!Cancel => Tab!Cancel
  BY DEF Window!Cancel, Tab!Cancel, Window!Aborted, Tab!Aborted
<1>8. Window!StartAudit => Tab!StartAudit
  BY DEF Window!StartAudit, Tab!StartAudit, Window!Quiet, Tab!Quiet
<1>9. Window!AuditEnds => Tab!AuditEnds
  BY DEF Window!AuditEnds, Tab!AuditEnds, Window!Quiet, Tab!Quiet
<1>10. Window!StartDetect => Tab!StartDetect
  BY DEF Window!StartDetect, Tab!StartDetect, Window!Quiet, Tab!Quiet
<1>11. ASSUME NEW a PROVE Window!DetectAnswered(a) => Tab!DetectAnswered(a)
  BY DEF Window!DetectAnswered, Tab!DetectAnswered, Window!Quiet, Tab!Quiet, Window!Shown,
         Tab!Shown
<1>12. Window!ClearDetection => Tab!ClearDetection
  BY DEF Window!ClearDetection, Tab!ClearDetection
<1>13. Window!Reload => Tab!Reload
  BY DEF Window!Reload, Tab!Reload, Window!Fresh, Tab!Fresh, Window!Blank, Tab!Blank,
         Window!Quiet, Tab!Quiet
<1> QED
  BY <1>1, <1>2, <1>3, <1>4, <1>5, <1>6, <1>7, <1>8, <1>9, <1>10, <1>11, <1>12, <1>13
     DEF Window!Next, Tab!Next

\* Steps of the other components leave the page alone.
LEMMA TabSteps == EngineSpec => Tab!Spec
<1>1. EngineInit => Tab!Init
  BY DEF EngineInit, Window!Init, Tab!Init, Window!Fresh, Tab!Fresh, Window!Blank, Tab!Blank,
         Window!Quiet, Tab!Quiet
<1>2. [EngineNext]_allVars => [Tab!Next]_(Tab!vars)
  <2>1. EngineNext => Window!Next \/ UNCHANGED tabVars
    BY DEF EngineNext, VerdictStep
  <2>2. UNCHANGED allVars => UNCHANGED tabVars
    BY DEF allVars
  <2>3. UNCHANGED tabVars => UNCHANGED Tab!vars
    BY DEF tabVars, Tab!vars
  <2> QED BY <2>1, <2>2, <2>3, SameSteps
<1> QED BY <1>1, <1>2, PTL DEF EngineSpec, Tab!Spec

\* However scans, audits, detections, cancels and reloads interleave on the page,
\* what it keeps of a scan is that scan's, a type found for a scan is of its
\* target, and Cancel reaches a request that waits (main.js:543-871).
THEOREM ScansApart == EngineSpec => []ScansAreApart
<1>1. Tab!Inputs
  BY EngineAssumption DEF Tab!Inputs
<1>2. Tab!Spec => [](Tab!SessionIsOneScan)
  BY <1>1, Tab!OneScanPerSession
<1>3. Tab!Spec => [](Tab!TypeIsItsOwn)
  BY <1>1, Tab!TypesStayApart
<1>4. Tab!Spec => [](Tab!CancelReachesARequest)
  BY <1>1, Tab!CancelActs
<1>5. Tab!SessionIsOneScan /\ Tab!TypeIsItsOwn /\ Tab!CancelReachesARequest => ScansAreApart
  BY DEF ScansAreApart, Tab!SessionIsOneScan, Window!SessionIsOneScan, Tab!TypeIsItsOwn,
         Window!TypeIsItsOwn, Tab!CancelReachesARequest, Window!CancelReachesARequest,
         Tab!Busy, Window!Busy
<1> QED BY <1>2, <1>3, <1>4, <1>5, TabSteps, PTL

-----------------------------------------------------------------------------
(* The table of a scan.                                                    *)

\* The box over all of them is checked only when each is.
TableInv ==
  session # Nothing =>
    /\ session \in Sessions
    /\ table = [checked |-> table.checked, all |-> table.all, ua |-> table.ua,
                term |-> table.term]
    /\ table.all \in BOOLEAN
    /\ table.all => table.checked = Views!Statuses(session)

LEMMA TableStart == Views!Init => TableInv
BY DEF Views!Init, TableInv

LEMMA TableStep ==
  ASSUME TableInv, Views!Next PROVE TableInv'
<1>1. ASSUME NEW rs \in Sessions, NEW test \in BOOLEAN, NEW seen \in BOOLEAN,
             Views!Publish(rs, test, seen)
      PROVE  TableInv'
  BY <1>1 DEF Views!Publish, TableInv
<1>2. CASE Views!ToggleAll
  BY <1>2 DEF Views!ToggleAll, TableInv
<1>3. ASSUME NEW s, Views!ToggleStatus(s) PROVE TableInv'
  BY <1>3 DEF Views!ToggleStatus, Views!Boxes, TableInv
<1>4. CASE Views!ToggleAgents
  BY <1>4 DEF Views!ToggleAgents, TableInv
<1>5. ASSUME NEW t, Views!Search(t) PROVE TableInv'
  BY <1>5 DEF Views!Search, TableInv
<1> QED BY <1>1, <1>2, <1>3, <1>4, <1>5 DEF Views!Next

LEMMA Honest == TableInv => Views!FilterIsHonest
BY DEF TableInv, Views!FilterIsHonest, Views!Rows, Views!Those, Views!Statuses

\* What a table on show is made of.
LEMMA OnShow ==
  ASSUME TableInv, session # Nothing
  PROVE  /\ Len(session) \in Nat \ {0} /\ DOMAIN session = 1 .. Len(session)
         /\ \A n \in DOMAIN session : session[n].category \in STRING
         /\ IsFiniteSet(DOMAIN session) /\ Cardinality(DOMAIN session) = Len(session)
         /\ IsFiniteSet(Views!Categories(session)) /\ Views!Categories(session) # {}
         /\ Views!Categories(session) \subseteq STRING
<1>1. session \in Seq([category : STRING, status : STRING, blocked : BOOLEAN, ua : BOOLEAN])
      /\ session # << >>
  BY ViewsAssumption DEF TableInv
<1>2. Len(session) \in Nat \ {0} /\ DOMAIN session = 1 .. Len(session)
  BY <1>1, LenProperties, EmptySeq
<1>3. ASSUME NEW n \in DOMAIN session PROVE session[n].category \in STRING
  <2>1. session[n] \in [category : STRING, status : STRING, blocked : BOOLEAN, ua : BOOLEAN]
    BY <1>1, <1>2, ElementOfSeq
  <2> QED BY <2>1
<1>4. IsFiniteSet(DOMAIN session) /\ Cardinality(DOMAIN session) = Len(session)
  BY <1>2, FS_Interval
<1>5. IsFiniteSet(Views!Categories(session))
  <2> DEFINE f == [n \in DOMAIN session |-> session[n].category]
  <2>1. f \in Surjection(DOMAIN session, Views!Categories(session))
    BY DEF Surjection, Views!Categories
  <2> QED BY <1>4, <2>1, FS_Surjection
<1>6. Views!Categories(session) # {} /\ Views!Categories(session) \subseteq STRING
  BY <1>2, <1>3 DEF Views!Categories
<1> QED BY <1>2, <1>3, <1>4, <1>5, <1>6

\* The counts behind the scores and the summary.
LEMMA Counts ==
  /\ Views!Reached = Cardinality({n \in DOMAIN session : session[n].status \in {"200", "500"}})
  /\ \A c :
       /\ Views!Tested(c) = Cardinality({n \in DOMAIN session : session[n].category = c})
       /\ Views!Bypassed(c) =
            Cardinality({n \in DOMAIN session :
              session[n].category = c /\ session[n].status = (IF fp THEN "403" ELSE "200")})
BY DEF Views!Reached, Views!Tested, Views!Bypassed, Views!Among, Views!Those,
       Cardinality, Views!Cardinality

LEMMA CountTypes ==
  ASSUME TableInv, session # Nothing, NEW c
  PROVE  Views!Tested(c) \in Nat /\ Views!Bypassed(c) \in Nat
<1> DEFINE A == {n \in DOMAIN session : session[n].category = c}
           B == {n \in DOMAIN session :
                   session[n].category = c /\ session[n].status = (IF fp THEN "403" ELSE "200")}
<1>1. A \in SUBSET DOMAIN session /\ B \in SUBSET DOMAIN session
  OBVIOUS
<1>2. Views!Tested(c) = Cardinality(A) /\ Views!Bypassed(c) = Cardinality(B)
  BY Counts
<1> HIDE DEF A, B
<1>3. IsFiniteSet(A) /\ IsFiniteSet(B)
  BY <1>1, OnShow, FS_Subset
<1> QED BY <1>2, <1>3, FS_CardinalityType

\* A rate of the whole is reached in some category.
LEMMA Share ==
  ASSUME TableInv, session # Nothing, ~fp, "500" \notin Views!Statuses(session),
         NEW num \in Nat, NEW den \in Nat, Views!OverRate(num, den)
  PROVE  \E c \in Views!Categories(session) : den * Views!Bypassed(c) > num * Views!Tested(c)
<1> DEFINE N == DOMAIN session
           H == {n \in N : session[n].status \in {"200", "500"}}
           k == [n \in N |-> session[n].category]
           C == Views!Categories(session)
<1> SUFFICES ASSUME \A c \in C : ~(den * Views!Bypassed(c) > num * Views!Tested(c))
             PROVE  FALSE
  OBVIOUS
<1>1. k \in [N -> C] /\ H \in SUBSET N
  BY DEF Views!Categories
<1>2. ASSUME NEW c \in C
      PROVE  AtMost(num, den, In(k, H, c), In(k, N, c))
  <2>1. In(k, H, c) = {n \in DOMAIN session :
          session[n].category = c /\ session[n].status = (IF fp THEN "403" ELSE "200")}
    BY DEF Views!Statuses, In
  <2>2. In(k, N, c) = {n \in DOMAIN session : session[n].category = c}
    BY DEF In
  <2>3. /\ Cardinality(In(k, H, c)) = Views!Bypassed(c)
        /\ Cardinality(In(k, N, c)) = Views!Tested(c)
    BY <2>1, <2>2, Counts
  <2>4. Views!Bypassed(c) \in Nat /\ Views!Tested(c) \in Nat
    BY CountTypes
  <2>5. den * Views!Bypassed(c) \in Int /\ num * Views!Tested(c) \in Int
    BY <2>4
  <2>6. ~(den * Views!Bypassed(c) > num * Views!Tested(c))
    OBVIOUS
  <2>7. den * Views!Bypassed(c) <= num * Views!Tested(c)
    BY <2>5, <2>6
  <2> QED BY <2>3, <2>7 DEF AtMost
<1>3. IsFiniteSet(N) /\ Cardinality(N) = Len(session) /\ IsFiniteSet(C) /\ Len(session) \in Nat
  BY OnShow
<1>4. Views!Reached = Cardinality(H)
  BY Counts
<1>5. Views!Reached \in Nat
  <2> HIDE DEF H, N
  <2> QED BY <1>1, <1>3, <1>4, FS_Subset, FS_CardinalityType
<1>6. den * Views!Reached > num * Len(session)
  BY DEF Views!OverRate
<1> HIDE DEF N, H, k, C
<1>7. AtMost(num, den, H, N)
  BY <1>1, <1>2, <1>3, Averages
<1>8. den * Views!Reached <= num * Len(session)
  BY <1>3, <1>4, <1>7 DEF AtMost
<1>9. den * Views!Reached \in Int /\ num * Len(session) \in Int
  BY <1>3, <1>5
<1> QED BY <1>6, <1>8, <1>9

\* The severity of a category and its rate.
LEMMA Rated ==
  ASSUME TableInv, session # Nothing, NEW c
  PROVE  /\ Views!Scored(c).severity \in {"Critical", "High", "Medium", "Low"}
         /\ 4 * Views!Bypassed(c) > 3 * Views!Tested(c) => Views!Scored(c).severity = "Critical"
         /\ 2 * Views!Bypassed(c) > 1 * Views!Tested(c) =>
              Views!Scored(c).severity \in {"Critical", "High"}
         /\ 4 * Views!Bypassed(c) > 1 * Views!Tested(c) => Views!Scored(c).severity # "Low"
<1>1. Views!Tested(c) \in Nat /\ Views!Bypassed(c) \in Nat
  BY CountTypes
<1>2. Views!Scored(c).severity = Views!Severity(Views!Bypassed(c), Views!Tested(c))
  BY DEF Views!Scored
<1> QED BY <1>1, <1>2 DEF Views!Severity

LEMMA WorstIsTheRisk == TableInv => Views!RiskIsTheWorst
<1> SUFFICES ASSUME TableInv, session # Nothing PROVE
      /\ \A c \in Views!Categories(session) :
           Views!Level(Views!Risk) >= Views!Level(Views!Scored(c).severity)
      /\ ~fp /\ "500" \notin Views!Statuses(session) => Views!Has(Views!Risk)
  BY DEF Views!RiskIsTheWorst
<1>1. ASSUME NEW c \in Views!Categories(session)
      PROVE  Views!Level(Views!Risk) >= Views!Level(Views!Scored(c).severity)
  <2>1. PICK s : s = Views!Scored(c).severity
    OBVIOUS
  <2>2. s \in {"Critical", "High", "Medium", "Low"} /\ Views!Has(s)
    BY <2>1, Rated DEF Views!Has
  <2>3. Views!Level(Views!Risk) >= Views!Level(s)
    BY <2>2 DEF Views!Risk, Views!Level
  <2> QED BY <2>1, <2>3
<1>2. ASSUME ~fp, "500" \notin Views!Statuses(session) PROVE Views!Has(Views!Risk)
  <2>1. Views!OverRate(3, 4) => Views!Has("Critical")
    BY <1>2, Share, Rated DEF Views!Has
  <2>2. Views!OverRate(1, 2) => Views!Has("Critical") \/ Views!Has("High")
    BY <1>2, Share, Rated DEF Views!Has
  <2>3. Views!OverRate(1, 4) => Views!Has("Critical") \/ Views!Has("High") \/ Views!Has("Medium")
    BY <1>2, Share, Rated DEF Views!Has
  <2>4. Views!Has("Critical") \/ Views!Has("High") \/ Views!Has("Medium") \/ Views!Has("Low")
    BY OnShow, Rated DEF Views!Has
  <2> QED BY <2>1, <2>2, <2>3, <2>4 DEF Views!Risk
<1> QED BY <1>1, <1>2

\* The categories have different places.
LEMMA Places ==
  ASSUME TableInv, session # Nothing, NEW c \in Views!Categories(session)
  PROVE  Views!First(c) \in Nat /\ session[Views!First(c)].category = c
<1> DEFINE T == {n \in DOMAIN session : session[n].category = c}
<1>1. DOMAIN session = 1 .. Len(session) /\ Len(session) \in Nat
  BY OnShow
<1>2. T \subseteq Nat /\ T # {}
  BY <1>1 DEF Views!Categories
<1>3. PICK x \in T : \A y \in T : x <= y
  <2> HIDE DEF T
  <2> QED BY <1>2, Smallest
<1>4. ASSUME NEW m \in 1 .. x - 1 PROVE session[m].category # c
  BY <1>1, <1>3, <1>4
<1>5. x \in DOMAIN session /\ session[x].category = c /\ \A m \in 1 .. x - 1 :
        session[m].category # c
  BY <1>3, <1>4
<1>6. /\ Views!First(c) \in DOMAIN session /\ session[Views!First(c)].category = c
  BY <1>5 DEF Views!First
<1> QED BY <1>1, <1>6

All == {Views!Scored(c) : c \in Views!Categories(session)}

\* The table ranks the categories: it holds each of them, and no score rises.
LEMMA Table ==
  ASSUME TableInv, session # Nothing
  PROVE  /\ \E m \in Nat : DOMAIN Views!Scores = 1 .. m
         /\ \A n \in DOMAIN Views!Scores : Views!Scores[n] \in All
         /\ \A a \in All : \E n \in DOMAIN Views!Scores : Views!Scores[n] = a
         /\ \A m, n \in DOMAIN Views!Scores :
              m < n => Views!Scores[m].score >= Views!Scores[n].score
<1> DEFINE R == {p \in All \X All : Views!Above(p[1], p[2])}
           f == [c \in Views!Categories(session) |-> Views!Scored(c)]
<1>1. f \in Surjection(Views!Categories(session), All)
  BY DEF Surjection, All
<1>2. IsFiniteSet(All)
  BY <1>1, OnShow, FS_Surjection
<1>3. ASSUME NEW a \in All
      PROVE  /\ a.score \in Int /\ a.category \in Views!Categories(session)
             /\ a = Views!Scored(a.category) /\ Views!First(a.category) \in Nat
             /\ session[Views!First(a.category)].category = a.category
  <2>1. PICK c \in Views!Categories(session) : a = Views!Scored(c)
    BY DEF All
  <2>2. a.category = c /\ a.score = Views!Score(Views!Bypassed(c), Views!Tested(c))
    BY <2>1 DEF Views!Scored
  <2>3. Views!Tested(c) \in Nat /\ Views!Bypassed(c) \in Nat /\ Views!Tested(c) # 0
    <3>1. PICK n \in DOMAIN session : session[n].category = c
      BY DEF Views!Categories
    <3> DEFINE A == {x \in DOMAIN session : session[x].category = c}
    <3>2. A \in SUBSET DOMAIN session /\ n \in A /\ Views!Tested(c) = Cardinality(A)
      BY <3>1, Counts
    <3> HIDE DEF A
    <3>3. IsFiniteSet(A)
      BY <3>2, OnShow, FS_Subset
    <3>4. Cardinality(A) # 0
      BY <3>2, <3>3, FS_EmptySet
    <3> QED BY <3>2, <3>4, CountTypes
  <2>4. Views!Score(Views!Bypassed(c), Views!Tested(c)) \in Int
    <3> DEFINE b == Views!Bypassed(c)
               n == Views!Tested(c)
    <3>1. b \in Int /\ n \in Int /\ n > 0
      BY <2>3
    <3> HIDE DEF b, n
    <3>2. ASSUME NEW x \in Int PROVE Views!Round(x, n) \in Int
      <4>1. 2 * n > 0 /\ 2 * x + n \in Int /\ 2 * n \in Int
        BY <3>1
      <4>2. PICK y, z : y = 2 * x + n /\ z = 2 * n
        OBVIOUS
      <4>3. y \div z \in Int
        BY <4>1, <4>2
      <4> QED BY <4>2, <4>3 DEF Views!Round
    <3>3. /\ 90 * n + 10 * (4 * b - 3 * n) \in Int /\ 70 * n + 20 * (4 * b - 2 * n) \in Int
          /\ 40 * n + 30 * (4 * b - n) \in Int /\ 160 * b \in Int
      BY <3>1
    <3>4. \/ Views!Score(b, n) = Views!Round(90 * n + 10 * (4 * b - 3 * n), n)
          \/ Views!Score(b, n) = Views!Round(70 * n + 20 * (4 * b - 2 * n), n)
          \/ Views!Score(b, n) = Views!Round(40 * n + 30 * (4 * b - n), n)
          \/ Views!Score(b, n) = Views!Round(160 * b, n)
      BY DEF Views!Score
    <3>5. Views!Score(b, n) \in Int
      BY <3>2, <3>3, <3>4
    <3> QED BY <3>5 DEF b, n
  <2> QED BY <2>1, <2>2, <2>4, Places
<1>4. /\ \A a \in All : <<a, a>> \notin R
      /\ \A a, b, c \in All : <<a, b>> \in R /\ <<b, c>> \in R => <<a, c>> \in R
      /\ \A a, b \in All : a = b \/ <<a, b>> \in R \/ <<b, a>> \in R
  <2>1. \A a, b \in All : <<a, b>> \in R <=> Views!Above(a, b)
    OBVIOUS
  <2> HIDE DEF R
  <2>2. \A a \in All : <<a, a>> \notin R
    BY <1>3, <2>1 DEF Views!Above
  <2>3. \A a, b, c \in All : <<a, b>> \in R /\ <<b, c>> \in R => <<a, c>> \in R
    BY <1>3, <2>1 DEF Views!Above
  <2>4. \A a, b \in All : a = b \/ <<a, b>> \in R \/ <<b, a>> \in R
    <3> SUFFICES ASSUME NEW a \in All, NEW b \in All, a # b
                 PROVE  Views!Above(a, b) \/ Views!Above(b, a)
      BY <2>1
    <3>1. a.category # b.category
      BY <1>3
    <3>2. Views!First(a.category) # Views!First(b.category)
      BY <1>3, <3>1
    <3> QED BY <1>3, <3>2 DEF Views!Above
  <2> QED BY <2>2, <2>3, <2>4
<1>5. \A a \in All : Preceding(All, R, a) = {b \in All : Views!Above(b, a)}
  BY DEF Preceding
<1>6. \A a \in All : Views!Rank(a, All) = Cardinality(Preceding(All, R, a)) + 1
  BY <1>5 DEF Views!Rank, Cardinality, Views!Cardinality
<1>7. Views!Cardinality(All) = Cardinality(All) /\ Cardinality(All) \in Nat
  BY <1>2, FS_CardinalityType DEF Cardinality, Views!Cardinality
<1>8. Views!Scores = [n \in 1 .. Cardinality(All) |->
                        CHOOSE a \in All : Views!Rank(a, All) = n]
  BY <1>7 DEF Views!Scores, All
<1>9. \A a, b \in All : <<a, b>> \in R <=> Views!Above(a, b)
  OBVIOUS
<1> HIDE DEF R
<1>10. /\ \A a \in All : Views!Rank(a, All) \in 1 .. Cardinality(All)
       /\ \A a, b \in All : Views!Above(a, b) => Views!Rank(a, All) < Views!Rank(b, All)
       /\ \A n \in 1 .. Cardinality(All) : \E a \in All : Views!Rank(a, All) = n
  <2>1. /\ \A a \in All : Cardinality(Preceding(All, R, a)) + 1 \in 1 .. Cardinality(All)
        /\ \A a, b \in All : <<a, b>> \in R =>
             Cardinality(Preceding(All, R, a)) < Cardinality(Preceding(All, R, b))
        /\ \A n \in 1 .. Cardinality(All) :
             \E a \in All : Cardinality(Preceding(All, R, a)) + 1 = n
    BY <1>2, <1>4, Ranking
  <2>2. \A a \in All : Cardinality(Preceding(All, R, a)) \in Nat
    <3> TAKE a \in All
    <3>1. Preceding(All, R, a) \in SUBSET All
      BY DEF Preceding
    <3> QED BY <1>2, <3>1, FS_Subset, FS_CardinalityType
  <2>3. \A a, b \in All : Views!Above(a, b) => Views!Rank(a, All) < Views!Rank(b, All)
    <3> TAKE a, b \in All
    <3>1. /\ Views!Rank(a, All) = Cardinality(Preceding(All, R, a)) + 1
          /\ Views!Rank(b, All) = Cardinality(Preceding(All, R, b)) + 1
          /\ Cardinality(Preceding(All, R, a)) \in Nat /\ Cardinality(Preceding(All, R, b)) \in Nat
      BY <1>6, <2>2
    <3>2. Views!Above(a, b) => Cardinality(Preceding(All, R, a)) < Cardinality(Preceding(All, R, b))
      BY <1>9, <2>1
    <3> QED BY <3>1, <3>2
  <2> QED BY <1>6, <2>1, <2>3
<1>11. \A n \in 1 .. Cardinality(All) :
         Views!Scores[n] \in All /\ Views!Rank(Views!Scores[n], All) = n
  BY <1>8, <1>10
<1>12. DOMAIN Views!Scores = 1 .. Cardinality(All)
  BY <1>8
<1>13. ASSUME NEW a \in All PROVE \E n \in DOMAIN Views!Scores : Views!Scores[n] = a
  <2>1. PICK n \in 1 .. Cardinality(All) : n = Views!Rank(a, All)
    BY <1>10
  <2>2. PICK b \in All : b = Views!Scores[n] /\ Views!Rank(b, All) = n
    BY <1>11
  <2>3. a = b \/ Views!Above(a, b) \/ Views!Above(b, a)
    BY <1>4, <1>9
  <2>4. a = b
    BY <1>7, <1>10, <2>1, <2>2, <2>3
  <2> QED BY <1>12, <2>2, <2>4
<1>14. ASSUME NEW m \in DOMAIN Views!Scores, NEW n \in DOMAIN Views!Scores, m < n
       PROVE  Views!Scores[m].score >= Views!Scores[n].score
  <2>1. PICK a \in All, b \in All : /\ a = Views!Scores[m] /\ Views!Rank(a, All) = m
                                    /\ b = Views!Scores[n] /\ Views!Rank(b, All) = n
    BY <1>11, <1>12
  <2>2. ~Views!Above(b, a)
    BY <1>7, <1>10, <1>12, <1>14, <2>1
  <2>3. a.score \in Int /\ b.score \in Int /\ ~(b.score > a.score)
    BY <1>3, <2>2 DEF Views!Above
  <2> QED BY <2>1, <2>3
<1> QED BY <1>7, <1>11, <1>12, <1>13, <1>14

\* Six short sequences one after the other: where the fourth and the fifth are.
Joins(all, a, b, c, d, e, f) == all = a \o b \o c \o d \o e \o f
Among5(x, all) == \E k \in 1 .. 5 : k <= Len(all) /\ all[k] = x

LEMMA Joined ==
  ASSUME NEW V, NEW a \in Seq(V), NEW b \in Seq(V), NEW c \in Seq(V), NEW d \in Seq(V),
         NEW e \in Seq(V), NEW f \in Seq(V),
         Len(a) <= 1, Len(b) <= 1, Len(c) <= 1, Len(d) <= 1, Len(e) <= 1,
         NEW all, Joins(all, a, b, c, d, e, f)
  PROVE  /\ all \in Seq(V)
         /\ Len(d) = 1 => Among5(d[1], all)
         /\ Len(e) = 1 => Among5(e[1], all)
<1> DEFINE p == a \o b
           q == p \o c
           r == q \o d
           s == r \o e
           t == s \o f
<1>1. p \in Seq(V) /\ Len(p) = Len(a) + Len(b)
  BY ConcatProperties
<1>2. q \in Seq(V) /\ Len(q) = Len(p) + Len(c)
  <2> HIDE DEF p
  <2> QED BY <1>1, ConcatProperties
<1>3. /\ r \in Seq(V) /\ Len(r) = Len(q) + Len(d)
      /\ \A i \in 1 .. Len(q) + Len(d) : r[i] = IF i <= Len(q) THEN q[i] ELSE d[i - Len(q)]
  <2> HIDE DEF q
  <2> QED BY <1>2, ConcatProperties, ZenonT(30)
<1>4. /\ s \in Seq(V) /\ Len(s) = Len(r) + Len(e)
      /\ \A i \in 1 .. Len(r) + Len(e) : s[i] = IF i <= Len(r) THEN r[i] ELSE e[i - Len(r)]
  <2> HIDE DEF r
  <2> QED BY <1>3, ConcatProperties, ZenonT(30)
<1>5. /\ t \in Seq(V) /\ Len(t) = Len(s) + Len(f)
      /\ \A i \in 1 .. Len(s) + Len(f) : t[i] = IF i <= Len(s) THEN s[i] ELSE f[i - Len(s)]
  <2> HIDE DEF s
  <2> QED BY <1>4, ConcatProperties, ZenonT(30)
<1>6. PICK la, lb, lc, ld, le \in 0 .. 1, lf \in Nat :
        /\ Len(a) = la /\ Len(b) = lb /\ Len(c) = lc /\ Len(d) = ld /\ Len(e) = le
        /\ Len(f) = lf
  <2>1. /\ Len(a) \in Nat /\ Len(b) \in Nat /\ Len(c) \in Nat /\ Len(d) \in Nat /\ Len(e) \in Nat
        /\ Len(f) \in Nat
    BY LenProperties
  <2>2. \A n \in Nat : n <= 1 => n \in 0 .. 1
    OBVIOUS
  <2> QED BY <2>1, <2>2, Zenon
<1>7. t = all
  BY DEF Joins
<1> HIDE DEF p, q, r, s, t
<1>8. /\ Len(q) \in 0 .. 3 /\ Len(r) \in 0 .. 4 /\ Len(r) = Len(q) + Len(d)
      /\ Len(s) = Len(r) + Len(e) /\ Len(t) = Len(s) + Len(f)
      /\ Len(d) \in Nat /\ Len(e) \in Nat /\ Len(f) \in Nat
  <2>1. Len(p) = la + lb
    BY <1>1, <1>6
  <2>2. Len(q) = la + lb + lc
    BY <1>2, <1>6, <2>1
  <2>3. Len(r) = la + lb + lc + ld
    BY <1>3, <1>6, <2>2
  <2>4. Len(q) \in 0 .. 3 /\ Len(r) \in 0 .. 4
    BY <2>2, <2>3
  <2> QED BY <1>3, <1>4, <1>5, <1>6, <2>4
<1>9. ASSUME Len(d) = 1 PROVE \E k \in 1 .. 5 : k <= Len(t) /\ t[k] = d[1]
  <2> DEFINE k == Len(q) + 1
  <2>1. k \in 1 .. 5 /\ k <= Len(r) /\ k <= Len(s) /\ k <= Len(t)
    BY <1>9, <1>8
  <2>2. r[k] = d[1]
    BY <1>1, <1>2, <1>3, <1>6, <1>9, <2>1
  <2>3. s[k] = r[k]
    BY <1>1, <1>2, <1>3, <1>4, <1>6, <2>1
  <2>4. t[k] = s[k]
    BY <1>1, <1>2, <1>3, <1>4, <1>5, <1>6, <2>1
  <2> QED BY <2>1, <2>2, <2>3, <2>4
<1>10. ASSUME Len(e) = 1 PROVE \E k \in 1 .. 5 : k <= Len(t) /\ t[k] = e[1]
  <2> DEFINE k == Len(r) + 1
  <2>1. k \in 1 .. 5 /\ k <= Len(s) /\ k <= Len(t)
    BY <1>10, <1>8
  <2>2. s[k] = e[1]
    BY <1>1, <1>2, <1>3, <1>4, <1>6, <1>10, <2>1
  <2>3. t[k] = s[k]
    BY <1>1, <1>2, <1>3, <1>4, <1>5, <1>6, <2>1
  <2> QED BY <2>1, <2>2, <2>3
<1> QED BY <1>5, <1>7, <1>9, <1>10 DEF Among5

\* What a recommendation may be made of.
Words == STRING \cup {"review", "improve", "implement"}

\* The first two of the table are named when they are severe.
LEMMA Named2 ==
  ASSUME TableInv, session # Nothing, NEW n \in DOMAIN Views!Scores, n <= 2,
         Views!Level(Views!Scores[n].severity) >= 2
  PROVE  \E k \in DOMAIN Views!Advice : Views!Advice[k] = Views!Scores[n].category
<1> DEFINE a == IF Views!Has("Critical") THEN <<"review">> ELSE << >>
           b == IF Views!OverRate(1, 2) THEN <<"improve">> ELSE << >>
           c == IF ~wafSeen THEN <<"implement">> ELSE << >>
           d == Views!Strengthen(1)
           e == Views!Strengthen(2)
           f == Views!Strengthen(3)
           all == a \o b \o c \o d \o e \o f
<1>1. \A i \in DOMAIN Views!Scores : Views!Scores[i].category \in Words
  <2> TAKE i \in DOMAIN Views!Scores
  <2>1. PICK x \in Views!Categories(session) : Views!Scores[i] = Views!Scored(x)
    BY Table DEF All
  <2>2. x \in STRING /\ Views!Scored(x).category = x
    BY OnShow DEF Views!Scored
  <2> QED BY <2>1, <2>2 DEF Words
<1>2. \A x \in Words : <<x>> \in Seq(Words) /\ Len(<<x>>) = 1 /\ <<x>>[1] = x
  OBVIOUS
<1>3. << >> \in Seq(Words) /\ Len(<< >>) = 0
  BY EmptySeq
<1>4. /\ a \in Seq(Words) /\ b \in Seq(Words) /\ c \in Seq(Words)
      /\ Len(a) <= 1 /\ Len(b) <= 1 /\ Len(c) <= 1
  <2>1. /\ a = (IF Views!Has("Critical") THEN <<"review">> ELSE << >>)
        /\ b = (IF Views!OverRate(1, 2) THEN <<"improve">> ELSE << >>)
        /\ c = (IF ~wafSeen THEN <<"implement">> ELSE << >>)
    OBVIOUS
  <2> DEFINE Short == {z \in Seq(Words) : Len(z) <= 1}
  <2>5. << >> \in Short /\ <<"review">> \in Short /\ <<"improve">> \in Short /\
          <<"implement">> \in Short
    <3>1. << >> \in Short /\ \A x \in Words : <<x>> \in Short
      BY <1>2, <1>3
    <3>2. "review" \in Words /\ "improve" \in Words /\ "implement" \in Words
      BY DEF Words
    <3> HIDE DEF Short
    <3> QED BY <3>1, <3>2, Zenon
  <2> HIDE DEF a, b, c, Short
  <2>2. a \in Short
    BY <2>1, <2>5
  <2>3. b \in Short
    BY <2>1, <2>5
  <2>4. c \in Short
    BY <2>1, <2>5
  <2> USE DEF Short
  <2> QED BY <2>2, <2>3, <2>4
<1>5. /\ d \in Seq(Words) /\ e \in Seq(Words) /\ f \in Seq(Words)
      /\ Len(d) <= 1 /\ Len(e) <= 1
  <2>1. \A i : LET z == Views!Strengthen(i) IN z \in Seq(Words) /\ Len(z) <= 1
    <3> TAKE i
    <3>1. CASE i \in DOMAIN Views!Scores /\ Views!Scores[i].severity \in {"Critical", "High"}
      <4>1. PICK x \in Words : x = Views!Scores[i].category
        BY <1>1, <3>1
      <4>2. Views!Strengthen(i) = <<x>>
        BY <3>1, <4>1 DEF Views!Strengthen
      <4> QED BY <4>2
    <3>2. CASE ~(i \in DOMAIN Views!Scores /\ Views!Scores[i].severity \in {"Critical", "High"})
      <4>1. Views!Strengthen(i) = << >>
        BY <3>2 DEF Views!Strengthen
      <4> QED BY <1>3, <4>1
    <3> QED BY <3>1, <3>2
  <2> QED BY <2>1
<1>6. n \in {1, 2} /\ Views!Scores[n].severity \in {"Critical", "High"}
  BY Table DEF Views!Level
<1>7. Views!Strengthen(n) = <<Views!Scores[n].category>>
  BY <1>6 DEF Views!Strengthen
<1>8. PICK m : m = n /\ m \in {1, 2} /\ (m = 1 => d = <<Views!Scores[n].category>>)
                /\ (m = 2 => e = <<Views!Scores[n].category>>)
  BY <1>6, <1>7
<1>9. all \in Seq(Words) /\ \E k \in 1 .. 5 : k <= Len(all) /\ all[k] = Views!Scores[n].category
  <2> HIDE DEF a, b, c, d, e, f
  <2>1. Joins(all, a, b, c, d, e, f)
    BY DEF Joins
  <2> HIDE DEF all
  <2>2. /\ all \in Seq(Words)
        /\ Len(d) = 1 => Among5(d[1], all)
        /\ Len(e) = 1 => Among5(e[1], all)
    BY <1>4, <1>5, <2>1, Joined
  <2> QED BY <1>8, <2>2 DEF Among5
<1>10. Views!Advice = IF all = << >> THEN <<"monitor">>
                      ELSE SubSeq(all, 1, IF Len(all) < 5 THEN Len(all) ELSE 5)
  BY DEF Views!Advice
<1> HIDE DEF all
<1>11. PICK k \in 1 .. 5 : k <= Len(all) /\ all[k] = Views!Scores[n].category
  BY <1>9
<1>12. Len(all) \in Nat /\ all # << >> /\ \A i \in 1 .. Len(all) : all[i] \in Words
  BY <1>3, <1>9, <1>11, LenProperties, ElementOfSeq
<1>13. PICK l \in 1 .. 5 : l = IF Len(all) < 5 THEN Len(all) ELSE 5
  <2>1. PICK x \in Nat : x = Len(all) /\ 1 <= x
    BY <1>11, <1>12
  <2>2. (IF x < 5 THEN x ELSE 5) \in 1 .. 5
    BY <2>1
  <2> QED BY <2>1, <2>2
<1>14. /\ Views!Advice \in Seq(Words) /\ Len(Views!Advice) = l
       /\ \A i \in 1 .. l : Views!Advice[i] = all[i]
  <2>1. Views!Advice = SubSeq(all, 1, l)
    BY <1>10, <1>12, <1>13
  <2>2. \A i \in 1 .. l : all[i] \in Words
    BY <1>12, <1>13
  <2>3. 1 \in Int /\ l \in Int
    OBVIOUS
  <2>4. /\ SubSeq(all, 1, l) \in Seq(Words)
        /\ Len(SubSeq(all, 1, l)) = IF 1 <= l THEN l - 1 + 1 ELSE 0
        /\ \A i \in 1 .. l - 1 + 1 : SubSeq(all, 1, l)[i] = all[1 + i - 1]
    BY <2>2, <2>3, SubSeqProperties
  <2> QED BY <2>1, <2>4
<1>15. k \in 1 .. l /\ k \in DOMAIN Views!Advice
  BY <1>11, <1>12, <1>13, <1>14, LenProperties
<1> QED BY <1>11, <1>14, <1>15

LEMMA Advised == TableInv => Views!WorstIsNamed
BY Table, Named2 DEF Views!WorstIsNamed

LEMMA Agreement == TableInv => Views!ViewsAgree
<1> SUFFICES ASSUME TableInv, session # Nothing PROVE
      /\ Views!Highlighted = {Views!Scores[n].category :
           n \in {m \in DOMAIN Views!Scores : Views!Scores[m].bypassed > 0}}
      /\ \A n \in DOMAIN session : Views!Button(session[n]) = "bypass" =>
           /\ Views!Colour(session[n].status, fp) = "red"
           /\ session[n].category \in Views!Highlighted
      /\ \A s \in Views!Statuses(session) :
           (Views!Verdict(s) = "blocked") <=> (Views!Colour(s, FALSE) = "green")
  BY DEF Views!ViewsAgree
<1> DEFINE Lit(c) == \E n \in DOMAIN session :
      session[n].category = c /\ session[n].status = (IF fp THEN "403" ELSE "200")
<1>1. \A c \in Views!Categories(session) : Lit(c) <=> Views!Scored(c).bypassed > 0
  <2> TAKE c \in Views!Categories(session)
  <2> DEFINE B == {n \in DOMAIN session :
                     session[n].category = c /\ session[n].status = (IF fp THEN "403" ELSE "200")}
  <2>1. Views!Scored(c).bypassed = Cardinality(B)
    BY Counts DEF Views!Scored
  <2>2. B \in SUBSET DOMAIN session /\ (Lit(c) <=> B # {})
    OBVIOUS
  <2> HIDE DEF B, Lit
  <2>3. IsFiniteSet(B)
    BY <2>2, OnShow, FS_Subset
  <2>4. Cardinality(B) \in Nat /\ (Cardinality(B) = 0 <=> B = {})
    BY <2>3, FS_CardinalityType, FS_EmptySet
  <2> QED BY <2>1, <2>2, <2>4
<1>2. Views!Highlighted = {c \in Views!Categories(session) : Lit(c)}
  BY DEF Views!Highlighted
<1> HIDE DEF Lit
<1>3. \A c \in Views!Categories(session) : Views!Scored(c) \in All /\ Views!Scored(c).category = c
  BY DEF All, Views!Scored
<1>4. ASSUME NEW c \in Views!Highlighted
      PROVE  c \in {Views!Scores[n].category :
                      n \in {m \in DOMAIN Views!Scores : Views!Scores[m].bypassed > 0}}
  <2>1. c \in Views!Categories(session) /\ Views!Scored(c).bypassed > 0
    BY <1>1, <1>2
  <2>2. PICK n \in DOMAIN Views!Scores : Views!Scores[n] = Views!Scored(c)
    BY <1>3, <2>1, Table
  <2> QED BY <1>3, <2>1, <2>2
<1>5. ASSUME NEW n \in DOMAIN Views!Scores, Views!Scores[n].bypassed > 0
      PROVE  Views!Scores[n].category \in Views!Highlighted
  <2>1. PICK c \in Views!Categories(session) : Views!Scores[n] = Views!Scored(c)
    BY Table DEF All
  <2> QED BY <1>1, <1>2, <1>3, <1>5, <2>1
<1>6. Views!Highlighted = {Views!Scores[n].category :
        n \in {m \in DOMAIN Views!Scores : Views!Scores[m].bypassed > 0}}
  BY <1>4, <1>5
<1>7. ASSUME NEW n \in DOMAIN session, Views!Button(session[n]) = "bypass"
      PROVE  /\ Views!Colour(session[n].status, fp) = "red"
             /\ session[n].category \in Views!Highlighted
  <2>1. ~fp /\ session[n].status = "200"
    BY <1>7 DEF Views!Button
  <2>2. session[n].category \in Views!Categories(session)
    BY DEF Views!Categories
  <2>3. Views!Colour(session[n].status, fp) = "red"
    BY <2>1 DEF Views!Colour
  <2> QED BY <1>2, <2>1, <2>2, <2>3 DEF Lit
<1>8. \A s : (Views!Verdict(s) = "blocked") <=> (Views!Colour(s, FALSE) = "green")
  BY DEF Views!Verdict, Views!Colour
<1> QED BY <1>6, <1>7, <1>8

-----------------------------------------------------------------------------
(* The patch dialog.                                                       *)

\* The number of a report, 0 before there is one.
Number(rep) == IF rep = None THEN 0 ELSE rep.n

Scopes == {"bypasses", "misses", "all"}
Named  == Published \cup {None}
AskRec == [n : Nat, scan : Named, scope : Scopes, opens : BOOLEAN]
RepRec == [n : Nat, scan : Named, scope : Scopes, rules : BOOLEAN]

DialogTypes ==
  /\ latest \in Named /\ asks \subseteq AskRec /\ bundle \in RepRec \cup {None}
  /\ studio = [open |-> studio.open, empty |-> studio.empty, copy |-> studio.copy,
               vendor |-> studio.vendor, format |-> studio.format, scope |-> studio.scope,
               asked |-> studio.asked, late |-> studio.late, view |-> studio.view]
  /\ studio.open \in BOOLEAN /\ studio.empty \in BOOLEAN /\ studio.copy \in BOOLEAN
  /\ studio.late \in BOOLEAN /\ studio.asked \in Nat /\ studio.scope \in Scopes

\* The text on show is of the report kept and, when no answer is to come, of the
\* tab and the format chosen.
TextInv ==
  /\ Patching!FormatFits
  /\ studio.view.kind = "rules" => bundle # None /\ studio.view.report = bundle
  /\ studio.view.kind = "rules" /\ asks = {} =>
       studio.view.vendor = studio.vendor /\ studio.view.format = studio.format

\* Requests are numbered; while no answer is late, those since the report that is
\* kept are under way; and the last one asks for the scope chosen.
NumberInv ==
  /\ \A q \in asks : q.n <= studio.asked /\ q.n # Number(bundle)
  /\ \A q, r \in asks : q.n = r.n => q = r
  /\ bundle # None => bundle.n <= studio.asked
  /\ ~studio.late => \A m \in 1 .. studio.asked :
       m > Number(bundle) => \E q \in asks : q.n = m
  /\ ~studio.empty =>
       /\ \A q \in asks : q.n = studio.asked => q.scope = studio.scope
       /\ bundle # None /\ bundle.n = studio.asked => bundle.scope = studio.scope
  /\ studio.empty => ~studio.copy

DialogInv == DialogTypes /\ TextInv /\ NumberInv

LEMMA DialogStart == Patching!Init => DialogInv
BY DEF Patching!Init, DialogInv, DialogTypes, TextInv, NumberInv, Patching!FormatFits,
       Patching!Supported, Number, Scopes, Named

\* What an answer makes of the dialog.
LEMMA AnswerType ==
  ASSUME NEW q \in AskRec
  PROVE  Patching!Answer(q) \in RepRec /\ Patching!Answer(q) # None
<1> DEFINE a == Patching!Answer(q)
<1>1. q.n \in Nat /\ q.scan \in Named /\ q.scope \in Scopes
  BY DEF AskRec
<1>2. a = [n |-> q.n, scan |-> q.scan, scope |-> q.scope, rules |-> a.rules]
  BY DEF Patching!Answer
<1>3. a.rules \in BOOLEAN
  BY DEF Patching!Answer
<1> HIDE DEF a
<1>4. a \in RepRec
  BY <1>1, <1>2, <1>3 DEF RepRec
<1> QED BY <1>4, ViewsAssumption DEF RepRec, Scopes, Named, a

\* A request is made under choices that fit.
LEMMA Requested ==
  ASSUME DialogInv, NEW st, NEW opens \in BOOLEAN,
         Patching!Ask(st, opens), studio' = Patching!Asked(st), UNCHANGED <<latest, bundle>>,
         st = [open |-> st.open, empty |-> st.empty, copy |-> st.copy, vendor |-> st.vendor,
               format |-> st.format, scope |-> st.scope, asked |-> st.asked, late |-> st.late,
               view |-> st.view],
         st.open \in BOOLEAN, st.empty = FALSE, st.copy \in BOOLEAN, st.scope \in Scopes,
         st.asked = studio.asked, st.late = studio.late, st.view = studio.view,
         st.format \in Patching!Supported(st.vendor)
  PROVE  DialogInv'
<1> DEFINE q == [n |-> st.asked + 1, scan |-> latest, scope |-> st.scope, opens |-> opens]
<1>1. asks' = asks \cup {q} /\ latest' = latest /\ bundle' = bundle
  BY DEF Patching!Ask
<1>2. studio' = [st EXCEPT !.asked = st.asked + 1]
  BY DEF Patching!Asked
<1>3. /\ studio'.open = st.open /\ studio'.empty = FALSE /\ studio'.copy = st.copy
      /\ studio'.vendor = st.vendor /\ studio'.format = st.format /\ studio'.scope = st.scope
      /\ studio'.asked = studio.asked + 1 /\ studio'.late = studio.late
      /\ studio'.view = studio.view
      /\ studio' = [open |-> studio'.open, empty |-> studio'.empty, copy |-> studio'.copy,
                    vendor |-> studio'.vendor, format |-> studio'.format,
                    scope |-> studio'.scope, asked |-> studio'.asked, late |-> studio'.late,
                    view |-> studio'.view]
  BY <1>2
<1>4. q \in AskRec /\ q.n = studio.asked + 1 /\ q.scope = st.scope
  BY DEF AskRec, DialogInv, DialogTypes
<1> HIDE DEF q
<1>5. DialogTypes'
  <2>1. latest' \in Named /\ asks' \subseteq AskRec /\ bundle' \in RepRec \cup {None}
    BY <1>1, <1>4 DEF DialogInv, DialogTypes
  <2>2. studio'.asked \in Nat /\ studio'.late \in BOOLEAN
    BY <1>3 DEF DialogInv, DialogTypes
  <2>3. studio'.open \in BOOLEAN /\ studio'.copy \in BOOLEAN /\ studio'.scope \in Scopes
    BY <1>3
  <2> QED BY <1>3, <2>1, <2>2, <2>3 DEF DialogTypes
<1>6. TextInv'
  BY <1>1, <1>3 DEF DialogInv, TextInv, Patching!FormatFits, Patching!Supported
<1>7. NumberInv'
  <2>1. /\ studio.asked \in Nat /\ bundle \in RepRec \cup {None}
        /\ \A r \in asks : r.n \in Nat /\ r.n <= studio.asked /\ r.n # Number(bundle)
    BY DEF DialogInv, DialogTypes, NumberInv, AskRec
  <2>2. Number(bundle) \in Nat /\ Number(bundle) <= studio.asked
    BY <2>1 DEF Number, RepRec, DialogInv, NumberInv
  <2>3. \A r \in asks' : r.n <= studio'.asked /\ r.n # Number(bundle)
    BY <1>1, <1>3, <1>4, <2>1, <2>2
  <2>4. \A r, s \in asks' : r.n = s.n => r = s
    BY <1>1, <1>4, <2>1 DEF DialogInv, NumberInv
  <2>5. bundle' # None => bundle'.n <= studio'.asked
    BY <1>1, <1>3, <2>1, <2>2 DEF Number
  <2>6. ~studio'.late => \A m \in 1 .. studio'.asked :
          m > Number(bundle) => \E r \in asks' : r.n = m
    BY <1>1, <1>3, <1>4, <2>1, <2>2 DEF DialogInv, NumberInv
  <2>7. /\ \A r \in asks' : r.n = studio'.asked => r.scope = studio'.scope
        /\ bundle' # None => bundle'.n # studio'.asked
    BY <1>1, <1>3, <1>4, <2>1, <2>2 DEF Number
  <2> QED BY <1>1, <1>3, <2>3, <2>4, <2>5, <2>6, <2>7 DEF NumberInv, Number
<1> QED BY <1>5, <1>6, <1>7 DEF DialogInv

\* The tab of a vendor keeps the format only when the vendor has it.
LEMMA TabsFit ==
  ASSUME DialogTypes, NEW v
  PROVE  LET st == Patching!Tabs(v) IN
         /\ st = [studio EXCEPT !.vendor = v, !.format = st.format]
         /\ st.format \in Patching!Supported(v)
BY DEF DialogTypes, Patching!Tabs, Patching!Supported

LEMMA DialogStep ==
  ASSUME DialogInv, Patching!Next PROVE DialogInv'
<1> USE DEF DialogInv, DialogTypes, TextInv, NumberInv
<1>1. ASSUME NEW scanned \in Published, Patching!ScanPublished(scanned) PROVE DialogInv'
  BY <1>1 DEF Patching!ScanPublished, Named, Patching!FormatFits, Patching!Supported
<1>2. ASSUME NEW s \in {None, "bypasses", "misses"}, NEW d, Patching!Show(s, d)
      PROVE  DialogInv'
  <2>1. CASE Patching!Hits = 0 /\ Patching!Misses = 0
    <3>1. /\ studio' = [studio EXCEPT !.open = TRUE, !.scope = Patching!ScopeFor(s),
                                      !.empty = TRUE, !.copy = FALSE]
          /\ UNCHANGED <<asks, latest, bundle>>
      BY <1>2, <2>1 DEF Patching!Show
    <3>2. Patching!ScopeFor(s) \in Scopes
      BY <2>1 DEF Patching!ScopeFor, Scopes
    <3> QED BY <3>1, <3>2 DEF Patching!FormatFits, Patching!Supported
  <2>2. CASE ~(Patching!Hits = 0 /\ Patching!Misses = 0)
    <3> DEFINE tab0 == Patching!Tabs(IF d = None THEN studio.vendor ELSE d)
               st   == [tab0 EXCEPT !.scope = Patching!ScopeFor(s), !.empty = FALSE, !.copy = TRUE]
    <3>1. Patching!Ask(st, TRUE) /\ studio' = Patching!Asked(st) /\ UNCHANGED <<latest, bundle>>
      BY <1>2, <2>2 DEF Patching!Show
    <3>2. Patching!ScopeFor(s) \in Scopes
      BY DEF Patching!ScopeFor, Scopes
    <3>3. PICK v : v = IF d = None THEN studio.vendor ELSE d
      OBVIOUS
    <3>4. /\ tab0 = [studio EXCEPT !.vendor = v, !.format = tab0.format]
          /\ tab0.format \in Patching!Supported(v)
      BY <3>3, TabsFit
    <3> HIDE DEF tab0
    <3>5. PICK fmt : fmt = tab0.format
      OBVIOUS
    <3>6. tab0 = [open |-> studio.open, empty |-> studio.empty, copy |-> studio.copy,
                  vendor |-> v, format |-> fmt, scope |-> studio.scope,
                  asked |-> studio.asked, late |-> studio.late, view |-> studio.view]
      BY <3>4, <3>5
    <3>7. PICK st1, st2 : st1 = [tab0 EXCEPT !.scope = Patching!ScopeFor(s)]
                          /\ st2 = [st1 EXCEPT !.empty = FALSE]
      OBVIOUS
    <3>8. st = [st2 EXCEPT !.copy = TRUE]
      BY <3>7
    <3>9. st1 = [open |-> studio.open, empty |-> studio.empty, copy |-> studio.copy,
                 vendor |-> v, format |-> fmt, scope |-> Patching!ScopeFor(s),
                 asked |-> studio.asked, late |-> studio.late, view |-> studio.view]
      BY <3>6, <3>7
    <3>10. st2 = [open |-> studio.open, empty |-> FALSE, copy |-> studio.copy,
                  vendor |-> v, format |-> fmt, scope |-> Patching!ScopeFor(s),
                  asked |-> studio.asked, late |-> studio.late, view |-> studio.view]
      BY <3>6, <3>7
    <3> HIDE DEF st
    <3>11. st = [open |-> studio.open, empty |-> FALSE, copy |-> TRUE,
                 vendor |-> v, format |-> fmt, scope |-> Patching!ScopeFor(s),
                 asked |-> studio.asked, late |-> studio.late, view |-> studio.view]
      BY <3>8, <3>10
    <3>12. /\ st.open = studio.open /\ st.empty = FALSE /\ st.copy = TRUE
           /\ st.scope = Patching!ScopeFor(s) /\ st.vendor = v /\ st.format = fmt
           /\ st.asked = studio.asked /\ st.late = studio.late /\ st.view = studio.view
      BY <3>11
    <3>13. st = [open |-> st.open, empty |-> st.empty, copy |-> st.copy,
                 vendor |-> st.vendor, format |-> st.format, scope |-> st.scope,
                 asked |-> st.asked, late |-> st.late, view |-> st.view]
      BY <3>11
    <3> QED BY <3>1, <3>2, <3>4, <3>5, <3>12, <3>13, Requested
  <2> QED BY <2>1, <2>2
<1>3. ASSUME NEW q \in asks, NEW ok \in BOOLEAN, Patching!Answered(q, ok) PROVE DialogInv'
  <2> DEFINE late == studio.late \/ ~ok \/ (bundle # None /\ bundle.n > q.n)
             a    == Patching!Answer(q)
             view == IF ok
                     THEN [kind |-> IF a.rules THEN "rules" ELSE "none", vendor |-> studio.vendor,
                           format |-> studio.format, report |-> a]
                     ELSE [kind |-> "error", vendor |-> None, format |-> None, report |-> None]
  <2>1. q \in AskRec /\ q.n \in Nat /\ q.scope \in Scopes
    BY DEF AskRec
  <2>2. a \in RepRec /\ a # None /\ a.n = q.n /\ a.scope = q.scope
    BY <2>1, AnswerType DEF Patching!Answer
  <2>3. asks' = asks \ {q} /\ latest' = latest /\ bundle' = IF ok THEN a ELSE bundle
    BY <1>3 DEF Patching!Answered
  <2>4. studio' = [studio EXCEPT !.open = studio.open \/ q.opens, !.late = late, !.view = view]
    BY <1>3, <2>2 DEF Patching!Answered, Patching!Rendered
  <2>5. /\ studio'.empty = studio.empty /\ studio'.copy = studio.copy
        /\ studio'.vendor = studio.vendor /\ studio'.format = studio.format
        /\ studio'.scope = studio.scope /\ studio'.asked = studio.asked
        /\ studio'.late = late /\ studio'.view = view /\ studio'.open = (studio.open \/ q.opens)
    BY <2>4
  <2>6. DialogTypes'
    BY <2>1, <2>2, <2>3, <2>4, <2>5
  <2>7. TextInv'
    BY <2>2, <2>3, <2>5 DEF Patching!FormatFits, Patching!Supported
  <2>8. NumberInv'
    <3>1. /\ studio.asked \in Nat /\ q.n \in Nat /\ q.n <= studio.asked
          /\ q.n # Number(bundle) /\ Number(bundle) \in Nat
      BY <2>1 DEF Number, RepRec
    <3>2. Number(bundle') = IF ok THEN q.n ELSE Number(bundle)
      BY <2>2, <2>3 DEF Number
    <3>3. \A r \in asks' : r \in asks /\ r # q /\ r.n # q.n
      BY <2>3
    <3>4. \A r \in asks' : r.n <= studio'.asked /\ r.n # Number(bundle')
      BY <2>5, <3>2, <3>3
    <3>5. ~studio'.late => \A m \in 1 .. studio'.asked :
            m > Number(bundle') => \E r \in asks' : r.n = m
      <4> SUFFICES ASSUME ~studio'.late, NEW m \in 1 .. studio.asked, m > Number(bundle')
                   PROVE  \E r \in asks' : r.n = m
        BY <2>5
      <4>1. ~studio.late /\ ok /\ ~(bundle # None /\ bundle.n > q.n)
        BY <2>5
      <4>2. m > q.n /\ q.n >= Number(bundle)
        BY <3>1, <3>2, <4>1 DEF Number, RepRec
      <4>3. PICK r \in asks : r.n = m
        BY <3>1, <4>1, <4>2
      <4> QED BY <2>3, <3>1, <4>2, <4>3
    <3>6. ~studio'.empty =>
            /\ \A r \in asks' : r.n = studio'.asked => r.scope = studio'.scope
            /\ bundle' # None /\ bundle'.n = studio'.asked => bundle'.scope = studio'.scope
      BY <2>2, <2>3, <2>5, <3>3
    <3>7. /\ \A r, s \in asks' : r.n = s.n => r = s
          /\ bundle' # None => bundle'.n <= studio'.asked
      BY <2>2, <2>3, <2>5, <3>1, <3>3
    <3>8. studio'.empty => ~studio'.copy
      BY <2>5
    <3> QED BY <3>4, <3>5, <3>6, <3>7, <3>8
  <2> QED BY <2>6, <2>7, <2>8
<1>4. ASSUME NEW v, Patching!SelectVendor(v) PROVE DialogInv'
  <2> DEFINE tab0 == Patching!Tabs(v)
  <2>1. studio' = Patching!Rendered(tab0, bundle) /\ UNCHANGED <<latest, asks, bundle>>
    BY <1>4 DEF Patching!SelectVendor
  <2>2. /\ tab0 = [studio EXCEPT !.vendor = v, !.format = tab0.format]
        /\ tab0.format \in Patching!Supported(v)
    BY TabsFit
  <2> HIDE DEF tab0
  <2>3. tab0 = [open |-> studio.open, empty |-> studio.empty, copy |-> studio.copy,
                vendor |-> v, format |-> tab0.format, scope |-> studio.scope,
                asked |-> studio.asked, late |-> studio.late, view |-> studio.view]
    BY <2>2
  <2>4. CASE bundle = None
    <3>1. studio' = tab0
      BY <2>1, <2>4 DEF Patching!Rendered
    <3> QED BY <2>1, <2>2, <2>3, <2>4, <3>1 DEF Patching!FormatFits, Patching!Supported
  <2>5. CASE bundle # None
    <3>1. studio' = [tab0 EXCEPT !.view = [kind |-> IF bundle.rules THEN "rules" ELSE "none",
                                           vendor |-> tab0.vendor, format |-> tab0.format,
                                           report |-> bundle]]
      BY <2>1, <2>5 DEF Patching!Rendered
    <3> QED BY <2>1, <2>2, <2>3, <2>5, <3>1 DEF Patching!FormatFits, Patching!Supported
  <2> QED BY <2>4, <2>5
<1>5. ASSUME NEW s \in Scopes, Patching!SelectScope(s) PROVE DialogInv'
  <2> DEFINE st == [studio EXCEPT !.scope = s]
  <2>1. /\ Patching!Ask(st, FALSE) /\ studio' = Patching!Asked(st)
        /\ UNCHANGED <<latest, bundle>> /\ studio.empty = FALSE
    BY <1>5 DEF Patching!SelectScope, Patching!Choose
  <2>2. /\ st = [open |-> st.open, empty |-> st.empty, copy |-> st.copy,
                 vendor |-> st.vendor, format |-> st.format, scope |-> st.scope,
                 asked |-> st.asked, late |-> st.late, view |-> st.view]
        /\ st.open = studio.open /\ st.empty = studio.empty /\ st.copy = studio.copy
        /\ st.scope = s /\ st.vendor = studio.vendor /\ st.format = studio.format
        /\ st.asked = studio.asked /\ st.late = studio.late /\ st.view = studio.view
    OBVIOUS
  <2> HIDE DEF st
  <2>3. st.format \in Patching!Supported(st.vendor)
    BY <2>2 DEF Patching!FormatFits
  <2> QED BY <2>1, <2>2, <2>3, Requested
<1>6. ASSUME NEW f, Patching!SelectFormat(f) PROVE DialogInv'
  <2> DEFINE st == [studio EXCEPT !.format = f]
  <2>1. /\ Patching!Ask(st, FALSE) /\ studio' = Patching!Asked(st)
        /\ UNCHANGED <<latest, bundle>> /\ studio.empty = FALSE
        /\ f \in Patching!Supported(studio.vendor)
    BY <1>6 DEF Patching!SelectFormat, Patching!Choose
  <2>2. /\ st = [open |-> st.open, empty |-> st.empty, copy |-> st.copy,
                 vendor |-> st.vendor, format |-> st.format, scope |-> st.scope,
                 asked |-> st.asked, late |-> st.late, view |-> st.view]
        /\ st.open = studio.open /\ st.empty = studio.empty /\ st.copy = studio.copy
        /\ st.scope = studio.scope /\ st.vendor = studio.vendor /\ st.format = f
        /\ st.asked = studio.asked /\ st.late = studio.late /\ st.view = studio.view
    OBVIOUS
  <2> HIDE DEF st
  <2> QED BY <2>1, <2>2, Requested
<1>7. CASE Patching!Close
  BY <1>7 DEF Patching!Close, Patching!FormatFits, Patching!Supported
<1> QED BY <1>1, <1>2, <1>3, <1>4, <1>5, <1>6, <1>7 DEF Patching!Next, Scopes

LEMMA DialogHolds ==
  DialogInv => Patching!TextIsOfTheTab /\ Patching!FormatFits /\ Patching!InOrderIsCurrent
<1> SUFFICES ASSUME DialogInv PROVE Patching!TextIsOfTheTab /\ Patching!InOrderIsCurrent
  BY DEF DialogInv, TextInv
<1>1. Patching!TextIsOfTheTab
  BY DEF DialogInv, TextInv, Patching!TextIsOfTheTab, Patching!Copied
<1>2. ASSUME asks = {}, ~studio.late, ~studio.empty, bundle # None
      PROVE  bundle.n = studio.asked /\ bundle.scope = studio.scope
  <2>1. /\ studio.asked \in Nat /\ bundle.n \in Nat /\ bundle.n <= studio.asked
        /\ ~\E m \in 1 .. studio.asked : m > bundle.n
    BY <1>2 DEF DialogInv, DialogTypes, NumberInv, Number, RepRec
  <2>2. bundle.n = studio.asked
    BY <2>1
  <2> QED BY <1>2, <2>2 DEF DialogInv, NumberInv
<1>3. studio.open /\ studio.empty => ~studio.copy
  BY DEF DialogInv, NumberInv
<1> QED BY <1>1, <1>2, <1>3 DEF Patching!InOrderIsCurrent

\* The table of a scan and the patch dialog agree with the results and with the
\* choices made.
THEOREM PageAgrees == EngineSpec => []PageIsConsistent
<1> DEFINE PageInv == TableInv /\ DialogInv
<1>1. EngineInit => PageInv
  BY TableStart, DialogStart DEF EngineInit
<1>2. PageInv /\ [EngineNext]_allVars => PageInv'
  <2> SUFFICES ASSUME PageInv, [EngineNext]_allVars PROVE PageInv'
    OBVIOUS
  <2>1. ASSUME UNCHANGED viewVars PROVE TableInv'
    BY <2>1 DEF viewVars, TableInv, Views!Statuses
  <2>2. ASSUME UNCHANGED vpVars PROVE DialogInv'
    BY <2>2 DEF vpVars, DialogInv, DialogTypes, TextInv, NumberInv, Number,
                Patching!FormatFits, Patching!Supported
  <2>3. CASE UNCHANGED <<viewVars, vpVars>>
    BY <2>1, <2>2, <2>3
  <2>4. CASE Views!Next /\ UNCHANGED vpVars
    BY <2>2, <2>4, TableStep
  <2>5. CASE Patching!Next /\ UNCHANGED viewVars
    BY <2>1, <2>5, DialogStep
  <2> QED BY <2>3, <2>4, <2>5 DEF EngineNext, VerdictStep, allVars
<1>3. PageInv => PageIsConsistent
  BY Honest, WorstIsTheRisk, Advised, Agreement, DialogHolds DEF PageIsConsistent
<1> QED BY <1>1, <1>2, <1>3, PTL DEF EngineSpec

-----------------------------------------------------------------------------
(* A rule and the request it was made from.                                *)

\* Some alternative of a rule of g matches the request of r.
Matches(g, alts, r) == \E alt \in alts : \A c \in alt : Patch!Holds(c, g.label, r)

\* The rule that vendor v gets for g is one that matches the request of r.
Answers(e, v, g, o, r) ==
  \E alts, scoped, s, h : /\ e = Patch!Emit(v, g, o, alts, scoped, s, h)
                          /\ Matches(g, alts, r)
                          /\ scoped => Patch!Where(r) # "path"

\* What the covers say of r, in terms of the group that r is in.
ParameterReached(v, g, o, r) ==
  /\ ~r.altered /\ r.form \in {"word", "text", "phrase"}
  /\ Patch!Where(r) \in {"query", "body"} /\ Patch!Loc(g) = Patch!Where(r)
  /\ Patch!Where(r) = "body" => v \in Patch!Bodies
  /\ Patch!Encoding(r) \subseteq Patch!Decodes[v]
  /\ r.caps => v # "modsecurity"
  /\ v # "caddy"
  /\ o.scoped => v \notin {"haproxy", "nginx"}

FileReached(v, g, o, r) ==
  /\ ~r.altered /\ r.form \in Patch!FileForms
  /\ Patch!Where(r) = "path" /\ Patch!Loc(g) = "uri" /\ Patch!Reduced(g.label)
  /\ \A s \in g.items : s.form \in Patch!Paths
  /\ o.scoped => v \in {"azure", "k8s"}
  /\ v \in Patch!Enders => r.form # "hidden"
  /\ v = "caddy" => r.form # "vcs"
  /\ v = "azure" => \A s \in g.items : Patch!Kind(s) = Patch!Kind(r)
  /\ r.caps => v \notin Patch!MissesCapitals[Patch!Kind(r)]

\* A group has a first item, among finitely many.
IsGroup(g) == /\ g.items \in SUBSET Patch!Result /\ IsFiniteSet(g.items)
              /\ g.first \in g.items

\* A payload that is not blank has a token.
LEMMA TokenOf ==
  ASSUME NEW g, NEW r \in g.items, r \in Patch!Result, r.form # "blank"
  PROVE  Patch!Token(g.label, r) \in Patch!NonEmpty(g) /\ Patch!Token(g.label, r) \in Patch!Tokens(g)
<1>1. r.form \in Patch!PayloadForms
  BY DEF Patch!Result
<1>2. Patch!Token(g.label, r).text \in {r.form, "ext", "vcs"}
  BY DEF Patch!Token, Patch!Tok
<1>3. Patch!Token(g.label, r).text # ""
  BY <1>1, <1>2 DEF Patch!PayloadForms, Patch!Odd, Patch!FileForms
<1> QED BY <1>3 DEF Patch!NonEmpty, Patch!Tokens

\* The token of a path is that of its kind, lower case unless it is a name.
LEMMA PathToken ==
  ASSUME NEW label, Patch!Reduced(label), NEW r, r.form \in Patch!Paths
  PROVE  LET t == Patch!Token(label, r) IN
         /\ Patch!Kind(r) = "ext"  => Patch!IsExt(t) /\ ~Patch!IsVcs(t)
         /\ Patch!Kind(r) = "vcs"  => ~Patch!IsExt(t) /\ Patch!IsVcs(t)
         /\ Patch!Kind(r) = "name" => ~Patch!IsExt(t) /\ ~Patch!IsVcs(t)
         /\ Patch!Kind(r) \in {"ext", "vcs", "name"}
         /\ r.form # "dots" =>
              t.text # "dots" /\ t.caps = IF Patch!Kind(r) = "name" THEN r.caps ELSE FALSE
<1> DEFINE t == Patch!Token(label, r)
<1>1. CASE r.form = "dots"
  <2>1. t.text = "dots" /\ Patch!Kind(r) = "ext"
    BY <1>1 DEF Patch!Token, Patch!Tok, Patch!Kind
  <2> QED BY <1>1, <2>1 DEF Patch!IsExt, Patch!IsVcs
<1>2. CASE r.form \in {"ext", "hidden"}
  <2>1. t.text = "ext" /\ t.caps = FALSE /\ Patch!Kind(r) = "ext"
    BY <1>2 DEF Patch!Token, Patch!Tok, Patch!Kind
  <2> QED BY <1>2, <2>1 DEF Patch!IsExt, Patch!IsVcs
<1>3. CASE r.form \in {"vcs", "vcsdir"}
  <2>1. t.text = "vcs" /\ t.caps = FALSE /\ Patch!Kind(r) = "vcs"
    BY <1>3 DEF Patch!Token, Patch!Tok, Patch!Kind
  <2> QED BY <1>3, <2>1 DEF Patch!IsExt, Patch!IsVcs
<1>4. CASE r.form = "name"
  <2>1. t.text = "name" /\ t.caps = r.caps /\ Patch!Kind(r) = "name"
    BY <1>4 DEF Patch!Token, Patch!Tok, Patch!Kind
  <2> QED BY <1>4, <2>1 DEF Patch!IsExt, Patch!IsVcs
<1> QED BY <1>1, <1>2, <1>3, <1>4 DEF Patch!Paths, Patch!FileForms

\* One condition that holds is enough of a rule with one, or with alternatives.
LEMMA OneMatches ==
  ASSUME NEW g, NEW r, NEW c, Patch!Holds(c, g.label, r)
  PROVE  Matches(g, Patch!OneCond(c), r) /\ \A cs : c \in cs => Matches(g, Patch!AnyOf(cs), r)
<1>1. \A d \in {c} : Patch!Holds(d, g.label, r)
  OBVIOUS
<1>2. {c} \in Patch!OneCond(c) /\ \A cs : c \in cs => {c} \in Patch!AnyOf(cs)
  BY DEF Patch!OneCond, Patch!AnyOf
<1> QED BY <1>1, <1>2 DEF Matches

\* A condition that looks for the token of a parameter anywhere in its place.
LEMMA ParameterHolds ==
  ASSUME NEW v, NEW g, NEW o, NEW r, ParameterReached(v, g, o, r),
         NEW reads, Patch!Where(r) \in Patch!Seen(reads),
         NEW ts, Patch!Token(g.label, r) \in ts,
         NEW fold, fold = "field" => ~r.caps,
         NEW decodes, Patch!Decodes[v] \subseteq decodes
  PROVE  Patch!Holds(Patch!Cond(reads, "in", ts, fold, decodes), g.label, r)
<1> DEFINE t == Patch!Token(g.label, r)
<1>1. ~r.altered /\ r.form \in {"word", "text", "phrase"} /\ Patch!Encoding(r) \subseteq decodes
  BY DEF ParameterReached
<1>2. t.caps = r.caps
  BY <1>1 DEF Patch!Token, Patch!Tok
<1>3. Patch!Folds(fold, t, r)
  BY <1>2 DEF Patch!Folds
<1>4. Patch!Stands("in", r.form)
  BY DEF Patch!Stands
<1>5. r.form \notin Patch!Odd \cup {"blank"}
  BY <1>1 DEF Patch!Odd
<1> DEFINE c == Patch!Cond(reads, "in", ts, fold, decodes)
<1>6. c.reads = reads /\ c.op = "in" /\ c.tokens = ts /\ c.fold = fold /\ c.decodes = decodes
  BY DEF Patch!Cond
<1> HIDE DEF c, t
<1>7. Patch!Holds(c, g.label, r)
  BY <1>1, <1>3, <1>4, <1>5, <1>6 DEF Patch!Holds, t
<1> QED BY <1>7 DEF c

\* A condition that looks for the token of a file in the path.
LEMMA FileHolds ==
  ASSUME NEW v, NEW g, NEW o, NEW r, FileReached(v, g, o, r),
         NEW reads, "path" \in Patch!Seen(reads),
         NEW op, Patch!Stands(op, r.form),
         NEW ts, Patch!Token(g.label, r) \in ts,
         NEW fold, Patch!Folds(fold, Patch!Token(g.label, r), r), NEW decodes
  PROVE  Patch!Holds(Patch!Cond(reads, op, ts, fold, decodes), g.label, r)
<1>1. ~r.altered /\ r.form \in Patch!FileForms /\ Patch!Where(r) = "path"
  BY DEF FileReached
<1>2. Patch!Encoding(r) = {}
  BY <1>1 DEF Patch!Encoding
<1>3. r.form \notin Patch!Odd \cup {"blank"}
  BY <1>1 DEF Patch!Odd, Patch!FileForms
<1> DEFINE c == Patch!Cond(reads, op, ts, fold, decodes)
<1>4. c.reads = reads /\ c.op = op /\ c.tokens = ts /\ c.fold = fold /\ c.decodes = decodes
  BY DEF Patch!Cond
<1> HIDE DEF c
<1>5. Patch!Holds(c, g.label, r)
  BY <1>1, <1>2, <1>3, <1>4 DEF Patch!Holds
<1> QED BY <1>5 DEF c

\* Where the case counts there are no capitals that the token lacks.
LEMMA FileFolds ==
  ASSUME NEW v, NEW g, NEW o, NEW r \in Patch!Result, FileReached(v, g, o, r)
  PROVE  LET t == Patch!Token(g.label, r) IN
         /\ Patch!Folds("both", t, r)
         /\ v = "modsecurity" => Patch!Folds("field", t, r)
         /\ Patch!Folds(Patch!NoCase[Patch!Kind(r)], t, r)
         /\ v \in {"nginx", "gcp", "k8s"} => Patch!Folds(Patch!CaseForVcs[Patch!Kind(r)], t, r)
         /\ v = "azure" => Patch!Folds(Patch!Case[Patch!Kind(r)], t, r)
<1> DEFINE t == Patch!Token(g.label, r)
<1>1. /\ Patch!Reduced(g.label) /\ r.form \in Patch!FileForms /\ r.form \in Patch!Paths /\ r.form # "dots"
      /\ r.caps \in BOOLEAN /\ (r.caps => v \notin Patch!MissesCapitals[Patch!Kind(r)])
  BY DEF FileReached, Patch!Paths, Patch!FileForms, Patch!Result
<1>2. Patch!Kind(r) \in {"ext", "vcs", "name"} /\ t.caps = IF Patch!Kind(r) = "name" THEN r.caps ELSE FALSE
  BY <1>1, PathToken
<1> HIDE DEF t
<1>3. Patch!Folds("both", t, r)
  BY DEF Patch!Folds
<1>4. CASE Patch!Kind(r) = "ext"
  <2>1. t.caps = FALSE /\ (v = "azure" => r.caps = FALSE)
    <3>1. Patch!MissesCapitals[Patch!Kind(r)] = {"azure"}
      BY <1>4 DEF Patch!MissesCapitals
    <3> QED BY <1>1, <1>2, <1>4, <3>1
  <2>2. /\ Patch!NoCase[Patch!Kind(r)] = "both" /\ Patch!CaseForVcs[Patch!Kind(r)] = "both"
        /\ Patch!Case[Patch!Kind(r)] = "none"
    BY <1>4 DEF Patch!NoCase, Patch!CaseForVcs, Patch!Case
  <2>3. Patch!Folds("field", t, r) /\ (v = "azure" => Patch!Folds("none", t, r))
    BY <1>1, <1>2, <2>1 DEF Patch!Folds
  <2> QED BY <1>3, <2>2, <2>3 DEF t
<1>5. CASE Patch!Kind(r) = "vcs"
  <2>1. t.caps = FALSE /\ (v \in {"azure", "nginx", "gcp", "k8s"} => r.caps = FALSE)
    <3>1. Patch!MissesCapitals[Patch!Kind(r)] = {"azure", "nginx", "gcp", "k8s"}
      BY <1>5 DEF Patch!MissesCapitals
    <3> QED BY <1>1, <1>2, <1>5, <3>1
  <2>2. /\ Patch!NoCase[Patch!Kind(r)] = "both" /\ Patch!CaseForVcs[Patch!Kind(r)] = "none"
        /\ Patch!Case[Patch!Kind(r)] = "none"
    BY <1>5 DEF Patch!NoCase, Patch!CaseForVcs, Patch!Case
  <2>3. /\ Patch!Folds("field", t, r)
        /\ v \in {"azure", "nginx", "gcp", "k8s"} => Patch!Folds("none", t, r)
    BY <1>1, <1>2, <2>1 DEF Patch!Folds
  <2> QED BY <1>3, <2>2, <2>3 DEF t
<1>6. CASE Patch!Kind(r) = "name"
  <2>1. t.caps = r.caps /\ (v = "modsecurity" => ~r.caps)
    BY <1>1, <1>2, <1>6 DEF Patch!MissesCapitals
  <2>2. /\ Patch!NoCase[Patch!Kind(r)] = "both" /\ Patch!CaseForVcs[Patch!Kind(r)] = "both"
        /\ Patch!Case[Patch!Kind(r)] = "none"
    BY <1>6 DEF Patch!NoCase, Patch!CaseForVcs, Patch!Case
  <2>3. (v = "modsecurity" => Patch!Folds("field", t, r)) /\ Patch!Folds("none", t, r)
    BY <2>1 DEF Patch!Folds
  <2> QED BY <1>3, <2>2, <2>3 DEF t
<1> QED BY <1>2, <1>4, <1>5, <1>6

\* The condition of the kind of a file holds, of those of a split path.
LEMMA ByKindHolds ==
  ASSUME NEW v, NEW g, NEW o, NEW r, FileReached(v, g, o, r), r.form # "hidden",
         NEW ts, Patch!Token(g.label, r) \in ts,
         NEW vcsOp \in {"below", "inside", "begins"}, vcsOp = "inside" => r.form # "vcs",
         NEW nameOp \in {"in", "ends"},
         NEW fold, Patch!Folds(fold[Patch!Kind(r)], Patch!Token(g.label, r), r)
  PROVE  \E c \in Patch!ByKind(Patch!Split(ts), vcsOp, nameOp, fold) : Patch!Holds(c, g.label, r)
<1> DEFINE t == Patch!Token(g.label, r)
           s == Patch!Split(ts)
<1>1. r.form \in Patch!FileForms /\ r.form \in Patch!Paths /\ Patch!Reduced(g.label)
  BY DEF FileReached, Patch!Paths
<1>2. "path" \in Patch!Seen("path")
  BY DEF Patch!Seen
<1>3. CASE Patch!Kind(r) = "ext"
  <2>1. t \in s.ext
    BY <1>1, <1>3, PathToken DEF Patch!Split
  <2>2. Patch!Stands("ends", r.form)
    BY <1>3 DEF Patch!Stands, Patch!Kind
  <2>3. Patch!Cond("path", "ends", s.ext, fold.ext, {}) \in Patch!ByKind(s, vcsOp, nameOp, fold)
    BY <2>1 DEF Patch!ByKind
  <2>4. Patch!Folds(fold.ext, t, r)
    BY <1>3
  <2> HIDE DEF s
  <2>5. Patch!Holds(Patch!Cond("path", "ends", s.ext, fold.ext, {}), g.label, r)
    BY <1>2, <2>1, <2>2, <2>4, FileHolds
  <2> QED BY <2>3, <2>5 DEF s
<1>4. CASE Patch!Kind(r) = "vcs"
  <2>1. t \in s.vcs
    BY <1>1, <1>4, PathToken DEF Patch!Split
  <2>2. Patch!Stands(vcsOp, r.form)
    BY <1>4 DEF Patch!Stands, Patch!Kind
  <2>3. Patch!Cond("path", vcsOp, s.vcs, fold.vcs, {}) \in Patch!ByKind(s, vcsOp, nameOp, fold)
    BY <2>1 DEF Patch!ByKind
  <2>4. Patch!Folds(fold.vcs, t, r)
    BY <1>4
  <2> HIDE DEF s
  <2>5. Patch!Holds(Patch!Cond("path", vcsOp, s.vcs, fold.vcs, {}), g.label, r)
    BY <1>2, <2>1, <2>2, <2>4, FileHolds
  <2> QED BY <2>3, <2>5 DEF s
<1>5. CASE Patch!Kind(r) = "name"
  <2>1. t \in s.name
    BY <1>1, <1>5, PathToken DEF Patch!Split
  <2>2. Patch!Stands(nameOp, r.form)
    BY <1>5 DEF Patch!Stands, Patch!Kind
  <2>3. Patch!Cond("path", nameOp, s.name, fold.name, {}) \in Patch!ByKind(s, vcsOp, nameOp, fold)
    BY <2>1 DEF Patch!ByKind
  <2>4. Patch!Folds(fold.name, t, r)
    BY <1>5
  <2> HIDE DEF s
  <2>5. Patch!Holds(Patch!Cond("path", nameOp, s.name, fold.name, {}), g.label, r)
    BY <1>2, <2>1, <2>2, <2>4, FileHolds
  <2> QED BY <2>3, <2>5 DEF s
<1> QED BY <1>1, <1>3, <1>4, <1>5, PathToken

-----------------------------------------------------------------------------
(* The eleven products.                                                    *)

IsReached(v, g, o, r) == ParameterReached(v, g, o, r) \/ FileReached(v, g, o, r)

\* A condition that looks for the token anywhere, and compares it without case
\* or, for ModSecurity, as it is.
LEMMA InHolds ==
  ASSUME NEW v, NEW g, NEW o, NEW r \in Patch!Result, IsReached(v, g, o, r),
         NEW reads, Patch!Where(r) \in Patch!Seen(reads),
         NEW ts, Patch!Token(g.label, r) \in ts,
         NEW fold \in {"both", "field"}, fold = "field" => v = "modsecurity",
         NEW decodes, Patch!Decodes[v] \subseteq decodes
  PROVE  Patch!Holds(Patch!Cond(reads, "in", ts, fold, decodes), g.label, r)
<1>1. ASSUME ParameterReached(v, g, o, r)
      PROVE  Patch!Holds(Patch!Cond(reads, "in", ts, fold, decodes), g.label, r)
  <2>1. fold = "field" => ~r.caps
    BY <1>1 DEF ParameterReached
  <2> QED BY <1>1, <2>1, ParameterHolds
<1>2. ASSUME FileReached(v, g, o, r)
      PROVE  Patch!Holds(Patch!Cond(reads, "in", ts, fold, decodes), g.label, r)
  <2>1. Patch!Folds(fold, Patch!Token(g.label, r), r)
    BY <1>2, FileFolds
  <2>2. "path" \in Patch!Seen(reads) /\ Patch!Stands("in", r.form)
    BY <1>2 DEF FileReached, Patch!Stands
  <2> QED BY <1>2, <2>1, <2>2, FileHolds
<1> QED BY <1>1, <1>2 DEF IsReached

\* What a bypass that is reached has, whichever cover it is.
LEMMA ReachedHas ==
  ASSUME NEW v \in Patch!PatchVendors, NEW g, IsGroup(g), NEW o, NEW r \in g.items,
         IsReached(v, g, o, r)
  PROVE  /\ r \in Patch!Result
         /\ Patch!Token(g.label, r) \in Patch!NonEmpty(g)
         /\ Patch!Token(g.label, r) \in Patch!Tokens(g)
         /\ v # "azure" /\ v # "k8s" /\ o.scoped => Patch!Where(r) # "path"
<1>1. r \in Patch!Result /\ r.form # "blank"
  BY DEF IsGroup, IsReached, ParameterReached, FileReached, Patch!FileForms
<1>2. v # "azure" /\ v # "k8s" /\ o.scoped => Patch!Where(r) # "path"
  BY DEF IsReached, ParameterReached, FileReached
<1> QED BY <1>1, <1>2, TokenOf

LEMMA CloudflareAnswers ==
  ASSUME NEW g, IsGroup(g), NEW o, NEW done, NEW r \in g.items, IsReached("cloudflare", g, o, r)
  PROVE  Answers(Patch!Cloudflare(g, o, done), "cloudflare", g, o, r)
<1> DEFINE reads == CASE Patch!Loc(g) = "header" -> Patch!HeaderOf(g, "x-forwarded-for")
                      [] Patch!Loc(g) = "uri" -> "path" [] Patch!Loc(g) = "body" -> "body"
                      [] OTHER -> "query"
           c == Patch!Cond(reads, "in", Patch!NonEmpty(g), "both", {})
<1>1. "cloudflare" \in Patch!PatchVendors /\ Patch!Decodes["cloudflare"] = {}
  BY DEF Patch!PatchVendors, Patch!Decodes
<1>2. Patch!Where(r) \in Patch!Seen(reads)
  BY DEF IsReached, ParameterReached, FileReached, Patch!Seen
<1>3. Patch!Holds(c, g.label, r)
  <2> HIDE DEF reads
  <2> QED BY <1>1, <1>2, ReachedHas, InHolds
<1>4. Patch!Cloudflare(g, o, done)
        = Patch!Emit("cloudflare", g, o, Patch!OneCond(c), o.scoped, {}, {})
  BY DEF Patch!Cloudflare
<1>5. o.scoped => Patch!Where(r) # "path"
  BY <1>1, ReachedHas
<1> QED BY <1>3, <1>4, <1>5, OneMatches DEF Answers

LEMMA AwsAnswers ==
  ASSUME NEW g, IsGroup(g), NEW o, NEW done, NEW k, NEW r \in g.items, IsReached("aws", g, o, r)
  PROVE  Answers(Patch!Aws(g, o, done, k), "aws", g, o, r)
<1> DEFINE c == Patch!Cond(Patch!AwsField(g), "in", Patch!NonEmpty(g), Patch!AwsFold, {"percent"})
<1>1. "aws" \in Patch!PatchVendors /\ Patch!Decodes["aws"] = {"percent"} /\ Patch!AwsFold = "both"
  BY DEF Patch!PatchVendors, Patch!Decodes, Patch!AwsFold
<1>2. Patch!Where(r) \in Patch!Seen(Patch!AwsField(g))
  BY DEF IsReached, ParameterReached, FileReached, Patch!Seen, Patch!AwsField
<1>3. Patch!Holds(c, g.label, r)
  BY <1>1, <1>2, ReachedHas, InHolds
<1>4. Patch!NonEmpty(g) # {}
  BY <1>1, ReachedHas
<1>5. Patch!Aws(g, o, done, k)
        = Patch!Emit("aws", g, o, Patch!OneCond(c), o.scoped,
                     {10 + 2 * (k - 1)}, {10 + 2 * (k - 1) + 1})
  BY <1>4 DEF Patch!Aws
<1>6. o.scoped => Patch!Where(r) # "path"
  BY <1>1, ReachedHas
<1> QED BY <1>3, <1>5, <1>6, OneMatches DEF Answers

LEMMA ModSecurityAnswers ==
  ASSUME NEW g, IsGroup(g), NEW o, NEW done, NEW r \in g.items, IsReached("modsecurity", g, o, r)
  PROVE  Answers(Patch!ModSecurity(g, o, done), "modsecurity", g, o, r)
<1> DEFINE reads == CASE Patch!Loc(g) = "header" -> Patch!HeaderOf(g, "x-forwarded-for")
                      [] Patch!Loc(g) = "uri" -> "uri" [] Patch!Loc(g) = "body" -> "body"
                      [] OTHER -> "args"
           words == Cardinality(Patch!Tokens(g)) > 1
                    /\ \A x \in Patch!Tokens(g) : x.text \notin {"phrase", "oddphrase"}
           used  == UNION {done[i].ids : i \in DOMAIN done}
           first == 1000000 + Cardinality(used)
           size  == IF o.tier = "heuristic" THEN 0 ELSE IF words THEN 1
                    ELSE Cardinality(Patch!Tokens(g))
           both  == {"percent", "plus"}
           c == Patch!Cond(reads, "in", Patch!Tokens(g), "both", both)
           t == Patch!Token(g.label, r)
           ds == {Patch!Cond(reads, "in", {x}, "field", both) : x \in Patch!Tokens(g)}
           d == Patch!Cond(reads, "in", {t}, "field", both)
           alts == IF words THEN Patch!OneCond(c) ELSE Patch!AnyOf(ds)
<1>1. "modsecurity" \in Patch!PatchVendors /\ Patch!Decodes["modsecurity"] = both
  BY DEF Patch!PatchVendors, Patch!Decodes
<1>2. Patch!Where(r) \in Patch!Seen(reads)
  BY DEF IsReached, ParameterReached, FileReached, Patch!Seen
<1>3. t \in Patch!Tokens(g) /\ r \in Patch!Result
  BY <1>1, ReachedHas
<1> HIDE DEF reads
<1>4. Patch!Holds(c, g.label, r)
  BY <1>1, <1>2, <1>3, InHolds
<1>5. Patch!Holds(d, g.label, r)
  <2>1. t \in {t}
    OBVIOUS
  <2> QED BY <1>1, <1>2, <1>3, <2>1, InHolds
<1>6. d \in ds
  BY <1>3
<1>7. Matches(g, alts, r)
  <2> HIDE DEF c, d, ds, words
  <2>1. Matches(g, Patch!OneCond(c), r) /\ Matches(g, Patch!AnyOf(ds), r)
    BY <1>4, <1>5, <1>6, OneMatches
  <2> QED BY <2>1
<1>8. Patch!ModSecurity(g, o, done)
        = Patch!Emit("modsecurity", g, o, alts, o.scoped, first .. first + size - 1, {first + size})
  BY DEF Patch!ModSecurity, reads, Cardinality, Patch!Cardinality
<1>9. o.scoped => Patch!Where(r) # "path"
  BY <1>1, ReachedHas
<1> HIDE DEF alts, first, size
<1> QED BY <1>7, <1>8, <1>9 DEF Answers

\* The alternatives for a path, by the kind of its token.
LEMMA PathMatches ==
  ASSUME NEW v \in {"nginx", "gcp", "haproxy", "caddy", "k8s"}, NEW g, NEW o,
         NEW r \in Patch!Result, FileReached(v, g, o, r),
         NEW ts, Patch!Token(g.label, r) \in ts,
         NEW vcsOp \in {"below", "inside", "begins"}, vcsOp = "inside" => v = "caddy",
         NEW nameOp \in {"in", "ends"},
         NEW fold, \/ fold = Patch!NoCase
                   \/ fold = Patch!CaseForVcs /\ v \in {"nginx", "gcp", "k8s"}
  PROVE  LET cs == Patch!ByKind(Patch!Split(ts), vcsOp, nameOp, fold) IN
         cs # {} /\ Matches(g, Patch!AnyOf(cs), r)
<1> DEFINE cs == Patch!ByKind(Patch!Split(ts), vcsOp, nameOp, fold)
<1>1. r.form # "hidden" /\ (v = "caddy" => r.form # "vcs")
  BY DEF FileReached, Patch!Enders
<1>2. Patch!Folds(fold[Patch!Kind(r)], Patch!Token(g.label, r), r)
  BY FileFolds
<1>3. \E c \in cs : Patch!Holds(c, g.label, r)
  BY <1>1, <1>2, ByKindHolds
<1> HIDE DEF cs
<1>4. cs # {} /\ Matches(g, Patch!AnyOf(cs), r)
  BY <1>3, OneMatches
<1> QED BY <1>4 DEF cs

LEMMA NginxAnswers ==
  ASSUME NEW g, IsGroup(g), NEW o, NEW done, NEW r \in g.items, IsReached("nginx", g, o, r)
  PROVE  Answers(Patch!Nginx(g, o, done), "nginx", g, o, r)
<1> DEFINE reads == CASE Patch!Loc(g) = "header" -> Patch!HeaderOf(g, "x-forwarded-for")
                      [] Patch!Loc(g) \in {"uri", "body"} -> "uri" [] OTHER -> "query"
           ts    == Patch!WithoutSlash(Patch!Tokens(g))
           kinds == Patch!ByKind(Patch!Split(ts), "below", "in", Patch!CaseForVcs)
           c == Patch!Cond(reads, "in", Patch!Tokens(g), "both", {})
           e == Patch!Cond("path", "in", Patch!Tokens(g), "both", {})
           alts == IF Patch!Loc(g) # "uri" \/ o.scoped THEN Patch!OneCond(c)
                   ELSE IF kinds # {} THEN Patch!AnyOf(kinds) ELSE Patch!OneCond(e)
<1>1. "nginx" \in Patch!PatchVendors /\ Patch!Decodes["nginx"] = {}
  BY DEF Patch!PatchVendors, Patch!Decodes
<1>2. r \in Patch!Result /\ Patch!Token(g.label, r) \in Patch!Tokens(g)
  BY <1>1, ReachedHas
<1>3. \E s, h : Patch!Nginx(g, o, done) = Patch!Emit("nginx", g, o, alts, o.scoped, s, h)
  BY DEF Patch!Nginx
<1>4. ASSUME ParameterReached("nginx", g, o, r) PROVE Matches(g, alts, r)
  <2>1. Patch!Where(r) = "query" /\ Patch!Loc(g) = "query"
    BY <1>4 DEF ParameterReached, Patch!Bodies
  <2>2. Patch!Where(r) \in Patch!Seen(reads)
    BY <2>1 DEF Patch!Seen
  <2> HIDE DEF reads
  <2>3. Patch!Holds(c, g.label, r)
    BY <1>1, <1>2, <2>2, InHolds DEF IsReached
  <2>4. alts = Patch!OneCond(c)
    BY <2>1
  <2> HIDE DEF c, alts
  <2> QED BY <2>3, <2>4, OneMatches
<1>5. ASSUME FileReached("nginx", g, o, r) PROVE Matches(g, alts, r)
  <2>1. Patch!Loc(g) = "uri" /\ ~o.scoped
    BY <1>5 DEF FileReached
  <2>2. Patch!Token(g.label, r).text # "dots"
    <3>1. r.form \in Patch!Paths /\ r.form # "dots" /\ Patch!Reduced(g.label)
      BY <1>5 DEF FileReached, Patch!Paths, Patch!FileForms
    <3> QED BY <3>1, PathToken
  <2>3. Patch!Token(g.label, r) \in ts
    BY <1>2, <2>2 DEF Patch!WithoutSlash
  <2> HIDE DEF ts
  <2>4. kinds # {} /\ Matches(g, Patch!AnyOf(kinds), r)
    BY <1>2, <1>5, <2>3, PathMatches
  <2>5. alts = Patch!AnyOf(kinds)
    BY <2>1, <2>4
  <2> QED BY <2>4, <2>5
<1>6. o.scoped => Patch!Where(r) # "path"
  BY <1>1, ReachedHas
<1> HIDE DEF alts
<1> QED BY <1>3, <1>4, <1>5, <1>6 DEF Answers, IsReached

LEMMA GcpAnswers ==
  ASSUME NEW g, IsGroup(g), NEW o, NEW done, NEW r \in g.items, IsReached("gcp", g, o, r)
  PROVE  Answers(Patch!Gcp(g, o, done), "gcp", g, o, r)
<1> DEFINE reads == CASE Patch!Loc(g) = "header" -> Patch!HeaderOf(g, "x-forwarded-for")
                      [] Patch!Loc(g) = "uri" -> "path" [] OTHER -> "query"
           c == Patch!Cond(reads, "in", Patch!NonEmpty(g), "both", {})
           kinds == Patch!ByKind(Patch!Split(Patch!NonEmpty(g)), "below", "ends", Patch!CaseForVcs)
           alts == IF Patch!Loc(g) = "uri" THEN Patch!AnyOf(kinds) ELSE Patch!OneCond(c)
<1>1. "gcp" \in Patch!PatchVendors /\ Patch!Decodes["gcp"] = {}
  BY DEF Patch!PatchVendors, Patch!Decodes
<1>2. r \in Patch!Result /\ Patch!Token(g.label, r) \in Patch!NonEmpty(g)
  BY <1>1, ReachedHas
<1>3. \E s, h : Patch!Gcp(g, o, done) = Patch!Emit("gcp", g, o, alts, o.scoped, s, h)
  <2> DEFINE next == 1000 + 10 * Len(done)
             own  == IF o.tier = "heuristic" THEN {} ELSE {next}
             h    == {next + 10 * Cardinality(own)}
  <2>1. Patch!Gcp(g, o, done) = Patch!Emit("gcp", g, o, alts, o.scoped, own, h)
    BY DEF Patch!Gcp, Cardinality, Patch!Cardinality
  <2> HIDE DEF alts, own, h
  <2> QED BY <2>1
<1>4. ASSUME ParameterReached("gcp", g, o, r) PROVE Matches(g, alts, r)
  <2>1. Patch!Where(r) = "query" /\ Patch!Loc(g) = "query"
    BY <1>4 DEF ParameterReached, Patch!Bodies
  <2>2. Patch!Where(r) \in Patch!Seen(reads)
    BY <2>1 DEF Patch!Seen
  <2> HIDE DEF reads
  <2>3. Patch!Holds(c, g.label, r)
    BY <1>1, <1>2, <2>2, InHolds DEF IsReached
  <2>4. alts = Patch!OneCond(c)
    BY <2>1
  <2> HIDE DEF c, alts
  <2> QED BY <2>3, <2>4, OneMatches
<1>5. ASSUME FileReached("gcp", g, o, r) PROVE Matches(g, alts, r)
  <2>1. Patch!Loc(g) = "uri"
    BY <1>5 DEF FileReached
  <2>2. Matches(g, Patch!AnyOf(kinds), r)
    BY <1>2, <1>5, PathMatches
  <2> QED BY <2>1, <2>2
<1>6. o.scoped => Patch!Where(r) # "path"
  BY <1>1, ReachedHas
<1> HIDE DEF alts
<1> QED BY <1>3, <1>4, <1>5, <1>6 DEF Answers, IsReached

\* All conditions on a path hold if every item of the group is of one kind.
LEMMA AllKindsHold ==
  ASSUME NEW g, IsGroup(g), NEW o, NEW r \in g.items, FileReached("azure", g, o, r)
  PROVE  \A c \in Patch!ByKind(Patch!Split(Patch!NonEmpty(g)), "below", "ends", Patch!Case) :
           Patch!Holds(c, g.label, r)
<1> DEFINE ts == Patch!NonEmpty(g)
           t  == Patch!Token(g.label, r)
           s  == Patch!Split(ts)
<1>1. /\ r \in Patch!Result /\ r.form \in Patch!Paths /\ r.form \in Patch!FileForms /\ r.form # "hidden"
      /\ Patch!Reduced(g.label)
      /\ \A x \in g.items : x.form \in Patch!Paths /\ Patch!Kind(x) = Patch!Kind(r)
  BY DEF IsGroup, FileReached, Patch!Enders, Patch!Paths
<1>2. t \in ts /\ \A x \in ts : \E y \in g.items : x = Patch!Token(g.label, y)
  <2>1. r.form # "blank"
    BY <1>1 DEF Patch!FileForms
  <2> QED BY <1>1, <2>1, TokenOf DEF Patch!NonEmpty, Patch!Tokens
<1>3. "path" \in Patch!Seen("path") /\ Patch!Folds(Patch!Case[Patch!Kind(r)], t, r)
  BY <1>1, FileFolds DEF Patch!Seen
<1> HIDE DEF ts
<1>4. ASSUME Patch!Kind(r) = "ext"
      PROVE  \A c \in Patch!ByKind(s, "below", "ends", Patch!Case) : Patch!Holds(c, g.label, r)
  <2>1. \A x \in ts : Patch!IsExt(x) /\ ~Patch!IsVcs(x)
    BY <1>1, <1>2, <1>4, PathToken
  <2>2. s.vcs = {} /\ s.name = {} /\ t \in s.ext
    BY <1>2, <2>1 DEF Patch!Split
  <2>3. Patch!Stands("ends", r.form)
    BY <1>1, <1>4 DEF Patch!Stands, Patch!Kind
  <2>4. Patch!Folds(Patch!Case.ext, t, r)
    BY <1>3, <1>4
  <2> HIDE DEF s
  <2>5. Patch!Holds(Patch!Cond("path", "ends", s.ext, Patch!Case.ext, {}), g.label, r)
    BY <1>3, <2>2, <2>3, <2>4, FileHolds
  <2> QED BY <2>2, <2>5 DEF Patch!ByKind
<1>5. ASSUME Patch!Kind(r) = "vcs"
      PROVE  \A c \in Patch!ByKind(s, "below", "ends", Patch!Case) : Patch!Holds(c, g.label, r)
  <2>1. \A x \in ts : ~Patch!IsExt(x) /\ Patch!IsVcs(x)
    BY <1>1, <1>2, <1>5, PathToken
  <2>2. s.ext = {} /\ s.name = {} /\ t \in s.vcs
    BY <1>2, <2>1 DEF Patch!Split
  <2>3. Patch!Stands("below", r.form)
    BY DEF Patch!Stands
  <2>4. Patch!Folds(Patch!Case.vcs, t, r)
    BY <1>3, <1>5
  <2> HIDE DEF s
  <2>5. Patch!Holds(Patch!Cond("path", "below", s.vcs, Patch!Case.vcs, {}), g.label, r)
    BY <1>3, <2>2, <2>3, <2>4, FileHolds
  <2> QED BY <2>2, <2>5 DEF Patch!ByKind
<1>6. ASSUME Patch!Kind(r) = "name"
      PROVE  \A c \in Patch!ByKind(s, "below", "ends", Patch!Case) : Patch!Holds(c, g.label, r)
  <2>1. \A x \in ts : ~Patch!IsExt(x) /\ ~Patch!IsVcs(x)
    BY <1>1, <1>2, <1>6, PathToken
  <2>2. s.ext = {} /\ s.vcs = {} /\ t \in s.name
    BY <1>2, <2>1 DEF Patch!Split
  <2>3. Patch!Stands("ends", r.form)
    BY <1>1, <1>6 DEF Patch!Stands, Patch!Kind
  <2>4. Patch!Folds(Patch!Case.name, t, r)
    BY <1>3, <1>6
  <2> HIDE DEF s
  <2>5. Patch!Holds(Patch!Cond("path", "ends", s.name, Patch!Case.name, {}), g.label, r)
    BY <1>3, <2>2, <2>3, <2>4, FileHolds
  <2> QED BY <2>2, <2>5 DEF Patch!ByKind
<1>7. Patch!Kind(r) \in {"ext", "vcs", "name"}
  BY DEF Patch!Kind
<1> QED BY <1>4, <1>5, <1>6, <1>7 DEF ts

LEMMA AzureAnswers ==
  ASSUME NEW g, IsGroup(g), NEW o, NEW done, NEW r \in g.items, IsReached("azure", g, o, r)
  PROVE  Answers(Patch!Azure(g, o, done), "azure", g, o, r)
<1> DEFINE reads == CASE Patch!Loc(g) = "header" ->
                           IF Patch!Is(g.label, "User-Agent") THEN "user-agent" ELSE "authorization"
                      [] Patch!Loc(g) = "body" -> "body" [] OTHER -> "query"
           kinds == Patch!ByKind(Patch!Split(Patch!NonEmpty(g)), "below", "ends", Patch!Case)
           c == Patch!Cond(reads, "in", Patch!NonEmpty(g), "none", {})
           conds == IF Patch!Loc(g) = "uri" THEN kinds
                    ELSE IF Patch!NonEmpty(g) = {} THEN {} ELSE {c}
           alts == IF conds = {} THEN {} ELSE {conds}
<1>1. "azure" \in Patch!PatchVendors /\ Patch!Decodes["azure"] = {}
  BY DEF Patch!PatchVendors, Patch!Decodes
<1>2. r \in Patch!Result /\ Patch!Token(g.label, r) \in Patch!NonEmpty(g)
  BY <1>1, ReachedHas
<1>3. \E s, h : Patch!Azure(g, o, done) = Patch!Emit("azure", g, o, alts, FALSE, s, h)
  <2> DEFINE next == 100 + 10 * Len(done)
             own  == IF o.tier # "heuristic" /\ alts # {} THEN {next} ELSE {}
             h    == {next + 10 * Cardinality(own)}
  <2>1. Patch!Azure(g, o, done) = Patch!Emit("azure", g, o, alts, FALSE, own, h)
    BY DEF Patch!Azure, Cardinality, Patch!Cardinality
  <2> HIDE DEF alts, own, h
  <2> QED BY <2>1
<1>4. ASSUME ParameterReached("azure", g, o, r)
      PROVE  conds # {} /\ \A x \in conds : Patch!Holds(x, g.label, r)
  <2>1. Patch!Where(r) \in Patch!Seen(reads)
    BY <1>4 DEF ParameterReached, Patch!Seen
  <2>2. Patch!Loc(g) # "uri" /\ Patch!NonEmpty(g) # {}
    BY <1>2, <1>4 DEF ParameterReached
  <2> HIDE DEF reads
  <2>3. Patch!Holds(c, g.label, r)
    BY <1>1, <1>2, <1>4, <2>1, ParameterHolds
  <2>4. conds = {c}
    BY <2>2
  <2> HIDE DEF c, conds
  <2> QED BY <2>3, <2>4
<1>5. ASSUME FileReached("azure", g, o, r)
      PROVE  conds # {} /\ \A x \in conds : Patch!Holds(x, g.label, r)
  <2>1. Patch!Loc(g) = "uri" /\ r.form # "hidden"
    BY <1>5 DEF FileReached, Patch!Enders
  <2>2. Patch!Folds(Patch!Case[Patch!Kind(r)], Patch!Token(g.label, r), r)
    BY <1>2, <1>5, FileFolds
  <2>3. kinds # {}
    BY <1>2, <1>5, <2>1, <2>2, ByKindHolds
  <2>4. \A x \in kinds : Patch!Holds(x, g.label, r)
    BY <1>5, AllKindsHold
  <2>5. conds = kinds
    BY <2>1
  <2> HIDE DEF kinds, conds
  <2> QED BY <2>3, <2>4, <2>5
<1> HIDE DEF conds
<1>6. Matches(g, alts, r)
  BY <1>4, <1>5 DEF Matches, IsReached
<1> HIDE DEF alts
<1> QED BY <1>3, <1>6 DEF Answers

LEMMA HAProxyAnswers ==
  ASSUME NEW g, IsGroup(g), NEW o, NEW done, NEW r \in g.items, IsReached("haproxy", g, o, r)
  PROVE  Answers(Patch!HAProxy(g, o, done), "haproxy", g, o, r)
<1> DEFINE kinds == Patch!ByKind(Patch!Split(Patch!NonEmpty(g)), "begins", "ends", Patch!NoCase)
           c == Patch!Cond(Patch!SimpleField(g), "in", Patch!NonEmpty(g), "both", {})
           alts == IF o.scoped THEN {}
                   ELSE IF Patch!Loc(g) = "uri" THEN Patch!AnyOf(kinds) ELSE Patch!OneCond(c)
<1>1. "haproxy" \in Patch!PatchVendors /\ Patch!Decodes["haproxy"] = {}
  BY DEF Patch!PatchVendors, Patch!Decodes
<1>2. r \in Patch!Result /\ Patch!Token(g.label, r) \in Patch!NonEmpty(g)
  BY <1>1, ReachedHas
<1>3. \E s, h : Patch!HAProxy(g, o, done) = Patch!Emit("haproxy", g, o, alts, o.scoped, s, h)
  BY DEF Patch!HAProxy
<1>4. ~o.scoped
  BY DEF IsReached, ParameterReached, FileReached
<1>5. ASSUME ParameterReached("haproxy", g, o, r) PROVE Matches(g, alts, r)
  <2>1. Patch!Where(r) = "query" /\ Patch!Loc(g) = "query"
    BY <1>5 DEF ParameterReached, Patch!Bodies
  <2>2. Patch!Where(r) \in Patch!Seen(Patch!SimpleField(g))
    BY <2>1 DEF Patch!Seen, Patch!SimpleField
  <2>3. Patch!Holds(c, g.label, r)
    BY <1>1, <1>2, <1>5, <2>2, InHolds DEF IsReached
  <2>4. alts = Patch!OneCond(c)
    BY <1>4, <2>1
  <2> HIDE DEF c, alts
  <2> QED BY <2>3, <2>4, OneMatches
<1>6. ASSUME FileReached("haproxy", g, o, r) PROVE Matches(g, alts, r)
  <2>1. Patch!Loc(g) = "uri"
    BY <1>6 DEF FileReached
  <2>2. Matches(g, Patch!AnyOf(kinds), r)
    BY <1>2, <1>6, PathMatches
  <2> QED BY <1>4, <2>1, <2>2
<1> HIDE DEF alts
<1> QED BY <1>3, <1>4, <1>5, <1>6 DEF Answers, IsReached

LEMMA CaddyAnswers ==
  ASSUME NEW g, IsGroup(g), NEW o, NEW done, NEW r \in g.items, IsReached("caddy", g, o, r)
  PROVE  Answers(Patch!Caddy(g, o, done), "caddy", g, o, r)
<1> DEFINE kinds == Patch!ByKind(Patch!Split(Patch!NonEmpty(g)), "inside", "ends", Patch!NoCase)
           op == IF Patch!Loc(g) = "header" THEN "in" ELSE "literally"
           cs == {Patch!Cond(Patch!SimpleField(g), op, {t}, "none", {"percent", "plus"}) :
                    t \in Patch!NonEmpty(g)}
           alts == IF Patch!Loc(g) = "uri" THEN Patch!AnyOf(kinds) ELSE Patch!AnyOf(cs)
<1>1. "caddy" \in Patch!PatchVendors
  BY DEF Patch!PatchVendors
<1>2. r \in Patch!Result /\ Patch!Token(g.label, r) \in Patch!NonEmpty(g)
  BY <1>1, ReachedHas
<1>3. \E s, h : Patch!Caddy(g, o, done) = Patch!Emit("caddy", g, o, alts, o.scoped, s, h)
  BY DEF Patch!Caddy
<1>4. FileReached("caddy", g, o, r) /\ Patch!Loc(g) = "uri"
  BY DEF IsReached, ParameterReached, FileReached
<1>5. Matches(g, Patch!AnyOf(kinds), r)
  BY <1>2, <1>4, PathMatches
<1>6. Matches(g, alts, r)
  BY <1>4, <1>5
<1>7. o.scoped => Patch!Where(r) # "path"
  BY <1>1, ReachedHas
<1> HIDE DEF alts
<1> QED BY <1>3, <1>6, <1>7 DEF Answers

LEMMA ApacheAnswers ==
  ASSUME NEW g, IsGroup(g), NEW o, NEW done, NEW r \in g.items, IsReached("apache", g, o, r)
  PROVE  Answers(Patch!Apache(g, o, done), "apache", g, o, r)
<1> DEFINE reads == CASE Patch!Loc(g) = "header" -> Patch!HeaderOf(g, "x-forwarded-for")
                      [] Patch!Loc(g) = "uri" -> "path" [] OTHER -> "query"
           c == Patch!Cond(reads, "in", Patch!NonEmpty(g), "both", {})
<1>1. "apache" \in Patch!PatchVendors /\ Patch!Decodes["apache"] = {}
  BY DEF Patch!PatchVendors, Patch!Decodes
<1>2. Patch!Where(r) \in Patch!Seen(reads)
  BY DEF IsReached, ParameterReached, FileReached, Patch!Seen, Patch!Bodies
<1>3. Patch!Holds(c, g.label, r)
  <2> HIDE DEF reads
  <2> QED BY <1>1, <1>2, ReachedHas, InHolds
<1>4. Patch!Apache(g, o, done) = Patch!Emit("apache", g, o, Patch!OneCond(c), o.scoped, {}, {})
  BY DEF Patch!Apache
<1>5. o.scoped => Patch!Where(r) # "path"
  BY <1>1, ReachedHas
<1> QED BY <1>3, <1>4, <1>5, OneMatches DEF Answers

LEMMA EnvoyAnswers ==
  ASSUME NEW g, IsGroup(g), NEW o, NEW done, NEW r \in g.items, IsReached("envoy", g, o, r)
  PROVE  Answers(Patch!Envoy(g, o, done), "envoy", g, o, r)
<1> DEFINE reads == IF Patch!Loc(g) = "header" THEN Patch!HeaderOf(g, "x-forwarded-for") ELSE "uri"
           c == Patch!Cond(reads, "in", Patch!NonEmpty(g), "both", {})
<1>1. "envoy" \in Patch!PatchVendors /\ Patch!Decodes["envoy"] = {}
  BY DEF Patch!PatchVendors, Patch!Decodes
<1>2. Patch!Where(r) \in Patch!Seen(reads)
  BY DEF IsReached, ParameterReached, FileReached, Patch!Seen, Patch!Bodies
<1>3. Patch!Holds(c, g.label, r)
  <2> HIDE DEF reads
  <2> QED BY <1>1, <1>2, ReachedHas, InHolds
<1>4. Patch!Envoy(g, o, done) = Patch!Emit("envoy", g, o, Patch!OneCond(c), o.scoped, {}, {})
  BY DEF Patch!Envoy
<1>5. o.scoped => Patch!Where(r) # "path"
  BY <1>1, ReachedHas
<1> QED BY <1>3, <1>4, <1>5, OneMatches DEF Answers

LEMMA K8sAnswers ==
  ASSUME NEW g, IsGroup(g), NEW o, NEW done, NEW r \in g.items, IsReached("k8s", g, o, r)
  PROVE  Answers(Patch!K8s(g, o, done), "k8s", g, o, r)
<1> DEFINE ts    == Patch!WithoutSlash(Patch!NonEmpty(g))
           kinds == Patch!ByKind(Patch!Split(ts), "below", "in", Patch!CaseForVcs)
           c == Patch!Cond(Patch!SimpleField(g), "in", Patch!NonEmpty(g), "both", {})
           alts == IF Patch!Loc(g) = "uri"
                     THEN IF kinds = {} THEN {{Patch!Cond("path", "in", {}, "both", {})}}
                          ELSE Patch!AnyOf(kinds)
                   ELSE Patch!OneCond(c)
<1>1. "k8s" \in Patch!PatchVendors /\ Patch!Decodes["k8s"] = {}
  BY DEF Patch!PatchVendors, Patch!Decodes
<1>2. r \in Patch!Result /\ Patch!Token(g.label, r) \in Patch!NonEmpty(g)
  BY <1>1, ReachedHas
<1>3. \E s, h : Patch!K8s(g, o, done) = Patch!Emit("k8s", g, o, alts, FALSE, s, h)
  BY DEF Patch!K8s
<1>4. ASSUME ParameterReached("k8s", g, o, r) PROVE Matches(g, alts, r)
  <2>1. Patch!Where(r) = "query" /\ Patch!Loc(g) = "query"
    BY <1>4 DEF ParameterReached, Patch!Bodies
  <2>2. Patch!Where(r) \in Patch!Seen(Patch!SimpleField(g))
    BY <2>1 DEF Patch!Seen, Patch!SimpleField
  <2>3. Patch!Holds(c, g.label, r)
    BY <1>1, <1>2, <1>4, <2>2, InHolds DEF IsReached
  <2>4. alts = Patch!OneCond(c)
    BY <2>1
  <2> HIDE DEF c, alts
  <2> QED BY <2>3, <2>4, OneMatches
<1>5. ASSUME FileReached("k8s", g, o, r) PROVE Matches(g, alts, r)
  <2>1. Patch!Loc(g) = "uri"
    BY <1>5 DEF FileReached
  <2>2. Patch!Token(g.label, r).text # "dots"
    <3>1. r.form \in Patch!Paths /\ r.form # "dots" /\ Patch!Reduced(g.label)
      BY <1>5 DEF FileReached, Patch!Paths, Patch!FileForms
    <3> QED BY <3>1, PathToken
  <2>3. Patch!Token(g.label, r) \in ts
    BY <1>2, <2>2 DEF Patch!WithoutSlash
  <2> HIDE DEF ts
  <2>4. kinds # {} /\ Matches(g, Patch!AnyOf(kinds), r)
    BY <1>2, <1>5, <2>3, PathMatches
  <2>5. alts = Patch!AnyOf(kinds)
    BY <2>1, <2>4
  <2> QED BY <2>4, <2>5
<1> HIDE DEF alts
<1> QED BY <1>3, <1>4, <1>5 DEF Answers, IsReached

-----------------------------------------------------------------------------
(* What one group contributes.                                             *)

IsSequence(s) == \E S : s \in Seq(S)

LEMMA Concat ==
  ASSUME NEW s, IsSequence(s), NEW t, IsSequence(t)
  PROVE  /\ IsSequence(s \o t)
         /\ Len(s) \in Nat /\ Len(t) \in Nat
         /\ DOMAIN s = 1 .. Len(s) /\ DOMAIN t = 1 .. Len(t)
         /\ DOMAIN (s \o t) = 1 .. Len(s \o t)
         /\ Len(s \o t) = Len(s) + Len(t)
         /\ \A i \in 1 .. Len(s) : (s \o t)[i] = s[i]
         /\ \A i \in 1 .. Len(s) + Len(t) : i > Len(s) => (s \o t)[i] = t[i - Len(s)]
<1>1. PICK S : s \in Seq(S)
  BY DEF IsSequence
<1>2. PICK T : t \in Seq(T)
  BY DEF IsSequence
<1>3. s \in Seq(S \cup T) /\ t \in Seq(S \cup T)
  <2>1. Len(s) \in Nat /\ s \in [1 .. Len(s) -> S] /\ Len(t) \in Nat /\ t \in [1 .. Len(t) -> T]
    BY <1>1, <1>2, LenProperties
  <2>2. s \in [1 .. Len(s) -> S \cup T] /\ t \in [1 .. Len(t) -> S \cup T]
    BY <2>1
  <2> QED BY <2>1, <2>2, SeqDef
<1>4. s \o t \in Seq(S \cup T)
  BY <1>3, ConcatProperties
<1>5. Len(s) \in Nat /\ Len(t) \in Nat /\ DOMAIN s = 1 .. Len(s) /\ DOMAIN t = 1 .. Len(t)
      /\ DOMAIN (s \o t) = 1 .. Len(s \o t)
  BY <1>3, <1>4, LenProperties
<1>6. /\ Len(s \o t) = Len(s) + Len(t)
      /\ \A i \in 1 .. Len(s) + Len(t) :
           (s \o t)[i] = IF i <= Len(s) THEN s[i] ELSE t[i - Len(s)]
  BY <1>3, ConcatProperties
<1>7. \A i \in 1 .. Len(s) : (s \o t)[i] = s[i]
  BY <1>5, <1>6
<1>8. \A i \in 1 .. Len(s) + Len(t) : i > Len(s) => (s \o t)[i] = t[i - Len(s)]
  BY <1>5, <1>6
<1> QED BY <1>4, <1>5, <1>6, <1>7, <1>8 DEF IsSequence

\* Sequences of at most two.
LEMMA Short ==
  ASSUME NEW P, NEW H
  PROVE  /\ <<P>> \o <<H>> = <<P, H>> /\ <<P>> \o << >> = <<P>>
         /\ << >> \o <<H>> = <<H>> /\ << >> \o << >> = << >>
         /\ {<<P>>, <<H>>, <<P, H>>, << >>} \subseteq Seq({P, H})
<1>1. <<P>> \in Seq({P, H})
  OBVIOUS
<1>2. <<H>> \in Seq({P, H})
  OBVIOUS
<1>3. <<P,H>> \in Seq({P, H})
  OBVIOUS
<1>4. <<>> \in Seq({P, H})
  BY EmptySeq
<1>5. <<P>> \o <<H>> = <<P, H>>
  <2> DEFINE u == <<P>> \o <<H>>
             w == <<P, H>>
  <2>1. /\ u \in Seq({P, H}) /\ Len(u) = Len(<<P>>) + Len(<<H>>)
        /\ \A i \in 1 .. Len(<<P>>) + Len(<<H>>) :
             u[i] = IF i <= Len(<<P>>) THEN <<P>>[i] ELSE <<H>>[i - Len(<<P>>)]
    BY <1>1, <1>2, ConcatProperties
  <2>2. Len(<<P>>) = 1 /\ Len(<<H>>) = 1 /\ <<P>>[1] = P /\ <<H>>[1] = H
    OBVIOUS
  <2>3. Len(u) = 2 /\ u[1] = P /\ u[2] = H
    <3> HIDE DEF u
    <3>1. Len(u) = 2
      BY <2>1, <2>2
    <3>2. u[1] = <<P>>[1]
      BY <2>1, <2>2
    <3>3. u[2] = <<H>>[1]
      BY <2>1, <2>2
    <3> QED BY <2>2, <3>1, <3>2, <3>3
  <2>4. Len(w) = 2 /\ w[1] = P /\ w[2] = H
    OBVIOUS
  <2>5. \A i \in 1 .. Len(u) : u[i] = w[i]
    <3> HIDE DEF u, w
    <3> QED BY <2>3, <2>4
  <2> HIDE DEF u, w
  <2>6. u = w
    BY <1>3, <2>1, <2>3, <2>4, <2>5, SeqEqual DEF w
  <2> QED BY <2>6 DEF u, w
<1>6. <<P>> \o << >> = <<P>>
  BY <1>1, ConcatEmptySeq
<1>7. << >> \o << H>> = <<H>>
  BY <1>2, ConcatEmptySeq
<1>8. << >> \o << >> = << >>
  BY <1>4, ConcatEmptySeq
<1> QED BY <1>1, <1>2, <1>3, <1>4, <1>5, <1>6, <1>7, <1>8

\* The strict rule comes first, if there is one, and then the heuristic one.
Strictly(v, o, alts) == o.tier # "heuristic" /\ (v \in Patch!RefuseEmpty => alts # {})

LEMMA EmitIs ==
  ASSUME NEW v, NEW g, NEW o, NEW alts, NEW scoped, NEW s, NEW h,
         NEW e, e = Patch!Emit(v, g, o, alts, scoped, s, h)
  PROVE  /\ IsSequence(e)
         /\ Strictly(v, o, alts) => Len(e) \in {1, 2} /\ e[1] =
              Patch!Patch(v, "strict", g, alts, scoped, s)
         /\ Strictly(v, o, alts) /\ Len(e) = 2 => e[2] =
              Patch!Patch(v, "heuristic", g, {}, scoped, h)
         /\ ~Strictly(v, o, alts) => Len(e) \in {0, 1}
         /\ ~Strictly(v, o, alts) /\ Len(e) = 1 => e[1] =
              Patch!Patch(v, "heuristic", g, {}, scoped, h)
<1> DEFINE P == Patch!Patch(v, "strict", g, alts, scoped, s)
           H == Patch!Patch(v, "heuristic", g, {}, scoped, h)
           a == IF Strictly(v, o, alts) THEN <<P>> ELSE << >>
           b == IF o.tier # "strict" THEN <<H>> ELSE << >>
<1>1. e = a \o b
  BY DEF Patch!Emit, Strictly
<1> HIDE DEF P, H
<1>3. a \o b \in Seq({P, H})
  BY Short
<1>4. CASE Strictly(v, o, alts)
  <2>1. CASE o.tier # "strict"
    <3>1. a = <<P>> /\ b = <<H>>
      BY <1>4, <2>1
    <3>2. a \o b = <<P, H>>
      BY <3>1, Short
    <3> QED BY <1>1, <1>3, <1>4, <3>2 DEF P, H, IsSequence
  <2>2. CASE ~(o.tier # "strict")
    <3>1. a = <<P>> /\ b = << >>
      BY <1>4, <2>2
    <3>2. a \o b = <<P>>
      BY <3>1, Short
    <3> QED BY <1>1, <1>3, <1>4, <3>2 DEF P, H, IsSequence
  <2> QED BY <2>1, <2>2
<1>5. CASE ~Strictly(v, o, alts)
  <2>1. CASE o.tier # "strict"
    <3>1. a = << >> /\ b = <<H>>
      BY <1>5, <2>1
    <3>2. a \o b = <<H>>
      BY <3>1, Short
    <3> QED BY <1>1, <1>3, <1>5, <3>2 DEF P, H, IsSequence
  <2>2. CASE ~(o.tier # "strict")
    <3>1. a = << >> /\ b = << >>
      BY <1>5, <2>2
    <3>2. a \o b = << >>
      BY <3>1
    <3> QED BY <1>1, <1>3, <1>5, <3>2 DEF P, H, IsSequence
  <2> QED BY <2>1, <2>2
<1> QED BY <1>4, <1>5

\* A strict rule that matches the request of r blocks it.
LEMMA AnswerBlocks ==
  ASSUME NEW e, NEW v, NEW g, NEW o, NEW r, Answers(e, v, g, o, r), o.tier # "heuristic"
  PROVE  1 \in 1 .. Len(e) /\ Patch!Blocks(e[1], r)
<1>1. PICK alts, scoped, s, h :
        /\ e = Patch!Emit(v, g, o, alts, scoped, s, h)
        /\ Matches(g, alts, r) /\ (scoped => Patch!Where(r) # "path")
  BY DEF Answers
<1>2. PICK alt \in alts : \A c \in alt : Patch!Holds(c, g.label, r)
  BY <1>1 DEF Matches
<1>3. Strictly(v, o, alts)
  BY <1>2 DEF Strictly
<1>4. Len(e) \in {1, 2} /\ e[1] = Patch!Patch(v, "strict", g, alts, scoped, s)
  BY <1>1, <1>3, EmitIs
<1>5. e[1].tier = "strict" /\ e[1].scoped = scoped /\ e[1].alts = alts /\ e[1].label = g.label
  BY <1>4 DEF Patch!Patch
<1> QED BY <1>1, <1>2, <1>4, <1>5 DEF Patch!Blocks

-----------------------------------------------------------------------------
(* The ids of one group's patches, and what its rules look for.            *)

UsedIds(p) == UNION {p[i].ids : i \in DOMAIN p}

\* Products that number their rules in tens, from where.
FirstOf == [v \in {"gcp", "azure"} |-> IF v = "gcp" THEN 1000 ELSE 100]

\* s and h are the ids of the strict and of the heuristic patch of group k, after
\* the patches done.
Numbering(v, o, alts, done, k, s, h) ==
  /\ v = "aws" => s = {10 + 2 * (k - 1)} /\ h = {10 + 2 * (k - 1) + 1}
  /\ v = "modsecurity" =>
       \E first, size \in Int :
         /\ first = 1000000 + Cardinality(UsedIds(done)) /\ size >= 0
         /\ ~Strictly(v, o, alts) => size = 0
         /\ s = first .. first + size - 1 /\ h = {first + size}
  /\ v \in {"gcp", "azure"} =>
       LET next == FirstOf[v] + 10 * Len(done) IN
       IF Strictly(v, o, alts) THEN s = {next} /\ h = {next + 10} ELSE h = {next}
  /\ v \notin {"aws", "modsecurity", "gcp", "azure"} => s = {} /\ h = {}

\* Nothing that is looked for is the empty text.
NoBlankIn(ts) == \A t \in ts : t.text # ""

\* Every alternative has a condition, and each looks for something.
Solid(alts) ==
  \A alt \in alts : alt # {} /\ \A c \in alt : c.tokens # {} /\ NoBlankIn(c.tokens)

IsPatches(e, v, g, o, done, k) ==
  \E alts, scoped, s, h :
    /\ e = Patch!Emit(v, g, o, alts, scoped, s, h)
    /\ Numbering(v, o, alts, done, k, s, h)
    /\ v \in Patch!RefuseEmpty => Solid(alts)

LEMMA NoBlank ==
  ASSUME NEW g
  PROVE  NoBlankIn(Patch!NonEmpty(g))
BY DEF Patch!NonEmpty, NoBlankIn

LEMMA AwsIs ==
  ASSUME NEW g, NEW o, NEW done, NEW k
  PROVE  IsPatches(Patch!Aws(g, o, done, k), "aws", g, o, done, k)
<1> DEFINE alts == IF Patch!NonEmpty(g) = {} THEN {}
                   ELSE Patch!OneCond(Patch!Cond(Patch!AwsField(g), "in", Patch!NonEmpty(g),
                                                  Patch!AwsFold, {"percent"}))
           s == {10 + 2 * (k - 1)}
           h == {10 + 2 * (k - 1) + 1}
<1>1. Patch!Aws(g, o, done, k) = Patch!Emit("aws", g, o, alts, o.scoped, s, h)
  BY DEF Patch!Aws
<1>2. Solid(alts)
  <2>1. CASE Patch!NonEmpty(g) = {}
    BY <2>1 DEF Solid
  <2>2. CASE Patch!NonEmpty(g) # {}
    <3> DEFINE c == Patch!Cond(Patch!AwsField(g), "in", Patch!NonEmpty(g), Patch!AwsFold, {"percent"})
    <3>1. c.tokens # {} /\ NoBlankIn(c.tokens)
      BY <2>2, NoBlank DEF Patch!Cond
    <3>2. alts = {{c}}
      BY <2>2 DEF Patch!OneCond
    <3> HIDE DEF c, alts
    <3> QED BY <3>1, <3>2 DEF Solid
  <2> QED BY <2>1, <2>2
<1>3. Numbering("aws", o, alts, done, k, s, h)
  BY DEF Numbering
<1> HIDE DEF alts, s, h
<1> QED BY <1>1, <1>2, <1>3 DEF IsPatches

\* The tokens of a group are finitely many.
LEMMA TokensFinite ==
  ASSUME NEW g, IsGroup(g)
  PROVE  Cardinality(Patch!Tokens(g)) \in Nat
<1> DEFINE f == [r \in g.items |-> Patch!Token(g.label, r)]
<1>1. f \in Surjection(g.items, Patch!Tokens(g))
  <2>1. f \in [g.items -> Patch!Tokens(g)]
    BY DEF Patch!Tokens
  <2>2. \A t \in Patch!Tokens(g) : \E r \in g.items : f[r] = t
    BY DEF Patch!Tokens
  <2> HIDE DEF f
  <2> QED BY <2>1, <2>2 DEF Surjection
<1>2. IsFiniteSet(Patch!Tokens(g))
  BY <1>1, FS_Surjection DEF IsGroup
<1> QED BY <1>2, FS_CardinalityType

LEMMA ModSecurityIs ==
  ASSUME NEW g, IsGroup(g), NEW o, NEW done, IsFiniteSet(UsedIds(done)), NEW k
  PROVE  IsPatches(Patch!ModSecurity(g, o, done), "modsecurity", g, o, done, k)
<1> DEFINE reads == CASE Patch!Loc(g) = "header" -> Patch!HeaderOf(g, "x-forwarded-for")
                      [] Patch!Loc(g) = "uri" -> "uri" [] Patch!Loc(g) = "body" -> "body"
                          [] OTHER -> "args"
           words == Cardinality(Patch!Tokens(g)) > 1
                    /\ \A x \in Patch!Tokens(g) : x.text \notin {"phrase", "oddphrase"}
           first == 1000000 + Cardinality(UsedIds(done))
           size  == IF o.tier = "heuristic" THEN 0 ELSE IF words THEN 1
               ELSE Cardinality(Patch!Tokens(g))
           alts  == IF words THEN Patch!OneCond(Patch!Cond(reads, "in", Patch!Tokens(g), "both",
                                                          {"percent", "plus"}))
                    ELSE Patch!AnyOf({Patch!Cond(reads, "in", {t}, "field", {"percent", "plus"}) :
                                        t \in Patch!Tokens(g)})
           s == first .. first + size - 1
           h == {first + size}
<1>1. Patch!ModSecurity(g, o, done) = Patch!Emit("modsecurity", g, o, alts, o.scoped, s, h)
  BY DEF Patch!ModSecurity, UsedIds, Cardinality, Patch!Cardinality
<1>2. first \in Int /\ size \in Int /\ size >= 0
  <2>1. Cardinality(UsedIds(done)) \in Nat
    BY FS_CardinalityType
  <2> QED BY <2>1, TokensFinite
<1>3. ~Strictly("modsecurity", o, alts) => size = 0
  <2> HIDE DEF alts
  <2> QED BY DEF Strictly, Patch!RefuseEmpty
<1>4. Numbering("modsecurity", o, alts, done, k, s, h)
  <2> HIDE DEF alts, size
  <2>1. \E n, m \in Int :
          /\ n = 1000000 + Cardinality(UsedIds(done)) /\ m >= 0
          /\ ~Strictly("modsecurity", o, alts) => m = 0
          /\ s = n .. n + m - 1 /\ h = {n + m}
    <3>1. /\ first = 1000000 + Cardinality(UsedIds(done)) /\ size >= 0
          /\ ~Strictly("modsecurity", o, alts) => size = 0
          /\ s = first .. first + size - 1 /\ h = {first + size}
      BY <1>2, <1>3
    <3> HIDE DEF first, s, h
    <3> QED BY <1>2, <3>1
  <2> HIDE DEF s, h
  <2> QED BY <2>1 DEF Numbering
<1>5. "modsecurity" \notin Patch!RefuseEmpty
  BY DEF Patch!RefuseEmpty
<1> HIDE DEF alts, s, h
<1> QED BY <1>1, <1>4, <1>5 DEF IsPatches

LEMMA GcpIs ==
  ASSUME NEW g, NEW o, NEW done, Len(done) \in Nat, NEW k
  PROVE  IsPatches(Patch!Gcp(g, o, done), "gcp", g, o, done, k)
<1> DEFINE reads == CASE Patch!Loc(g) = "header" -> Patch!HeaderOf(g, "x-forwarded-for")
                      [] Patch!Loc(g) = "uri" -> "path" [] OTHER -> "query"
           alts == IF Patch!Loc(g) = "uri" THEN Patch!AnyOf(Patch!ByKind(Patch!Split(Patch!NonEmpty(g)), "below", "ends",
                                              Patch!CaseForVcs))
                   ELSE Patch!OneCond(Patch!Cond(reads, "in", Patch!NonEmpty(g), "both", {}))
           next == 1000 + 10 * Len(done)
           s    == IF o.tier = "heuristic" THEN {} ELSE {next}
           h    == {next + 10 * Cardinality(s)}
<1>1. Patch!Gcp(g, o, done) = Patch!Emit("gcp", g, o, alts, o.scoped, s, h)
  BY DEF Patch!Gcp, Cardinality, Patch!Cardinality
<1>2. Strictly("gcp", o, alts) <=> o.tier # "heuristic"
  BY DEF Strictly, Patch!RefuseEmpty
<1> HIDE DEF alts
<1>3. IF Strictly("gcp", o, alts) THEN s = {next} /\ h = {next + 10} ELSE h = {next}
  <2>1. Cardinality({next}) = 1 /\ Cardinality({}) = 0 /\ next \in Int
    <3>1. next \in Int
      OBVIOUS
    <3> HIDE DEF next
    <3> QED BY <3>1, FS_Singleton, FS_EmptySet
  <2>2. CASE o.tier = "heuristic"
    <3>1. s = {}
      BY <2>2
    <3>2. h = {next}
      <4> HIDE DEF next, s
      <4>1. next + 10 * Cardinality(s) = next
        BY <2>1, <3>1, SMTT(30)
      <4> QED BY <4>1
    <3> QED BY <1>2, <2>2, <3>1, <3>2
  <2>3. CASE o.tier # "heuristic"
    <3>1. s = {next}
      BY <2>3
    <3>2. h = {next + 10}
      <4> HIDE DEF next, s
      <4>1. next + 10 * Cardinality(s) = next + 10
        BY <2>1, <3>1, SMTT(30)
      <4> QED BY <4>1
    <3> QED BY <1>2, <2>3, <3>1, <3>2
  <2> QED BY <2>2, <2>3
<1>4. Numbering("gcp", o, alts, done, k, s, h)
  <2>1. next = FirstOf["gcp"] + 10 * Len(done)
    BY DEF FirstOf
  <2> HIDE DEF next, s, h
  <2> QED BY <1>3, <2>1 DEF Numbering
<1>5. "gcp" \notin Patch!RefuseEmpty
  BY DEF Patch!RefuseEmpty
<1> HIDE DEF s, h
<1> QED BY <1>1, <1>4, <1>5 DEF IsPatches

LEMMA AzureIs ==
  ASSUME NEW g, NEW o, NEW done, Len(done) \in Nat, NEW k
  PROVE  IsPatches(Patch!Azure(g, o, done), "azure", g, o, done, k)
<1> DEFINE reads == CASE Patch!Loc(g) = "header" ->
                           IF Patch!Is(g.label, "User-Agent") THEN "user-agent" ELSE "authorization"
                      [] Patch!Loc(g) = "body" -> "body" [] OTHER -> "query"
           conds == IF Patch!Loc(g) = "uri" THEN Patch!ByKind(Patch!Split(Patch!NonEmpty(g)),
                                                               "below", "ends", Patch!Case)
                    ELSE IF Patch!NonEmpty(g) = {} THEN {}
                    ELSE {Patch!Cond(reads, "in", Patch!NonEmpty(g), "none", {})}
           alts  == IF conds = {} THEN {} ELSE {conds}
           next  == 100 + 10 * Len(done)
           s     == IF o.tier # "heuristic" /\ alts # {} THEN {next} ELSE {}
           h     == {next + 10 * Cardinality(s)}
<1>1. Patch!Azure(g, o, done) = Patch!Emit("azure", g, o, alts, FALSE, s, h)
  BY DEF Patch!Azure, Cardinality, Patch!Cardinality
<1>2. Solid(alts)
  <2>1. \A c \in Patch!ByKind(Patch!Split(Patch!NonEmpty(g)), "below", "ends", Patch!Case) :
          c.tokens # {} /\ NoBlankIn(c.tokens)
    <3> DEFINE p == Patch!Split(Patch!NonEmpty(g))
    <3>1. NoBlankIn(p.ext) /\ NoBlankIn(p.vcs) /\ NoBlankIn(p.name)
      BY NoBlank DEF Patch!Split, NoBlankIn
    <3> HIDE DEF p
    <3>2. ASSUME NEW c \in Patch!ByKind(p, "below", "ends", Patch!Case)
          PROVE  c.tokens \in {p.ext, p.vcs, p.name} \ {{}}
      BY DEF Patch!ByKind, Patch!Cond
    <3>3. \A c \in Patch!ByKind(p, "below", "ends", Patch!Case) : c.tokens # {} /\ NoBlankIn(c.tokens)
      BY <3>1, <3>2
    <3> QED BY <3>3 DEF p
  <2>2. \A c \in conds : c.tokens # {} /\ NoBlankIn(c.tokens)
    <3>1. CASE Patch!Loc(g) = "uri"
      BY <2>1, <3>1
    <3>2. CASE Patch!Loc(g) # "uri"
      <4> DEFINE c == Patch!Cond(reads, "in", Patch!NonEmpty(g), "none", {})
      <4>1. c.tokens = Patch!NonEmpty(g) /\ NoBlankIn(c.tokens)
        BY NoBlank DEF Patch!Cond
      <4>2. conds \subseteq IF Patch!NonEmpty(g) = {} THEN {} ELSE {c}
        BY <3>2
      <4> HIDE DEF c, conds
      <4> QED BY <4>1, <4>2
    <3> QED BY <3>1, <3>2
  <2> HIDE DEF conds
  <2> QED BY <2>2 DEF Solid
<1>3. Strictly("azure", o, alts) <=> o.tier # "heuristic" /\ alts # {}
  BY DEF Strictly, Patch!RefuseEmpty
<1> HIDE DEF alts
<1>4. IF Strictly("azure", o, alts) THEN s = {next} /\ h = {next + 10} ELSE h = {next}
  <2>1. Cardinality({next}) = 1 /\ Cardinality({}) = 0 /\ next \in Int
    <3>1. next \in Int
      OBVIOUS
    <3> HIDE DEF next
    <3> QED BY <3>1, FS_Singleton, FS_EmptySet
  <2>2. CASE ~(o.tier # "heuristic" /\ alts # {})
    <3>1. s = {}
      BY <2>2
    <3>2. h = {next}
      <4> HIDE DEF next, s
      <4>1. next + 10 * Cardinality(s) = next
        BY <2>1, <3>1, SMTT(30)
      <4> QED BY <4>1
    <3> QED BY <1>3, <2>2, <3>1, <3>2
  <2>3. CASE o.tier # "heuristic" /\ alts # {}
    <3>1. s = {next}
      BY <2>3
    <3>2. h = {next + 10}
      <4> HIDE DEF next, s
      <4>1. next + 10 * Cardinality(s) = next + 10
        BY <2>1, <3>1, SMTT(30)
      <4> QED BY <4>1
    <3> QED BY <1>3, <2>3, <3>1, <3>2
  <2> QED BY <2>2, <2>3
<1>5. Numbering("azure", o, alts, done, k, s, h)
  <2>1. next = FirstOf["azure"] + 10 * Len(done)
    BY DEF FirstOf
  <2> HIDE DEF next, s, h
  <2> QED BY <1>4, <2>1 DEF Numbering
<1> HIDE DEF s, h
<1> QED BY <1>1, <1>2, <1>5 DEF IsPatches

\* The other seven have no ids.
LEMMA PlainIs ==
  ASSUME NEW v \in Patch!PatchVendors \ {"aws", "modsecurity", "gcp", "azure"}, NEW g, NEW o,
         NEW done, NEW k
  PROVE  IsPatches(Patch!Generate(v, g, o, done, k), v, g, o, done, k)
<1>1. \E alts, scoped : Patch!Generate(v, g, o, done, k) = Patch!Emit(v, g, o, alts, scoped, {}, {})
  <2>1. CASE v = "cloudflare"
    BY <2>1 DEF Patch!Generate, Patch!Cloudflare
  <2>2. CASE v = "nginx"
    BY <2>2 DEF Patch!Generate, Patch!Nginx
  <2>3. CASE v = "haproxy"
    BY <2>3 DEF Patch!Generate, Patch!HAProxy
  <2>4. CASE v = "caddy"
    BY <2>4 DEF Patch!Generate, Patch!Caddy
  <2>5. CASE v = "apache"
    BY <2>5 DEF Patch!Generate, Patch!Apache
  <2>6. CASE v = "envoy"
    BY <2>6 DEF Patch!Generate, Patch!Envoy
  <2>7. CASE v = "k8s"
    BY <2>7 DEF Patch!Generate, Patch!K8s
  <2> QED BY <2>1, <2>2, <2>3, <2>4, <2>5, <2>6, <2>7 DEF Patch!PatchVendors
<1>2. PICK alts, scoped : Patch!Generate(v, g, o, done, k) =
        Patch!Emit(v, g, o, alts, scoped, {}, {})
  BY <1>1
<1>3. Numbering(v, o, alts, done, k, {}, {})
  BY DEF Numbering
<1>4. v \notin Patch!RefuseEmpty
  BY DEF Patch!RefuseEmpty
<1> QED BY <1>2, <1>3, <1>4 DEF IsPatches

LEMMA GenerateIs ==
  ASSUME NEW v \in Patch!PatchVendors, NEW g, IsGroup(g), NEW o, NEW done, Len(done) \in Nat,
         v = "modsecurity" => IsFiniteSet(UsedIds(done)), NEW k
  PROVE  IsPatches(Patch!Generate(v, g, o, done, k), v, g, o, done, k)
<1>1. CASE v = "aws"
  BY <1>1, AwsIs DEF Patch!Generate
<1>2. CASE v = "modsecurity"
  BY <1>2, ModSecurityIs DEF Patch!Generate
<1>3. CASE v = "gcp"
  BY <1>3, GcpIs DEF Patch!Generate
<1>4. CASE v = "azure"
  BY <1>4, AzureIs DEF Patch!Generate
<1>5. CASE v \notin {"aws", "modsecurity", "gcp", "azure"}
  BY <1>5, PlainIs
<1> QED BY <1>1, <1>2, <1>3, <1>4, <1>5

\* What a group's items are reached by is what its strict rule answers.
LEMMA GenerateAnswers ==
  ASSUME NEW v \in Patch!PatchVendors, NEW g, IsGroup(g), NEW o, NEW done, NEW k, NEW r \in g.items,
         IsReached(v, g, o, r)
  PROVE  Answers(Patch!Generate(v, g, o, done, k), v, g, o, r)
<1>1. CASE v = "cloudflare"
  BY <1>1, CloudflareAnswers DEF Patch!Generate
<1>2. CASE v = "aws"
  BY <1>2, AwsAnswers DEF Patch!Generate
<1>3. CASE v = "modsecurity"
  BY <1>3, ModSecurityAnswers DEF Patch!Generate
<1>4. CASE v = "nginx"
  BY <1>4, NginxAnswers DEF Patch!Generate
<1>5. CASE v = "gcp"
  BY <1>5, GcpAnswers DEF Patch!Generate
<1>6. CASE v = "azure"
  BY <1>6, AzureAnswers DEF Patch!Generate
<1>7. CASE v = "haproxy"
  BY <1>7, HAProxyAnswers DEF Patch!Generate
<1>8. CASE v = "caddy"
  BY <1>8, CaddyAnswers DEF Patch!Generate
<1>9. CASE v = "apache"
  BY <1>9, ApacheAnswers DEF Patch!Generate
<1>10. CASE v = "envoy"
  BY <1>10, EnvoyAnswers DEF Patch!Generate
<1>11. CASE v = "k8s"
  BY <1>11, K8sAnswers DEF Patch!Generate
<1> QED BY <1>1, <1>2, <1>3, <1>4, <1>5, <1>6, <1>7, <1>8, <1>9, <1>10, <1>11 DEF Patch!PatchVendors

-----------------------------------------------------------------------------
(* Ids stay apart, group by group.                                         *)

Apart(p) == \A i, j \in DOMAIN p : i # j => p[i].ids \cap p[j].ids = {}

\* What the first k groups have used.
Numbered(v, p, k) ==
  /\ v = "aws" => UsedIds(p) \subseteq 10 .. 10 + 2 * k - 1
  /\ v = "modsecurity" => \E c \in Nat : UsedIds(p) = 1000000 .. 1000000 + c - 1
  /\ v \in {"gcp", "azure"} => \A i \in DOMAIN p : p[i].ids = {FirstOf[v] + 10 * (i - 1)}
  /\ v \notin {"aws", "modsecurity", "gcp", "azure"} => UsedIds(p) = {}

LEMMA ApartJoined ==
  ASSUME NEW p, IsSequence(p), Apart(p), NEW e, IsSequence(e), Apart(e),
           UsedIds(p) \cap UsedIds(e) = {}
  PROVE  Apart(p \o e) /\ UsedIds(p \o e) = UsedIds(p) \cup UsedIds(e)
<1> DEFINE m == Len(p)
           n == Len(e)
           q == p \o e
<1>1. /\ m \in Nat /\ n \in Nat /\ DOMAIN p = 1 .. m /\ DOMAIN e = 1 .. n
      /\ DOMAIN q = 1 .. m + n
      /\ \A i \in 1 .. m : q[i] = p[i]
      /\ \A i \in 1 .. m + n : i > m => q[i] = e[i - m]
  BY Concat
<1> HIDE DEF m, n, q
<1>2. \A i \in 1 .. m + n : IF i <= m THEN i \in DOMAIN p /\ q[i] = p[i]
                            ELSE i - m \in DOMAIN e /\ q[i] = e[i - m]
  BY <1>1
<1>3. \A i \in DOMAIN p : p[i].ids \subseteq UsedIds(p)
  BY DEF UsedIds
<1>4. \A i \in DOMAIN e : e[i].ids \subseteq UsedIds(e)
  BY DEF UsedIds
<1>5. ASSUME NEW i \in 1 .. m + n, NEW j \in 1 .. m + n, i # j
      PROVE  q[i].ids \cap q[j].ids = {}
  <2>1. CASE i <= m /\ j <= m
    BY <1>2, <1>5, <2>1 DEF Apart
  <2>2. CASE i <= m /\ ~(j <= m)
    BY <1>2, <1>3, <1>4, <2>2
  <2>3. CASE ~(i <= m) /\ j <= m
    BY <1>2, <1>3, <1>4, <2>3
  <2>4. CASE ~(i <= m) /\ ~(j <= m)
    <3>1. i - m # j - m
      BY <1>1, <1>5
    <3> QED BY <1>2, <2>4, <3>1 DEF Apart
  <2> QED BY <2>1, <2>2, <2>3, <2>4
<1>6. UsedIds(q) \subseteq UsedIds(p) \cup UsedIds(e)
  <2>1. \A i \in DOMAIN q : q[i].ids \subseteq UsedIds(p) \cup UsedIds(e)
    BY <1>1, <1>2, <1>3, <1>4
  <2> QED BY <2>1 DEF UsedIds
<1>7. UsedIds(p) \subseteq UsedIds(q)
  <2>1. \A i \in DOMAIN p : i \in DOMAIN q /\ p[i] = q[i]
    BY <1>1
  <2> QED BY <2>1 DEF UsedIds
<1>8. UsedIds(e) \subseteq UsedIds(q)
  <2>1. ASSUME NEW i \in DOMAIN e PROVE i + m \in DOMAIN q /\ e[i] = q[i + m]
    <3>1. i + m \in 1 .. m + n /\ i + m > m /\ i + m - m = i
      BY <1>1
    <3> QED BY <1>1, <3>1
  <2> QED BY <2>1 DEF UsedIds
<1> QED BY <1>1, <1>5, <1>6, <1>7, <1>8 DEF Apart, q

\* The ids of one group's patches.
LEMMA EmitIds ==
  ASSUME NEW v, NEW g, NEW o, NEW alts, NEW scoped, NEW s, NEW h,
         NEW e, e = Patch!Emit(v, g, o, alts, scoped, s, h)
  PROVE  /\ IsSequence(e) /\ DOMAIN e = 1 .. Len(e)
         /\ Strictly(v, o, alts) => \/ Len(e) = 1 /\ e[1].ids = s /\ UsedIds(e) = s
                                    \/ Len(e) = 2 /\ e[1].ids = s /\ e[2].ids = h /\ UsedIds(e) =
                                        s \cup h
         /\ ~Strictly(v, o, alts) => \/ Len(e) = 0 /\ UsedIds(e) = {}
                                     \/ Len(e) = 1 /\ e[1].ids = h /\ UsedIds(e) = h
         /\ s \cap h = {} => Apart(e)
<1>1. IsSequence(e)
  BY EmitIs
<1>2. DOMAIN e = 1 .. Len(e)
  <2>1. PICK S : e \in Seq(S)
    BY <1>1 DEF IsSequence
  <2> QED BY <2>1, LenProperties
<1>3. Patch!Patch(v, "strict", g, alts, scoped, s).ids = s /\
        Patch!Patch(v, "heuristic", g, {}, scoped, h).ids = h
  BY DEF Patch!Patch
<1>4. CASE Strictly(v, o, alts)
  <2>1. Len(e) \in {1, 2} /\ e[1].ids = s /\ (Len(e) = 2 => e[2].ids = h)
    BY <1>3, <1>4, EmitIs
  <2>2. CASE Len(e) = 1
    <3>1. DOMAIN e = {1}
      BY <1>2, <2>2
    <3> QED BY <1>1, <1>2, <1>4, <2>1, <2>2, <3>1 DEF UsedIds, Apart
  <2>3. CASE Len(e) = 2
    <3>1. DOMAIN e = {1, 2}
      BY <1>2, <2>3
    <3>2. UsedIds(e) = s \cup h
      BY <2>1, <2>3, <3>1 DEF UsedIds
    <3>3. s \cap h = {} => Apart(e)
      BY <2>1, <2>3, <3>1 DEF Apart
    <3> QED BY <1>1, <1>2, <1>4, <2>1, <2>3, <3>2, <3>3
  <2> QED BY <2>1, <2>2, <2>3
<1>5. CASE ~Strictly(v, o, alts)
  <2>1. Len(e) \in {0, 1} /\ (Len(e) = 1 => e[1].ids = h)
    BY <1>3, <1>5, EmitIs
  <2>2. CASE Len(e) = 0
    <3>1. DOMAIN e = {}
      BY <1>2, <2>2
    <3> QED BY <1>1, <1>2, <1>5, <2>2, <3>1 DEF UsedIds, Apart
  <2>3. CASE Len(e) = 1
    <3>1. DOMAIN e = {1}
      BY <1>2, <2>3
    <3> QED BY <1>1, <1>2, <1>5, <2>1, <2>3, <3>1 DEF UsedIds, Apart
  <2> QED BY <2>1, <2>2, <2>3
<1> QED BY <1>4, <1>5

LEMMA AwsNumbers ==
  ASSUME NEW p, IsSequence(p), Apart(p), NEW k \in Nat \ {0}, Numbered("aws", p, k - 1),
         NEW g, NEW o, NEW e, IsPatches(e, "aws", g, o, p, k)
  PROVE  Apart(p \o e) /\ Numbered("aws", p \o e, k)
<1>1. PICK alts, scoped, s, h :
        e = Patch!Emit("aws", g, o, alts, scoped, s, h) /\ Numbering("aws", o, alts, p, k, s, h)
  BY DEF IsPatches
<1> DEFINE a == 10 + 2 * (k - 1)
<1>2. s = {a} /\ h = {a + 1} /\ a \in Int /\ a = 10 + 2 * k - 2
  BY <1>1 DEF Numbering
<1>3. UsedIds(p) \subseteq 10 .. a - 1 /\ 10 <= a
  BY DEF Numbered
<1> HIDE DEF a
<1>4. s \cap h = {}
  BY <1>2
<1>5. IsSequence(e) /\ Apart(e) /\ UsedIds(e) \subseteq s \cup h
  BY <1>1, <1>4, EmitIds
<1>6. UsedIds(p) \cap UsedIds(e) = {}
  BY <1>2, <1>3, <1>5
<1>7. Apart(p \o e) /\ UsedIds(p \o e) = UsedIds(p) \cup UsedIds(e)
  BY <1>5, <1>6, ApartJoined
<1>8. UsedIds(p \o e) \subseteq 10 .. 10 + 2 * k - 1
  BY <1>2, <1>3, <1>5, <1>7
<1> QED BY <1>7, <1>8 DEF Numbered

LEMMA ModSecurityNumbers ==
  ASSUME NEW p, IsSequence(p), Apart(p), NEW k \in Nat \ {0}, Numbered("modsecurity", p, k - 1),
         NEW g, NEW o, NEW e, IsPatches(e, "modsecurity", g, o, p, k)
  PROVE  Apart(p \o e) /\ Numbered("modsecurity", p \o e, k)
<1>1. PICK alts, scoped, s, h :
        /\ e = Patch!Emit("modsecurity", g, o, alts, scoped, s, h)
        /\ Numbering("modsecurity", o, alts, p, k, s, h)
  BY DEF IsPatches
<1>2. PICK c \in Nat : UsedIds(p) = 1000000 .. 1000000 + c - 1
  BY DEF Numbered
<1>3. Cardinality(UsedIds(p)) = c
  <2>1. Cardinality(1000000 .. 1000000 + c - 1)
          = IF 1000000 > 1000000 + c - 1 THEN 0 ELSE 1000000 + c - 1 - 1000000 + 1
    BY FS_Interval
  <2> QED BY <1>2, <2>1
<1>4. PICK first, size \in Int :
        /\ first = 1000000 + c /\ size >= 0
        /\ ~Strictly("modsecurity", o, alts) => size = 0
        /\ s = first .. first + size - 1 /\ h = {first + size}
  BY <1>1, <1>3 DEF Numbering
<1>5. s \cap h = {}
  BY <1>4
<1>6. IsSequence(e) /\ Apart(e) /\ UsedIds(e) \in {s, s \cup h, {}, h}
  BY <1>1, <1>5, EmitIds
<1>7. \/ UsedIds(e) = {} \/ UsedIds(e) = s \/ UsedIds(e) = s \cup h
  <2>1. ~Strictly("modsecurity", o, alts) => s = {}
    BY <1>4
  <2>2. \/ Strictly("modsecurity", o, alts) /\ UsedIds(e) \in {s, s \cup h}
        \/ ~Strictly("modsecurity", o, alts) /\ UsedIds(e) \in {{}, h}
    BY <1>1, EmitIds
  <2> QED BY <2>1, <2>2
<1>8. PICK n \in Nat : UsedIds(e) = first .. first + n - 1
  <2>1. {} = first .. first + 0 - 1
    BY <1>4
  <2>2. s \cup h = first .. first + (size + 1) - 1
    BY <1>4
  <2>3. 0 \in Nat /\ size \in Nat /\ size + 1 \in Nat
    BY <1>4
  <2>4. s = first .. first + size - 1
    BY <1>4
  <2>5. CASE UsedIds(e) = {}
    BY <2>1, <2>3, <2>5
  <2>6. CASE UsedIds(e) = s
    BY <2>3, <2>4, <2>6
  <2>7. CASE UsedIds(e) = s \cup h
    BY <2>2, <2>3, <2>7
  <2> QED BY <1>7, <2>5, <2>6, <2>7
<1>9. UsedIds(p) \cap UsedIds(e) = {}
  BY <1>2, <1>4, <1>8
<1>10. Apart(p \o e) /\ UsedIds(p \o e) = UsedIds(p) \cup UsedIds(e)
  BY <1>6, <1>9, ApartJoined
<1>11. UsedIds(p) \cup UsedIds(e) = 1000000 .. 1000000 + (c + n) - 1
  BY <1>2, <1>4, <1>8
<1>12. \E d \in Nat : UsedIds(p \o e) = 1000000 .. 1000000 + d - 1
  <2>1. c + n \in Nat
    OBVIOUS
  <2> QED BY <1>10, <1>11, <2>1
<1> QED BY <1>10, <1>12 DEF Numbered

LEMMA TensNumbers ==
  ASSUME NEW v \in {"gcp", "azure"}, NEW p, IsSequence(p), NEW k, Numbered(v, p, k - 1),
         NEW g, NEW o, NEW e, IsPatches(e, v, g, o, p, k)
  PROVE  Apart(p \o e) /\ Numbered(v, p \o e, k)
<1>1. PICK alts, scoped, s, h :
        e = Patch!Emit(v, g, o, alts, scoped, s, h) /\ Numbering(v, o, alts, p, k, s, h)
  BY DEF IsPatches
<1> DEFINE m == Len(p)
           n == Len(e)
           b == FirstOf[v]
           q == p \o e
<1>2. b \in Int
  BY DEF FirstOf
<1>3. IsSequence(e)
  BY <1>1, EmitIds
<1>4. /\ m \in Nat /\ n \in Nat /\ DOMAIN p = 1 .. m /\ DOMAIN q = 1 .. m + n
      /\ \A i \in 1 .. m : q[i] = p[i]
      /\ \A i \in 1 .. m + n : i > m => q[i] = e[i - m]
  BY <1>3, Concat
<1>5. IF Strictly(v, o, alts) THEN s = {b + 10 * m} /\ h = {b + 10 * m + 10} ELSE h = {b + 10 * m}
  BY <1>1 DEF Numbering
<1>6. \A i \in DOMAIN p : p[i].ids = {b + 10 * (i - 1)}
  BY DEF Numbered
<1>7. n \in {0, 1, 2} /\ (n >= 1 => e[1].ids = {b + 10 * m}) /\
        (n = 2 => e[2].ids = {b + 10 * m + 10})
  BY <1>1, <1>5, EmitIds
<1> HIDE DEF m, n, b, q
<1>8. ASSUME NEW i \in 1 .. m + n PROVE q[i].ids = {b + 10 * (i - 1)}
  <2>1. CASE i <= m
    BY <1>4, <1>6, <2>1
  <2>2. CASE i = m + 1
    <3>1. q[i] = e[1] /\ n >= 1 /\ i - 1 = m
      BY <1>4, <2>2
    <3> QED BY <1>7, <3>1
  <2>3. CASE i = m + 2
    <3>1. q[i] = e[2] /\ n = 2
      BY <1>4, <1>7, <2>3
    <3>2. b + 10 * (i - 1) = b + 10 * m + 10
      BY <1>2, <1>4, <2>3
    <3> QED BY <1>7, <3>1, <3>2
  <2> QED BY <1>4, <1>7, <2>1, <2>2, <2>3
<1>9. ASSUME NEW i \in 1 .. m + n, NEW j \in 1 .. m + n, i # j PROVE q[i].ids \cap q[j].ids = {}
  <2>1. b + 10 * (i - 1) # b + 10 * (j - 1)
    BY <1>2, <1>4, <1>9
  <2> QED BY <1>8, <2>1
<1>10. Apart(q) /\ \A i \in DOMAIN q : q[i].ids = {b + 10 * (i - 1)}
  BY <1>4, <1>8, <1>9 DEF Apart
<1> QED BY <1>10 DEF Numbered, q, b

LEMMA PlainNumbers ==
  ASSUME NEW v, v \notin {"aws", "modsecurity", "gcp", "azure"},
         NEW p, IsSequence(p), Apart(p), NEW k, Numbered(v, p, k - 1),
         NEW g, NEW o, NEW e, IsPatches(e, v, g, o, p, k)
  PROVE  Apart(p \o e) /\ Numbered(v, p \o e, k)
<1>1. PICK alts, scoped, s, h :
        e = Patch!Emit(v, g, o, alts, scoped, s, h) /\ Numbering(v, o, alts, p, k, s, h)
  BY DEF IsPatches
<1>2. s = {} /\ h = {}
  BY <1>1 DEF Numbering
<1>3. IsSequence(e) /\ Apart(e) /\ UsedIds(e) = {}
  BY <1>1, <1>2, EmitIds
<1>4. Apart(p \o e) /\ UsedIds(p \o e) = UsedIds(p) \cup UsedIds(e)
  BY <1>3, ApartJoined
<1> QED BY <1>3, <1>4 DEF Numbered

-----------------------------------------------------------------------------
(* All groups of one product.                                              *)

\* The patches p of the first k groups gs.
Written(v, gs, o, p, k) ==
  /\ IsSequence(p) /\ Apart(p) /\ Numbered(v, p, k)
  /\ v \in Patch!RefuseEmpty => \A i \in DOMAIN p : Solid(p[i].alts)
  /\ o.tier # "heuristic" =>
       \A j \in 1 .. k : \A r \in gs[j].items :
         IsReached(v, gs[j], o, r) => \E i \in DOMAIN p : Patch!Blocks(p[i], r)

LEMMA NoneWritten ==
  ASSUME NEW v, NEW gs, NEW o
  PROVE  Written(v, gs, o, << >>, 0)
<1>1. << >> \in Seq({}) /\ DOMAIN << >> = {}
  OBVIOUS
<1>2. IsSequence(<< >>)
  BY <1>1 DEF IsSequence
<1>3. UsedIds(<< >>) = {}
  BY <1>1 DEF UsedIds
<1>4. \E c \in Nat : {} = 1000000 .. 1000000 + c - 1
  <2>1. {} = 1000000 .. 1000000 + 0 - 1
    OBVIOUS
  <2> QED BY <2>1
<1>5. Numbered(v, << >>, 0)
  BY <1>1, <1>3, <1>4 DEF Numbered
<1>6. Apart(<< >>) /\ \A i \in DOMAIN << >> : Solid(<< >>[i].alts)
  BY <1>1 DEF Apart
<1> QED BY <1>1, <1>2, <1>5, <1>6 DEF Written

LEMMA OneMoreWritten ==
  ASSUME NEW v \in Patch!PatchVendors, NEW gs, NEW o, NEW k \in Nat \ {0}, IsGroup(gs[k]),
         NEW p, Written(v, gs, o, p, k - 1),
         NEW e, e = Patch!Generate(v, gs[k], o, p, k)
  PROVE  Written(v, gs, o, p \o e, k)
<1> DEFINE q == p \o e
           g == gs[k]
<1>1. IsSequence(p) /\ Apart(p) /\ Numbered(v, p, k - 1)
  BY DEF Written
<1>2. Len(p) \in Nat
  <2>1. PICK S : p \in Seq(S)
    BY <1>1 DEF IsSequence
  <2> QED BY <2>1, LenProperties
<1>3. v = "modsecurity" => IsFiniteSet(UsedIds(p))
  <2> SUFFICES ASSUME v = "modsecurity" PROVE IsFiniteSet(UsedIds(p))
    OBVIOUS
  <2>1. PICK c \in Nat : UsedIds(p) = 1000000 .. 1000000 + c - 1
    BY <1>1 DEF Numbered
  <2>2. IsFiniteSet(1000000 .. 1000000 + c - 1)
    BY FS_Interval
  <2> QED BY <2>1, <2>2
<1>4. IsPatches(e, v, g, o, p, k)
  BY <1>2, <1>3, GenerateIs
<1>5. Apart(q) /\ Numbered(v, q, k)
  <2>1. CASE v = "aws"
    BY <1>1, <1>4, <2>1, AwsNumbers
  <2>2. CASE v = "modsecurity"
    BY <1>1, <1>4, <2>2, ModSecurityNumbers
  <2>3. CASE v \in {"gcp", "azure"}
    BY <1>1, <1>4, <2>3, TensNumbers
  <2>4. CASE v \notin {"aws", "modsecurity", "gcp", "azure"}
    BY <1>1, <1>4, <2>4, PlainNumbers
  <2> QED BY <2>1, <2>2, <2>3, <2>4
<1>6. PICK alts, scoped, s, h :
        /\ e = Patch!Emit(v, g, o, alts, scoped, s, h)
        /\ v \in Patch!RefuseEmpty => Solid(alts)
  BY <1>4 DEF IsPatches
<1>7. IsSequence(e)
  BY <1>6, EmitIs
<1> DEFINE m == Len(p)
           n == Len(e)
<1>8. /\ IsSequence(q) /\ m \in Nat /\ n \in Nat
      /\ DOMAIN p = 1 .. m /\ DOMAIN q = 1 .. m + n
      /\ \A i \in 1 .. m : q[i] = p[i]
      /\ \A i \in 1 .. m + n : i > m => q[i] = e[i - m]
  BY <1>1, <1>7, Concat
<1> HIDE DEF m, q
<1>9. v \in Patch!RefuseEmpty => \A i \in DOMAIN q : Solid(q[i].alts)
  <2> SUFFICES ASSUME v \in Patch!RefuseEmpty, NEW i \in 1 .. m + n PROVE Solid(q[i].alts)
    BY <1>8
  <2>1. CASE i <= m
    <3>1. i \in DOMAIN p /\ q[i] = p[i]
      BY <1>8, <2>1
    <3> QED BY <3>1 DEF Written
  <2>2. CASE i > m
    <3>1. q[i] = e[i - m] /\ i - m \in 1 .. n
      BY <1>8, <2>2
    <3>2. Solid({}) /\ Solid(alts)
      BY <1>6 DEF Solid
    <3>3. /\ Patch!Patch(v, "strict", g, alts, scoped, s).alts = alts
          /\ Patch!Patch(v, "heuristic", g, {}, scoped, h).alts = {}
      BY DEF Patch!Patch
    <3>4. CASE Strictly(v, o, alts)
      <4>1. n \in {1, 2} /\ e[1].alts = alts /\ (n = 2 => e[2].alts = {})
        BY <1>6, <3>3, <3>4, EmitIs
      <4>2. i - m = 1 \/ (i - m = 2 /\ n = 2)
        BY <3>1, <4>1
      <4> QED BY <3>1, <3>2, <4>1, <4>2
    <3>5. CASE ~Strictly(v, o, alts)
      <4>1. n \in {0, 1} /\ (n = 1 => e[1].alts = {})
        BY <1>6, <3>3, <3>5, EmitIs
      <4>2. i - m = 1 /\ n = 1
        BY <3>1, <4>1
      <4> QED BY <3>1, <3>2, <4>1, <4>2
    <3> QED BY <3>4, <3>5
  <2> QED BY <1>8, <2>1, <2>2
<1>10. ASSUME o.tier # "heuristic", NEW j \in 1 .. k, NEW r \in gs[j].items,
              IsReached(v, gs[j], o, r)
       PROVE  \E i \in DOMAIN q : Patch!Blocks(q[i], r)
  <2>1. CASE j = k
    <3>1. Answers(e, v, g, o, r)
      BY <1>10, <2>1, GenerateAnswers
    <3>2. 1 \in 1 .. n /\ Patch!Blocks(e[1], r)
      BY <1>10, <3>1, AnswerBlocks
    <3> HIDE DEF n
    <3>3. m + 1 \in DOMAIN q /\ q[m + 1] = e[1]
      <4>1. m + 1 \in 1 .. m + n /\ m + 1 > m /\ m + 1 - m = 1
        BY <1>8, <3>2
      <4> QED BY <1>8, <4>1
    <3> QED BY <3>2, <3>3
  <2>2. CASE j # k
    <3>1. j \in 1 .. k - 1
      BY <2>2
    <3>2. PICK i \in DOMAIN p : Patch!Blocks(p[i], r)
      BY <1>10, <3>1 DEF Written
    <3>3. i \in DOMAIN q /\ q[i] = p[i]
      BY <1>8, <3>2
    <3> QED BY <3>2, <3>3
  <2> QED BY <2>1, <2>2
<1> QED BY <1>5, <1>8, <1>9, <1>10 DEF Written, q

\* f holds the patches after each of the first n groups.
Writes(f, v, gs, o, n) ==
  f = [k \in 0 .. n |-> IF k = 0 THEN << >>
                        ELSE f[k - 1] \o Patch!Generate(v, gs[k], o, f[k - 1], k)]

LEMMA WritesExists ==
  ASSUME NEW v, NEW gs, NEW o, NEW n \in Nat
  PROVE  \E f : Writes(f, v, gs, o, n)
<1> DEFINE T == {m \in 0 .. n : \E f : Writes(f, v, gs, o, m)}
<1>1. 0 \in T
  <2>1. Writes([k \in 0 .. 0 |-> << >>], v, gs, o, 0)
    BY DEF Writes
  <2> QED BY <2>1
<1>2. ASSUME NEW m \in 0 .. n - 1, m \in T PROVE m + 1 \in T
  <2>1. PICK f : Writes(f, v, gs, o, m)
    BY <1>2
  <2> DEFINE last == f[m] \o Patch!Generate(v, gs[m + 1], o, f[m], m + 1)
             g    == [k \in 0 .. m + 1 |-> IF k = m + 1 THEN last ELSE f[k]]
  <2>2. \A k \in 0 .. m : f[k] = IF k = 0 THEN << >>
                                 ELSE f[k - 1] \o Patch!Generate(v, gs[k], o, f[k - 1], k)
    BY <2>1 DEF Writes
  <2>3. \A k \in 0 .. m + 1 :
          g[k] = IF k = 0 THEN << >> ELSE g[k - 1] \o Patch!Generate(v, gs[k], o, g[k - 1], k)
    <3> TAKE k \in 0 .. m + 1
    <3>1. k # 0 => k - 1 \in 0 .. m /\ g[k - 1] = f[k - 1]
      OBVIOUS
    <3>2. CASE k = m + 1
      <4>1. k - 1 = m /\ k # 0 /\ g[k - 1] = f[m]
        BY <3>1, <3>2
      <4>2. g[k] = last
        BY <3>2
      <4>3. last = f[m] \o Patch!Generate(v, gs[k], o, f[m], k)
        BY <3>2
      <4> HIDE DEF g, last
      <4> QED BY <4>1, <4>2, <4>3
    <3>3. CASE k # m + 1
      <4>1. k \in 0 .. m /\ g[k] = f[k]
        BY <3>3
      <4> QED BY <2>2, <3>1, <4>1
    <3> QED BY <3>2, <3>3
  <2>4. Writes(g, v, gs, o, m + 1)
    <3>1. g = [k \in 0 .. m + 1 |-> g[k]]
      OBVIOUS
    <3> HIDE DEF g
    <3> QED BY <2>3, <3>1 DEF Writes
  <2> QED BY <2>4
<1>3. n \in T
  <2> HIDE DEF T
  <2> QED BY <1>1, <1>2, Induction
<1> QED BY <1>3

LEMMA AllWritten ==
  ASSUME NEW v \in Patch!PatchVendors, NEW bs, NEW o, Len(Patch!Groups(v, bs, o)) \in Nat,
         \A k \in 1 .. Len(Patch!Groups(v, bs, o)) : IsGroup(Patch!Groups(v, bs, o)[k])
  PROVE  Written(v, Patch!Groups(v, bs, o), o, Patch!PatchesFor(v, bs, o),
           Len(Patch!Groups(v, bs, o)))
<1> DEFINE gs == Patch!Groups(v, bs, o)
           n  == Len(gs)
           f  == CHOOSE f : Writes(f, v, gs, o, n)
           T  == {m \in 0 .. n : Written(v, gs, o, f[m], m)}
<1>1. Patch!PatchesFor(v, bs, o) = f[n]
  BY DEF Patch!PatchesFor, Writes
<1>2. Writes(f, v, gs, o, n)
  BY WritesExists
<1> HIDE DEF f
<1>3. \A k \in 0 .. n : f[k] = IF k = 0 THEN << >>
                               ELSE f[k - 1] \o Patch!Generate(v, gs[k], o, f[k - 1], k)
  BY <1>2 DEF Writes
<1>4. 0 \in T
  <2>1. f[0] = << >>
    BY <1>3
  <2> QED BY <2>1, NoneWritten
<1>5. ASSUME NEW m \in 0 .. n - 1, m \in T PROVE m + 1 \in T
  <2>1. PICK k \in 1 .. n : k = m + 1
    OBVIOUS
  <2>2. k \in 0 .. n /\ k # 0 /\ k - 1 = m /\ k \in Nat \ {0}
    BY <2>1
  <2>3. f[k] = f[k - 1] \o Patch!Generate(v, gs[k], o, f[k - 1], k)
    BY <1>3, <2>2
  <2>4. Written(v, gs, o, f[k - 1], k - 1) /\ IsGroup(gs[k])
    BY <1>5, <2>2
  <2> HIDE DEF gs, n
  <2>5. Written(v, gs, o, f[k], k)
    BY <2>2, <2>3, <2>4, OneMoreWritten
  <2> QED BY <2>1, <2>2, <2>5
<1>6. n \in T
  <2> HIDE DEF T
  <2>1. 0 .. n \subseteq T
    BY <1>4, <1>5, Induction
  <2> QED BY <2>1
<1> QED BY <1>1, <1>6

-----------------------------------------------------------------------------
(* The groups of the bypasses.                                             *)

LEMMA GroupIs ==
  ASSUME NEW v, NEW bs \in Seq(Patch!Result), NEW o, NEW h \in 1 .. Len(bs)
  PROVE  IsGroup(Patch!GroupOf(v, bs[h], bs, o))
<1> DEFINE g == Patch!GroupOf(v, bs[h], bs, o)
<1>1. Len(bs) \in Nat /\ DOMAIN bs = 1 .. Len(bs) /\ \A i \in 1 .. Len(bs) : bs[i] \in Patch!Result
  BY LenProperties, ElementOfSeq
<1>2. g.first = bs[h] /\ g.items = IF o.grouped
                                    THEN {bs[j] : j \in {x \in DOMAIN bs : bs[x].cat = bs[h].cat}}
                                    ELSE {bs[h]}
  BY DEF Patch!GroupOf
<1> HIDE DEF g
<1> DEFINE all == {bs[j] : j \in 1 .. Len(bs)}
           f   == [j \in 1 .. Len(bs) |-> bs[j]]
<1>3. f \in Surjection(1 .. Len(bs), all)
  <2>1. f \in [1 .. Len(bs) -> all] /\ \A r \in all : \E j \in 1 .. Len(bs) : f[j] = r
    OBVIOUS
  <2> HIDE DEF f, all
  <2> QED BY <2>1 DEF Surjection
<1>4. IsFiniteSet(all)
  <2>1. IsFiniteSet(1 .. Len(bs))
    BY <1>1, FS_Interval
  <2> HIDE DEF f, all
  <2> QED BY <1>3, <2>1, FS_Surjection
<1>5. g.items \in SUBSET all /\ g.items \in SUBSET Patch!Result /\ g.first \in g.items
  BY <1>1, <1>2
<1>6. IsFiniteSet(g.items)
  <2> HIDE DEF all
  <2> QED BY <1>4, <1>5, FS_Subset
<1> QED BY <1>5, <1>6 DEF IsGroup, g

\* The groups are those of the first items, in order.
LEMMA HeadsAre ==
  ASSUME NEW bs \in Seq(Patch!Result), NEW o
  PROVE  /\ Len(Patch!Heads(bs, o)) \in Nat /\ DOMAIN Patch!Heads(bs, o) =
           1 .. Len(Patch!Heads(bs, o))
         /\ \A k \in 1 .. Len(Patch!Heads(bs, o)) : Patch!Heads(bs, o)[k] \in 1 .. Len(bs)
         /\ \A i \in 1 .. Len(bs) :
              (~o.grouped \/ \A j \in 1 .. i - 1 : bs[j].cat # bs[i].cat) =>
                \E k \in 1 .. Len(Patch!Heads(bs, o)) : Patch!Heads(bs, o)[k] = i
<1> DEFINE n  == Len(bs)
           id == [i \in DOMAIN bs |-> i]
           S  == {i \in DOMAIN bs : ~o.grouped \/ \A j \in 1 .. i - 1 : bs[j].cat # bs[i].cat}
           t  == Keep(id, S)
<1>1. n \in Nat /\ DOMAIN bs = 1 .. n
  BY LenProperties
<1>2. id \in Seq(1 .. n) /\ Len(id) = n
  <2>1. id \in [1 .. n -> 1 .. n]
    BY <1>1
  <2> HIDE DEF id, n
  <2>2. id \in Seq(1 .. n)
    BY <1>1, <2>1, SeqDef
  <2>3. Len(id) \in Nat /\ id \in [1 .. Len(id) -> 1 .. n]
    BY <2>2, LenProperties
  <2>4. 1 .. Len(id) = 1 .. n
    BY <2>1, <2>3
  <2>5. Len(id) = n
    <3> DEFINE m == Len(id)
    <3>1. m \in Nat /\ 1 .. m = 1 .. n
      BY <2>3, <2>4
    <3> HIDE DEF m
    <3>2. (m \in 1 .. m) = (m \in 1 .. n) /\ (n \in 1 .. m) = (n \in 1 .. n)
      BY <3>1
    <3>3. m = n
      BY <1>1, <3>1, <3>2
    <3> QED BY <3>3 DEF m
  <2> QED BY <2>2, <2>5
<1>3. \A i \in 1 .. n : id[i] = i
  BY <1>1
<1>4. t = Patch!Heads(bs, o)
  BY DEF Patch!Heads, Keep, Patch!Keep
<1>5. S \subseteq 1 .. n
  BY <1>1
<1>6. \A i \in 1 .. n :
        (~o.grouped \/ \A j \in 1 .. i - 1 : bs[j].cat # bs[i].cat) => i \in S
  BY <1>1
<1> HIDE DEF n, id, S, t
<1>7. PICK h : t \in Seq(1 .. n) /\ Picks(h, t, id, S, n)
  BY <1>2, KeepIs DEF t
<1>8. Len(t) \in Nat /\ DOMAIN t = 1 .. Len(t)
  BY <1>7, LenProperties
<1>9. \A k \in 1 .. Len(t) : t[k] \in 1 .. n
  BY <1>7, ElementOfSeq
<1>10. ASSUME NEW i \in S PROVE \E k \in 1 .. Len(t) : t[k] = i
  <2>1. i \in 1 .. n /\ id[i] = i
    BY <1>3, <1>5
  <2>2. PICK k \in 1 .. Len(t) : h[k] = i
    BY <1>7, <2>1 DEF Picks
  <2>3. t[k] = id[h[k]]
    BY <1>7 DEF Picks
  <2> QED BY <2>1, <2>2, <2>3
<1> QED BY <1>4, <1>6, <1>8, <1>9, <1>10 DEF n

\* Bypass i is in the group of a first item, of its category.
InSome(v, bs, o, gs, i) ==
  \E k \in 1 .. Len(gs), h \in 1 .. Len(bs) :
    /\ gs[k] = Patch!GroupOf(v, bs[h], bs, o)
    /\ bs[h].cat = bs[i].cat /\ (o.grouped \/ h = i)

LEMMA GroupsAre ==
  ASSUME NEW v, NEW bs \in Seq(Patch!Result), NEW o
  PROVE  LET gs == Patch!Groups(v, bs, o) IN
         /\ Len(gs) \in Nat
         /\ \A k \in 1 .. Len(gs) : IsGroup(gs[k])
         /\ \A i \in 1 .. Len(bs) : InSome(v, bs, o, gs, i)
<1> DEFINE gs == Patch!Groups(v, bs, o)
           t  == Patch!Heads(bs, o)
           l  == Len(t)
           n  == Len(bs)
<1>1. l \in Nat /\ DOMAIN t = 1 .. l /\ \A k \in 1 .. l : t[k] \in 1 .. n
  BY HeadsAre
<1>2. gs = [k \in 1 .. l |-> Patch!GroupOf(v, bs[t[k]], bs, o)]
  BY <1>1 DEF Patch!Groups
<1>3. \A k \in 1 .. l : gs[k] = Patch!GroupOf(v, bs[t[k]], bs, o)
  BY <1>2
<1>4. \A k \in 1 .. l : IsGroup(gs[k])
  BY <1>1, <1>3, GroupIs
<1>5. Len(gs) = l
  <2> DEFINE S == {gs[k] : k \in 1 .. l}
  <2> HIDE DEF l
  <2>1. gs \in [1 .. l -> S]
    BY <1>2
  <2> HIDE DEF gs, S
  <2>2. gs \in Seq(S)
    BY <1>1, <2>1, SeqDef
  <2>3. Len(gs) \in Nat /\ gs \in [1 .. Len(gs) -> S]
    BY <2>2, LenProperties
  <2> DEFINE m == Len(gs)
  <2>4. m \in Nat /\ 1 .. m = 1 .. l
    BY <2>1, <2>3
  <2> HIDE DEF m
  <2>5. (m \in 1 .. m) = (m \in 1 .. l) /\ (l \in 1 .. m) = (l \in 1 .. l)
    BY <2>4
  <2>6. m = l
    BY <1>1, <2>4, <2>5
  <2> QED BY <2>6 DEF m
<1>6. n \in Nat
  BY LenProperties
<1>7. \A i \in 1 .. n :
         (~o.grouped \/ \A j \in 1 .. i - 1 : bs[j].cat # bs[i].cat) => \E k \in 1 .. l : t[k] = i
  BY HeadsAre
<1>8. ASSUME NEW i \in 1 .. n
      PROVE  \E k \in 1 .. l, h \in 1 .. n :
               /\ gs[k] = Patch!GroupOf(v, bs[h], bs, o)
               /\ bs[h].cat = bs[i].cat /\ (o.grouped \/ h = i)
  <2> DEFINE H == {h \in 1 .. n : bs[h].cat = bs[i].cat}
  <2>1. PICK h \in H : \A y \in H : h <= y
    <3>1. H \subseteq Nat /\ i \in H
      BY <1>6
    <3> HIDE DEF H
    <3> QED BY <3>1, Smallest
  <2>2. \A j \in 1 .. h - 1 : bs[j].cat # bs[h].cat
    <3> SUFFICES ASSUME NEW j \in 1 .. h - 1, bs[j].cat = bs[h].cat PROVE FALSE
      OBVIOUS
    <3>1. j \in H /\ ~(h <= j)
      BY <1>6, <2>1
    <3> QED BY <2>1, <3>1
  <2>3. CASE o.grouped
    <3>2. h \in 1 .. n /\ bs[h].cat = bs[i].cat
      OBVIOUS
    <3> HIDE DEF gs, t, l, n, H
    <3>1. PICK k \in 1 .. l : t[k] = h
      BY <1>7, <2>2, <3>2
    <3>3. gs[k] = Patch!GroupOf(v, bs[h], bs, o)
      BY <1>3, <3>1
    <3> QED BY <2>3, <3>2, <3>3
  <2>4. CASE ~o.grouped
    <3> HIDE DEF gs, t, l, n, H
    <3>1. PICK k \in 1 .. l : t[k] = i
      BY <1>7, <2>4
    <3>2. gs[k] = Patch!GroupOf(v, bs[i], bs, o)
      BY <1>3, <3>1
    <3> QED BY <3>2
  <2> QED BY <2>3, <2>4
<1> HIDE DEF gs, l, n
<1>9. /\ Len(gs) \in Nat
      /\ \A k \in 1 .. Len(gs) : IsGroup(gs[k])
  BY <1>1, <1>4, <1>5
<1>10. ASSUME NEW i \in 1 .. n PROVE InSome(v, bs, o, gs, i)
  BY <1>5, <1>8 DEF InSome, n
<1> QED BY <1>9, <1>10 DEF gs, n

-----------------------------------------------------------------------------
(* The covers of a bypass are about the group it is in.                    *)

\* r is in group g, whose first item is b, of the bypasses of the report.
InGroup(v, g, b, r) ==
  /\ r \in g.items /\ b.cat = r.cat /\ (options.grouped \/ b = r)
  /\ g.first = b /\ g.label.cat = b.cat
  /\ g.label.numbered <=> ~options.grouped /\ v \in Patch!KeyedByGroup
  /\ options.grouped => g.items = Patch!SameGroup(r)
  /\ ~options.grouped => g.items = {r}
  /\ \A s \in g.items : s \in Patch!Result /\ s.cat = r.cat
  /\ \A s \in g.items : s.cat \in Patch!FileType => s.form \in Patch!Paths

LEMMA ParameterIsReached ==
  ASSUME NEW v, NEW g, NEW b, NEW r, InGroup(v, g, b, r), b \in g.items,
           Patch!ParameterCovered(v, r)
  PROVE  ParameterReached(v, g, options, r)
<1>1. b.cat = r.cat /\ b \in Patch!Result /\ Patch!Where(b) = Patch!Where(r)
  <2>1. b.cat = r.cat /\ b \in Patch!Result
    BY DEF InGroup
  <2>2. CASE options.grouped
    <3>1. b \in Patch!SameGroup(r)
      BY <2>2 DEF InGroup
    <3> QED BY <2>1, <2>2, <3>1 DEF Patch!ParameterCovered
  <2>3. CASE ~options.grouped
    BY <2>1, <2>3 DEF InGroup
  <2> QED BY <2>2, <2>3
<1>2. /\ r.cat \notin Patch!HeaderType \cup Patch!FileType
      /\ Patch!Where(r) = "body" <=> b.method = "POST"
  <2>1. Patch!Where(r) \in {"query", "body"}
    BY DEF Patch!ParameterCovered
  <2> QED BY <1>1, <2>1 DEF Patch!Where
<1>3. r.cat \notin Patch!DefaultUri \cup Patch!DefaultHeader /\
        (r.cat \in Patch!DefaultBody => Patch!Where(r) = "body")
      /\ Patch!Where(r) \in {"query", "body"}
  BY DEF Patch!ParameterCovered
<1>4. Patch!Loc(g) = Patch!Where(r)
  <2>1. g.label.cat = r.cat /\ g.first = b
    BY DEF InGroup
  <2>2. /\ r.cat \notin Patch!HeaderNamed /\ r.cat \notin {"User-Agent", "IP Bypass"}
        /\ r.cat \notin {"Path Traversal", "Sensitive Files"}
    BY <1>2, <1>3 DEF Patch!HeaderNamed, Patch!HeaderType, Patch!DefaultUri
  <2>3. r.cat \in {"Prototype Pollution (JSON Body)", "XXE", "GraphQL Injection"} =>
          Patch!Where(r) = "body"
    BY <1>3 DEF Patch!DefaultBody
  <2> QED BY <1>2, <1>3, <2>1, <2>2, <2>3 DEF Patch!Loc, Patch!Location
<1> QED BY <1>3, <1>4 DEF Patch!ParameterCovered, ParameterReached

LEMMA FileIsReached ==
  ASSUME NEW v, NEW g, NEW b, NEW r, InGroup(v, g, b, r), Patch!FileCovered(v, r)
  PROVE  FileReached(v, g, options, r)
<1>1. r.cat = "Sensitive Files"
  BY DEF Patch!FileCovered, Patch!Where, Patch!FileType, Patch!HeaderType
<1>2. ~g.label.numbered /\ g.label.cat = r.cat
  BY DEF Patch!FileCovered, InGroup
<1>3. Patch!Loc(g) = "uri"
  BY <1>1, <1>2 DEF Patch!Loc, Patch!Location, Patch!HeaderNamed
<1>4. Patch!Reduced(g.label) /\ \A s \in g.items : s.form \in Patch!Paths
  <2>1. Patch!Reduced(g.label)
    BY <1>1, <1>2 DEF Patch!Reduced, Patch!DefaultUri
  <2>2. \A s \in g.items : s.cat = "Sensitive Files" /\ (s.cat \in Patch!FileType => s.form \in Patch!Paths)
    BY <1>1 DEF InGroup
  <2>3. "Sensitive Files" \in Patch!FileType
    BY DEF Patch!FileType
  <2> QED BY <2>1, <2>2, <2>3
<1>5. v = "azure" => \A s \in g.items : Patch!Kind(s) = Patch!Kind(r)
  BY DEF Patch!FileCovered, InGroup
<1> QED BY <1>3, <1>4, <1>5 DEF Patch!FileCovered, FileReached

\* The bypasses are results of the scan.
LEMMA BypassesAre ==
  ASSUME Patch!Inputs, NEW rs \in Stored, NEW o
  PROVE  /\ Patch!Bypasses(rs, o) \in Seq(Patch!Result)
         /\ \A i \in 1 .. Len(Patch!Bypasses(rs, o)) :
              Patch!Bypasses(rs, o)[i].cat \in Patch!FileType =>
                  Patch!Bypasses(rs, o)[i].form \in Patch!Paths
<1> DEFINE S == {rs[i] : i \in {j \in DOMAIN rs : \/ rs[j].status = "200"
                                                  \/ o.misses /\ rs[j].status = "404"}}
           V == {r \in Patch!Result : r.cat \in Patch!FileType => r.form \in Patch!Paths}
<1>1. rs \in Seq(Patch!Result)
  BY DEF Patch!Inputs
<1>2. rs \in Seq(V)
  <2>1. \A i \in DOMAIN rs : rs[i].cat \in Patch!FileType => rs[i].form \in Patch!Paths
    BY DEF Patch!Inputs
  <2>2. Len(rs) \in Nat /\ rs \in [1 .. Len(rs) -> Patch!Result] /\ DOMAIN rs = 1 .. Len(rs)
    BY <1>1, LenProperties
  <2>3. rs \in [1 .. Len(rs) -> V]
    BY <2>1, <2>2
  <2> HIDE DEF V
  <2> QED BY <2>2, <2>3, SeqDef
<1>3. Patch!Bypasses(rs, o) = Keep(rs, S)
  BY DEF Patch!Bypasses, Keep, Patch!Keep
<1> HIDE DEF S
<1>4. Patch!Bypasses(rs, o) \in Seq(Patch!Result)
  BY <1>1, <1>3, KeepIs
<1>5. Patch!Bypasses(rs, o) \in Seq(V)
  <2> HIDE DEF V
  <2> QED BY <1>2, <1>3, KeepIs
<1>6. \A i \in 1 .. Len(Patch!Bypasses(rs, o)) : Patch!Bypasses(rs, o)[i] \in V
  <2> HIDE DEF V
  <2> QED BY <1>5, ElementOfSeq
<1> QED BY <1>4, <1>6

-----------------------------------------------------------------------------
(* Every report.                                                           *)

\* What there is is either nothing yet or the report that was asked for.
ReportIsOfScan ==
  \/ options.vendor = "none" /\ patches = Patch!NoReport
  \/ options \in Choices /\ scan \in Stored /\ patches = Patch!Report(scan, options)

LEMMA ReportStays ==
  /\ Patch!Init => ReportIsOfScan
  /\ ReportIsOfScan /\ Patch!Next => ReportIsOfScan'
<1>1. Patch!Init => ReportIsOfScan
  BY DEF Patch!Init, ReportIsOfScan
<1>2. ASSUME ReportIsOfScan, Patch!Next PROVE ReportIsOfScan'
  BY <1>2 DEF Patch!Next, Patch!Ask, ReportIsOfScan
<1> QED BY <1>1, <1>2

\* The choices name products, and the patches are those of their groups.
LEMMA AskedAre ==
  ASSUME Patch!Inputs, NEW o \in Choices
  PROVE  Patch!Asked(o) \subseteq Patch!PatchVendors
<1>1. o.vendor \in Patch!PatchVendors \cup {"all", "coraza"}
  BY DEF Patch!Inputs, Patch!Choice
<1> QED BY <1>1 DEF Patch!Asked, Patch!PatchVendors

LEMMA PatchesAreWritten ==
  ASSUME Patch!Inputs, options \in Choices, scan \in Stored, patches = Patch!Report(scan, options),
         NEW v \in Patch!Asked(options)
  PROVE  LET gs == Patch!Groups(v, patches.bypasses, options) IN
         /\ patches.bypasses \in Seq(Patch!Result)
         /\ Written(v, gs, options, patches.patches[v], Len(gs))
<1>1. patches.bypasses = Patch!Bypasses(scan, options) /\ patches.patches[v] =
        Patch!PatchesFor(v, patches.bypasses, options)
  BY DEF Patch!Report
<1>2. patches.bypasses \in Seq(Patch!Result)
  BY <1>1, BypassesAre
<1>3. v \in Patch!PatchVendors
  BY AskedAre
<1> QED BY <1>1, <1>2, <1>3, GroupsAre, AllWritten

LEMMA BypassIsInGroup ==
  ASSUME Patch!Inputs, options \in Choices, scan \in Stored, patches = Patch!Report(scan, options),
         NEW v, NEW i \in DOMAIN patches.bypasses
  PROVE  \E k \in 1 .. Len(Patch!Groups(v, patches.bypasses, options)) :
           LET g == Patch!Groups(v, patches.bypasses, options)[k] IN
           \E b \in g.items : InGroup(v, g, b, patches.bypasses[i])
<1> DEFINE bs == patches.bypasses
           gs == Patch!Groups(v, bs, options)
           n  == Len(bs)
           r  == bs[i]
<1>1. bs = Patch!Bypasses(scan, options)
  BY DEF Patch!Report
<1>2. /\ bs \in Seq(Patch!Result)
      /\ \A j \in 1 .. n : bs[j].cat \in Patch!FileType => bs[j].form \in Patch!Paths
  BY <1>1, BypassesAre
<1>3. DOMAIN bs = 1 .. n /\ \A j \in 1 .. n : bs[j] \in Patch!Result
  BY <1>2, LenProperties, ElementOfSeq
<1>4. PICK k \in 1 .. Len(gs), h \in 1 .. n :
        gs[k] = Patch!GroupOf(v, bs[h], bs, options) /\ bs[h].cat = r.cat /\
            (options.grouped \/ h = i)
  <2>1. i \in 1 .. n
    BY <1>3
  <2>2. InSome(v, bs, options, gs, i)
    BY <1>2, <2>1, GroupsAre
  <2> HIDE DEF gs, bs
  <2> QED BY <2>2 DEF InSome
<1>5. IsGroup(gs[k])
  BY <1>2, GroupsAre
<1> DEFINE g == gs[k]
           b == bs[h]
<1>6. /\ g.label.cat = b.cat /\ (g.label.numbered <=> ~options.grouped /\ v \in Patch!KeyedByGroup)
      /\ g.first = b
      /\ g.items = IF options.grouped THEN {bs[j] : j \in {x \in DOMAIN bs : bs[x].cat = b.cat}}
                   ELSE {b}
  <2>1. g = [label |-> [cat |-> b.cat, numbered |-> ~options.grouped /\ v \in Patch!KeyedByGroup],
             first |-> b,
             items |-> IF options.grouped
                         THEN {bs[j] : j \in {x \in DOMAIN bs : bs[x].cat = b.cat}} ELSE {b}]
    BY <1>4 DEF Patch!GroupOf
  <2> HIDE DEF g, bs
  <2>2. g.label = [cat |-> b.cat, numbered |-> ~options.grouped /\ v \in Patch!KeyedByGroup]
    BY <2>1
  <2>3. g.label.numbered = (~options.grouped /\ v \in Patch!KeyedByGroup)
    BY <2>2
  <2> QED BY <2>1, <2>2, <2>3
<1>7. options.grouped => g.items = Patch!SameGroup(r)
  BY <1>4, <1>6 DEF Patch!SameGroup
<1>8. ~options.grouped => g.items = {r} /\ b = r
  BY <1>4, <1>6
<1>9. \A s \in g.items : s.cat = r.cat /\ \E j \in 1 .. n : s = bs[j]
  BY <1>3, <1>4, <1>6
<1>10. r \in g.items /\ b \in g.items
  BY <1>3, <1>4, <1>6
<1> HIDE DEF gs, bs, n, g
<1>11. \A s \in g.items : s \in Patch!Result /\
            (s.cat \in Patch!FileType => s.form \in Patch!Paths)
  BY <1>2, <1>3, <1>9
<1>12. InGroup(v, g, b, r)
  BY <1>4, <1>6, <1>7, <1>8, <1>9, <1>10, <1>11 DEF InGroup
<1> QED BY <1>10, <1>12 DEF bs, gs, g

\* What the generators promise of every report.
LEMMA ReportsHold ==
  ASSUME Patch!Inputs, ReportIsOfScan
  PROVE  Patch!PatchesHold
<1>1. CASE options.vendor = "none" /\ patches = Patch!NoReport
  <2>1. patches.patches = << >> /\ DOMAIN << >> = {}
    BY <1>1 DEF Patch!NoReport
  <2> QED BY <1>1, <2>1 DEF Patch!PatchesHold, Patch!VerifiedIsLookedFor, Patch!IdsUnique,
        Patch!NothingEmpty, Patch!BundlesComplete
<1>2. CASE options \in Choices /\ scan \in Stored /\ patches = Patch!Report(scan, options)
  <2>1. DOMAIN patches.patches = Patch!Asked(options)
    BY <1>2 DEF Patch!Report
  <2>2. Patch!VerifiedIsLookedFor
    <3> SUFFICES ASSUME options.tier # "heuristic",
                        NEW v \in Patch!Asked(options), NEW i \in DOMAIN patches.bypasses,
                        Patch!ParameterCovered(v, patches.bypasses[i]) \/ Patch!FileCovered(v,
                            patches.bypasses[i])
                 PROVE  \E j \in DOMAIN patches.patches[v] :
                          Patch!Blocks(patches.patches[v][j], patches.bypasses[i])
      BY DEF Patch!VerifiedIsLookedFor
    <3> DEFINE gs == Patch!Groups(v, patches.bypasses, options)
               r  == patches.bypasses[i]
    <3>1. PICK k \in 1 .. Len(gs) : \E b \in gs[k].items : InGroup(v, gs[k], b, r)
      BY <1>2, BypassIsInGroup
    <3>2. IsReached(v, gs[k], options, r)
      BY <3>1, ParameterIsReached, FileIsReached DEF IsReached
    <3>3. r \in gs[k].items
      BY <3>1 DEF InGroup
    <3>4. Written(v, gs, options, patches.patches[v], Len(gs))
      BY <1>2, PatchesAreWritten
    <3> HIDE DEF gs, r
    <3>5. \E j \in DOMAIN patches.patches[v] : Patch!Blocks(patches.patches[v][j], r)
      BY <3>1, <3>2, <3>3, <3>4 DEF Written
    <3> QED BY <3>5 DEF r
  <2>3. \A v \in Patch!Asked(options) :
          /\ Apart(patches.patches[v])
          /\ v \in Patch!RefuseEmpty => \A k \in DOMAIN patches.patches[v] :
               Solid(patches.patches[v][k].alts)
    BY <1>2, PatchesAreWritten DEF Written
  <2>4. Patch!IdsUnique
    BY <2>1, <2>3 DEF Patch!IdsUnique, Apart
  <2>5. Patch!NothingEmpty
    BY <2>1, <2>3 DEF Patch!NothingEmpty, Solid, NoBlankIn, Patch!RefuseEmpty
  <2>6. Patch!BundlesComplete
    <3> SUFFICES ASSUME NEW v \in Patch!Asked(options)
                 PROVE  \E b \in DOMAIN patches.bundles : patches.bundles[b] = patches.patches[v]
      BY <2>1 DEF Patch!BundlesComplete
    <3>1. patches.bundles = Patch!Bundles(options, patches.patches)
      BY <1>2 DEF Patch!Report
    <3>2. options.vendor \in Patch!PatchVendors \cup {"all", "coraza"} /\ v \in Patch!PatchVendors
      BY <1>2, AskedAre DEF Patch!Inputs, Patch!Choice
    <3>3. CASE options.vendor = "all"
      <4>1. Patch!NativeVendor(v) = v /\ v \in DOMAIN patches.bundles
        BY <3>1, <3>2, <3>3 DEF Patch!NativeVendor, Patch!PatchVendors, Patch!Bundles
      <4>2. patches.bundles[v] = patches.patches[v]
        BY <2>1, <3>1, <3>2, <3>3, <4>1 DEF Patch!Bundles
      <4> QED BY <4>1, <4>2
    <3>4. CASE options.vendor # "all"
      <4>1. Patch!NativeVendor(options.vendor) = v /\ options.vendor \in DOMAIN patches.bundles
        BY <3>1, <3>4 DEF Patch!NativeVendor, Patch!Bundles, Patch!Asked
      <4>2. patches.bundles[options.vendor] = patches.patches[v]
        BY <2>1, <3>1, <3>4, <4>1 DEF Patch!Bundles
      <4> QED BY <4>1, <4>2
    <3> QED BY <3>3, <3>4
  <2> QED BY <2>2, <2>4, <2>5, <2>6 DEF Patch!PatchesHold
<1> QED BY <1>1, <1>2 DEF ReportIsOfScan

\* A strict patch looks for each bypass it covers, where the request carried it; ids
\* and priorities are unique, no rule is empty where that is refused and the bundles
\* are complete, for every scan and every choice (virtual-patch/index.ts:60-175).
THEOREM PatchesAreSound == EngineSpec => []PatchesHold
<1>1. EngineInit => ReportIsOfScan
  BY ReportStays DEF EngineInit
<1>2. ReportIsOfScan /\ [EngineNext]_allVars => ReportIsOfScan'
  <2> SUFFICES ASSUME ReportIsOfScan, [EngineNext]_allVars PROVE ReportIsOfScan'
    OBVIOUS
  <2>1. CASE UNCHANGED patchVars
    BY <2>1 DEF patchVars, ReportIsOfScan
  <2>2. CASE Patch!Next
    BY <2>2, ReportStays
  <2> QED BY <2>1, <2>2 DEF EngineNext, VerdictStep, allVars
<1>3. ReportIsOfScan => PatchesHold
  BY PatchAssumption, ReportsHold DEF PatchesHold
<1> QED BY <1>1, <1>2, <1>3, PTL DEF EngineSpec
=============================================================================
