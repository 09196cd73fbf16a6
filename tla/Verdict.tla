------------------------------- MODULE Verdict -------------------------------
(***************************************************************************)
(* What a scan makes of an answer: evaluateWAFVerdict and captureBaseline  *)
(* (core/src/check.ts), with the structural comparison of baseline.ts.     *)
(*                                                                         *)
(* An answer is reduced to what the code tells apart.  The form of a body  *)
(* stands for its structural signature and its length: the lengths of two  *)
(* similar bodies may differ a little, so similarity need not be transitive.*)
(***************************************************************************)
CONSTANTS Forms,    \* forms of bodies
          Alike,    \* pairs of forms that areBodiesStructurallySimilar accepts
          Replies,  \* answers the target may give
          None

\* wafDetectionResult: nothing detected, Imperva or Incapsula, any other WAF.
Wafs == {"none", "imperva", "other"}

\* "ok" is 200, "bad" 400; "fine" any other 2xx, "other" every other status.
Statuses == {"403", "406", "429", "ok", "bad", "fine", "other", "BLOCKED", "ERR"}

\* A vendor's header counts only on a blocked answer, cf-mitigated always.
Headers == {"none", "vendor", "mitigated"}

\* Captchas and general block markers count always, vendor phrases only on a
\* blocked answer, an incident id only under a detected Imperva.
Markers == {"none", "vendor", "incident", "always"}

\* A request that was refused or got no answer has neither headers nor a body.
Reply == {r \in [status : Statuses, headers : Headers, marker : Markers, form : Forms,
                 soft : BOOLEAN,          \* isSoftBlockBody
                 plausible : BOOLEAN,     \* isPlausibleArtifactContent
                 originAuth : BOOLEAN] :  \* isLikelyOriginAuthResponse
            r.status \in {"ERR", "BLOCKED"} => r.headers = "none" /\ r.marker = "none"}

\* BaselineProfile
Profile == [status : Statuses, form : Forms,
            wafBlockedOnBenign : BOOLEAN, isOriginBlocked : BOOLEAN]

Notes == {"none", "origin_blocked", "custom_block_page"}
Result == [blocked : BOOLEAN, verdict : {"blocked", "passed", "exposed"}, note : Notes]

Judgement == [reply : Reply, file : BOOLEAN, result : Result]

ASSUME VerdictAssumption ==
  /\ Alike \subseteq Forms \X Forms /\ \A f \in Forms : <<f, f>> \in Alike
  /\ Replies \subseteq Reply
  /\ None \notin [reply : Reply, waf : Wafs] \cup Profile \cup Judgement

VARIABLES detected,  \* what the detection of this page found
          stage,     \* "detect", "calibrate", "scan"
          benign,    \* [reply, waf]: the benign answer and what was detected then
          profile,   \* baselineProfile
          judged     \* the verdict being reported: [reply, file, result]

vars == <<detected, stage, benign, profile, judged>>

Init ==
  /\ detected = "none" /\ stage = "detect"
  /\ benign = None /\ profile = None /\ judged = None

-----------------------------------------------------------------------------
(* evaluateWAFVerdict                                                      *)

BlockStatus(r) == r.status \in {"403", "406", "429", "BLOCKED"}

\* What makes an answer blocked whatever its status, and is a signal of a WAF.
Marked(r, waf) ==
  \/ r.status = "BLOCKED" \/ r.headers = "mitigated" \/ r.marker = "always"
  \/ r.marker = "incident" /\ waf = "imperva"

\* isBlocked
Blocked(r, waf) == BlockStatus(r) \/ Marked(r, waf)

\* hasExplicitWafSignal
Signal(r, waf) ==
  \/ Marked(r, waf)
  \/ Blocked(r, waf) /\ (waf # "none" \/ r.headers = "vendor" \/ r.marker = "vendor")

\* areBodiesStructurallySimilar
Similar(r, p) == <<r.form, p.form>> \in Alike

\* Mutant: any denial counts as the origin's own.
OriginDenialAnyBody(r, waf, p) ==
  /\ Blocked(r, waf) /\ ~Signal(r, waf)
  /\ p # None /\ p.isOriginBlocked

\* Baseline case A: the origin denies the benign request in the same way.
OriginDenial(r, waf, p) ==
  /\ Blocked(r, waf) /\ ~Signal(r, waf)
  /\ p # None /\ p.isOriginBlocked
  /\ r.status = p.status /\ Similar(r, p)

\* Mutant: a page like the benign one may be taken for a block page.
SoftBlockAnyBody(r, waf, p) ==
  /\ ~Blocked(r, waf)
  /\ p # None /\ p.status = "ok"
  /\ r.status \in {"ok", "bad"} /\ r.soft

\* Baseline case B: a block page with status 200 or 400.
SoftBlock(r, waf, p) ==
  /\ ~Blocked(r, waf)
  /\ p # None /\ p.status = "ok"
  /\ r.status \in {"ok", "bad"} /\ r.soft /\ ~Similar(r, p)

\* An answer that is not blocked is a leak if it has the content asked for.
Exposed(r) == r.status \in {"ok", "fine"} /\ r.plausible

Passed(r) == IF Exposed(r) THEN "exposed" ELSE "passed"

\* Mutant: a custom block page gets the verdict of its status.
CustomBlockByStatus(r) ==
  [blocked |-> TRUE, verdict |-> Passed(r), note |-> "custom_block_page"]

CustomBlock(r) ==
  [blocked |-> TRUE, verdict |-> "blocked", note |-> "custom_block_page"]

\* evaluateWAFVerdict(status, body, detection, headers, payload, baseline)
Evaluate(r, waf, p) ==
  IF OriginDenial(r, waf, p)
    THEN [blocked |-> FALSE, verdict |-> "passed", note |-> "origin_blocked"]
  ELSE IF SoftBlock(r, waf, p) THEN CustomBlock(r)
  ELSE IF Blocked(r, waf)
    THEN [blocked |-> TRUE, verdict |-> "blocked", note |-> "none"]
  ELSE [blocked |-> FALSE, verdict |-> Passed(r), note |-> "none"]

-----------------------------------------------------------------------------
(* captureBaseline                                                         *)

Denial(r) == r.status \in {"403", "406"}

\* Mutant: the origin is not asked for an answer that looks like its own.
WafBlockedOnAnyPage(r, waf) ==
  IF Denial(r) THEN Signal(r, waf) ELSE Blocked(r, waf)

\* wafBlockedOnBenign: a denial is the WAF's if it carries a signal, which the
\* code asks of Evaluate with a profile of the answer itself, or is a page that
\* does not look like the origin's own authorisation error.
WafBlockedOnBenign(r, waf) ==
  IF Denial(r)
    THEN \/ Evaluate(r, waf, [status |-> r.status, form |-> r.form,
                              wafBlockedOnBenign |-> FALSE,
                              isOriginBlocked |-> TRUE]).blocked
         \/ ~r.originAuth
    ELSE Evaluate(r, waf, None).blocked

\* isOriginBlocked
IsOriginBlocked(r, waf) ==
  /\ Denial(r) /\ ~WafBlockedOnBenign(r, waf)
  /\ Evaluate(r, waf, None).blocked /\ r.originAuth

Capture(r, waf) ==
  IF r.status \in {"ERR", "BLOCKED"}
    THEN [status |-> r.status, form |-> r.form, isOriginBlocked |-> FALSE,
          wafBlockedOnBenign |-> r.status = "BLOCKED"]
    ELSE [status |-> r.status, form |-> r.form,
          isOriginBlocked |-> IsOriginBlocked(r, waf),
          wafBlockedOnBenign |-> WafBlockedOnBenign(r, waf)]

-----------------------------------------------------------------------------
(* A scan, page by page.                                                   *)

\* The detection is run again for each page, unless the client already knows.
Detect(w) ==
  /\ stage = "detect"
  /\ detected' = w
  /\ stage' = IF profile = None THEN "calibrate" ELSE "scan"
  /\ UNCHANGED <<benign, profile, judged>>

\* The first page captures the baseline, which the client sends with the others.
Calibrate(r) ==
  /\ stage = "calibrate"
  /\ benign' = [reply |-> r, waf |-> detected]
  /\ profile' = Capture(r, detected)
  /\ stage' = "scan"
  /\ UNCHANGED <<detected, judged>>

\* calibrateBaseline is off, or the client kept no baseline.
NoCalibration ==
  /\ stage = "calibrate"
  /\ stage' = "scan"
  /\ UNCHANGED <<detected, benign, profile, judged>>

\* Mutant: file checks are judged by the baseline of the base URL.
FileBaselineKept(p) == p

\* A file check asks for another path than the benign request did, so a denial
\* of the base URL says nothing about it.
FileBaseline(p) == IF p # None /\ p.isOriginBlocked THEN None ELSE p

\* An answer to an attack; file tells whether it is a file check.
Judge(r, file) ==
  /\ stage = "scan" /\ judged = None
  /\ judged' = [reply |-> r, file |-> file,
                result |-> Evaluate(r, detected, IF file THEN FileBaseline(profile) ELSE profile)]
  /\ UNCHANGED <<detected, stage, benign, profile>>

\* The result is put into the page: no verdict depends on another one.
Report ==
  /\ judged # None
  /\ judged' = None
  /\ UNCHANGED <<detected, stage, benign, profile>>

NextPage ==
  /\ stage = "scan" /\ judged = None
  /\ stage' = "detect"
  /\ UNCHANGED <<detected, benign, profile, judged>>

Next ==
  \/ \E w \in Wafs : Detect(w)
  \/ NoCalibration \/ Report \/ NextPage
  \/ \E r \in Replies : Calibrate(r)
  \/ \E r \in Replies, file \in BOOLEAN : Judge(r, file)

Spec == Init /\ [][Next]_vars

-----------------------------------------------------------------------------
(* Properties.                                                             *)

\* Type correctness; the results the scan reports are among the documented ones
\* (reports/types.ts), and an answer that counts as blocked is never "exposed".
TypeOK ==
  /\ detected \in Wafs /\ stage \in {"detect", "calibrate", "scan"}
  /\ benign \in [reply : Reply, waf : Wafs] \cup {None}
  /\ profile \in Profile \cup {None}
  /\ judged \in Judgement \cup {None}
  /\ judged # None => judged.result.blocked = (judged.result.verdict = "blocked")

\* The verdict the same answer gets without a baseline.
Uncalibrated == Evaluate(judged.reply, detected, None)

\* An attack answered exactly like the benign request is a block if and only if
\* the baseline says that a WAF blocked the benign request, as long as the same
\* WAF was detected: captureBaseline and evaluateWAFVerdict, which decide it in
\* different ways, never disagree about one answer (baseline.ts:5-10).
BenignAnswerAgrees ==
  judged # None /\ benign # None =>
    (judged.reply = benign.reply /\ ~judged.file /\ detected = benign.waf =>
       (judged.result.blocked <=> profile.wafBlockedOnBenign))

\* The baseline clears a block only if the benign request got the same status and
\* a similar body, and no WAF was detected or left a mark on either answer, on
\* this page or on the page that captured the baseline.
ClearedOnlyAsOrigin ==
  judged # None =>
    (Uncalibrated.blocked /\ ~judged.result.blocked =>
       /\ benign # None /\ detected = "none" /\ benign.waf = "none"
       /\ benign.reply.status = judged.reply.status
       /\ <<judged.reply.form, benign.reply.form>> \in Alike
       /\ \A r \in {benign.reply, judged.reply} :
            r.headers = "none" /\ r.marker \in {"none", "incident"})

\* The baseline adds a block only for a page unlike the benign one, where the
\* benign request was answered with 200.
AddedOnlyIfDifferent ==
  judged # None =>
    (judged.result.blocked /\ ~Uncalibrated.blocked =>
       /\ benign # None /\ benign.reply.status = "ok"
       /\ <<judged.reply.form, benign.reply.form>> \notin Alike)

\* A block of a file check is never cleared by the baseline of the base URL
\* (check.ts:1259-1261).
FileBlocksStay ==
  judged # None => (judged.file /\ Uncalibrated.blocked => judged.result.blocked)
=============================================================================
