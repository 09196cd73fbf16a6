------------------------- MODULE ReverseEngineering -------------------------
(***************************************************************************)
(* runReverseEngineeringAudit of core/src/reverse-engineering: which rules *)
(* are on, how much of a body the product reads, whether it adds scores up *)
(* and when it limits the rate.                                            *)
(*                                                                         *)
(* Rules are probed by lanes that share an index; the body and the score   *)
(* analysis then run side by side, and the rate probe after them, alone.   *)
(***************************************************************************)
EXTENDS Integers, Sequences, FiniteSets

CONSTANTS Rules,   \* number of rules in OWASP_CRS_RULES
          Lanes,   \* concurrencyLimit: 5 in the code
          Bounds,  \* paddings of the coarse search in KB: 8, 16, 32, 64, 128
          Stages,  \* rates of the ramp-up: 5, 10, 20, 30
          None

VARIABLES phase,   \* of the audit
          skip,    \* the analyses the options skip
          index,   \* ruleIndex
          lane,    \* the rule each lane is probing, None between rules
          items,   \* crsItems: a status, or None where none is stored
          body,    \* detectBodyInspectionLimit
          score,   \* detectAnomalyScoringMode
          rate,    \* probeRateLimit
          summary  \* crsSummary

vars == <<phase, skip, index, lane, items, body, score, rate, summary>>

Analyses == {"body", "score", "rate"}

\* What a probe is answered: block pages may come with any status.
Answer == [status : {"200", "404", "403", "429", "ERR", "BLOCKED"}, page : BOOLEAN]

\* Mutant: a rate-limited probe counts as one that was let through.
ClassifyLimitedAsPassed(a) ==
  IF a.status \in {"ERR", "BLOCKED"} THEN "inconclusive"
  ELSE IF a.status = "403" \/ a.page THEN "blocked" ELSE "passed"
\* classifyProbe
Classify(a) ==
  IF a.status \in {"ERR", "BLOCKED", "429"} THEN "inconclusive"
  ELSE IF a.status = "403" \/ a.page THEN "blocked" ELSE "passed"

-----------------------------------------------------------------------------
Init ==
  /\ phase = "idle" /\ skip = {} /\ index = 1 /\ summary = None
  /\ lane = [w \in 1 .. Lanes |-> None]
  /\ items = [r \in 1 .. Rules |-> None]
  /\ body = [at |-> "idle", size |-> 0, low |-> 0, high |-> 0, asked |-> << >>, limit |-> 0]
  /\ score = [at |-> "idle", seen |-> << >>, mode |-> None, threshold |-> None]
  /\ rate = [at |-> "idle", stage |-> 0, completed |-> 0, threshold |-> None]

Begin(s) ==
  /\ phase = "idle" /\ phase' = "rules" /\ skip' = s
  /\ UNCHANGED <<index, lane, items, body, score, rate, summary>>

\* isValidTargetUrl refuses the URL.
Refuse ==
  /\ phase = "idle" /\ phase' = "thrown"
  /\ UNCHANGED <<skip, index, lane, items, body, score, rate, summary>>

-----------------------------------------------------------------------------
(* The rules.                                                              *)

Claim(w) ==
  /\ phase = "rules" /\ lane[w] = None /\ index <= Rules
  /\ lane' = [lane EXCEPT ![w] = index]
  /\ index' = index + 1
  /\ UNCHANGED <<phase, skip, items, body, score, rate, summary>>

\* "disabled" needs a 2xx that is no block page; a 404 that passes is unknown.
StatusOf(a) ==
  CASE Classify(a) = "blocked" -> "active"
    [] Classify(a) = "passed" /\ a.status = "200" -> "disabled"
    [] OTHER -> "unknown"

\* Mutant: the answer goes to the slot that the index points at now.
RuleAnsweredAtIndex(w, a) ==
  /\ phase = "rules" /\ lane[w] # None
  /\ items' = [items EXCEPT ![index - 1] = StatusOf(a)]
  /\ lane' = [lane EXCEPT ![w] = None]
  /\ UNCHANGED <<phase, skip, index, body, score, rate, summary>>
RuleAnswered(w, a) ==
  /\ phase = "rules" /\ lane[w] # None
  /\ items' = [items EXCEPT ![lane[w]] = StatusOf(a)]
  /\ lane' = [lane EXCEPT ![w] = None]
  /\ UNCHANGED <<phase, skip, index, body, score, rate, summary>>

\* Every lane has returned.
RulesDone ==
  /\ phase = "rules" /\ index > Rules /\ \A w \in 1 .. Lanes : lane[w] = None
  /\ phase' = "limits"
  /\ body'  = IF "body" \in skip THEN [body EXCEPT !.at = "done"] ELSE [body EXCEPT !.at = "base"]
  /\ score' = IF "score" \in skip THEN [score EXCEPT !.at = "done", !.mode = "unknown"]
              ELSE [score EXCEPT !.at = "signals"]
  /\ UNCHANGED <<skip, index, lane, items, rate, summary>>

-----------------------------------------------------------------------------
(* detectBodyInspectionLimit.  asked keeps what each padding was answered. *)

BoundAfter(size) ==
  IF size = 0 THEN Bounds[1]
  ELSE LET k == CHOOSE k \in DOMAIN Bounds : Bounds[k] = size
       IN IF k < Len(Bounds) THEN Bounds[k + 1] ELSE None

\* No limit is reported: limitBytes stays null, here 0.
NoLimit(b) == [b EXCEPT !.at = "done"]

\* The next step of the binary search between low and high, to 1 KB.
Halve(b) ==
  IF b.high - b.low > 1 THEN [b EXCEPT !.at = "search", !.size = (b.low + b.high) \div 2]
  ELSE [b EXCEPT !.at = "done", !.limit = b.high]

BodyAnswered(a) ==
  LET outcome == Classify(a)
      asked == [size |-> body.size, outcome |-> outcome, limited |-> a.status = "429"]
      b == [body EXCEPT !.asked = Append(@, asked)] IN
  /\ phase = "limits" /\ body.at \in {"base", "grid", "search"}
  /\ body' =
       IF outcome = "inconclusive" THEN NoLimit(b)
       ELSE CASE body.at = "base" ->
                   IF outcome = "passed" THEN NoLimit(b)
                   ELSE [b EXCEPT !.at = "grid", !.size = BoundAfter(0)]
              [] body.at = "grid" ->
                   IF outcome = "passed" THEN Halve([b EXCEPT !.high = body.size])
                   ELSE IF BoundAfter(body.size) = None
                     THEN NoLimit(b)
                   ELSE [b EXCEPT !.low = body.size, !.size = BoundAfter(body.size)]
              [] OTHER ->
                   Halve(IF outcome = "passed" THEN [b EXCEPT !.high = body.size]
                                               ELSE [b EXCEPT !.low = body.size])
  /\ UNCHANGED <<phase, skip, index, lane, items, score, rate, summary>>

-----------------------------------------------------------------------------
(* detectAnomalyScoringMode: two weak signals, both together, a strong one,*)
(* then all three.                                                         *)

Concludes(s, mode, threshold) == [s EXCEPT !.at = "done", !.mode = mode, !.threshold = threshold]

\* Both requests are sent at once; the analysis goes on when both returned.
SignalsAnswered(a1, a2) ==
  LET c1 == Classify(a1)  c2 == Classify(a2)
      s == [score EXCEPT !.seen = <<c1, c2>>] IN
  /\ phase = "limits" /\ score.at = "signals"
  /\ score' = IF "blocked" \in {c1, c2} THEN Concludes(s, "traditional_regex", None)
              ELSE IF "inconclusive" \in {c1, c2} THEN Concludes(s, "unknown", None)
              ELSE [s EXCEPT !.at = "composite5"]
  /\ UNCHANGED <<phase, skip, index, lane, items, body, rate, summary>>

AfterPass(at) ==
  CASE at = "composite5" -> "critical" [] at = "critical" -> "composite10" [] OTHER -> "done"

ScoreAnswered(a) ==
  LET outcome == Classify(a)
      s == [score EXCEPT !.seen = Append(@, outcome)] IN
  /\ phase = "limits" /\ score.at \in {"composite5", "critical", "composite10"}
  /\ score' =
       CASE outcome = "inconclusive" -> Concludes(s, "unknown", None)
         [] outcome = "blocked" ->
              Concludes(s, "anomaly_scoring", IF score.at = "composite10" THEN 10 ELSE 5)
         [] OTHER -> [s EXCEPT !.at = AfterPass(score.at),
                                !.mode = IF score.at = "composite10" THEN "unknown" ELSE None]
  /\ UNCHANGED <<phase, skip, index, lane, items, body, rate, summary>>

-----------------------------------------------------------------------------
(* probeRateLimit and the end.                                             *)

\* Mutant: the ramp-up starts with the other analyses.
RateBeginEarly ==
  /\ phase = "limits" /\ rate.at = "idle"
  /\ rate' = [rate EXCEPT !.at = IF "rate" \in skip THEN "done" ELSE "sent", !.stage = 1]
  /\ UNCHANGED <<phase, skip, index, lane, items, body, score, summary>>
\* The ramp-up waits for both analyses.
RateBegin ==
  /\ phase = "limits" /\ rate.at = "idle" /\ body.at = "done" /\ score.at = "done"
  /\ rate' = [rate EXCEPT !.at = IF "rate" \in skip THEN "done" ELSE "sent", !.stage = 1]
  /\ UNCHANGED <<phase, skip, index, lane, items, body, score, summary>>

\* All requests of a stage have returned, with a 429 among them or not.
StageAnswered(limited) ==
  /\ rate.at = "sent"
  /\ rate' = IF limited THEN [rate EXCEPT !.at = "done", !.threshold = Stages[rate.stage]]
             ELSE [rate EXCEPT !.completed = Stages[rate.stage], !.stage = @ + 1,
                                !.at = IF rate.stage = Len(Stages) THEN "done" ELSE "sent"]
  /\ UNCHANGED <<phase, skip, index, lane, items, body, score, summary>>

Having(status) == Cardinality({r \in 1 .. Rules : items[r] = status})

Report ==
  /\ phase = "limits" /\ rate.at = "done"
  /\ phase' = "done"
  /\ summary' = [total |-> Cardinality({r \in 1 .. Rules : items[r] # None}),
                 active |-> Having("active"), disabled |-> Having("disabled")]
  /\ UNCHANGED <<skip, index, lane, items, body, score, rate>>

\* One answer of each class for a rule or a probe.
Probed == {[status |-> "200", page |-> FALSE], [status |-> "200", page |-> TRUE],
           [status |-> "404", page |-> FALSE], [status |-> "429", page |-> FALSE]}

Next ==
  \/ \E s \in SUBSET Analyses : Begin(s)
  \/ Refuse
  \/ \E w \in 1 .. Lanes : Claim(w)
  \/ \E w \in 1 .. Lanes, a \in Probed : RuleAnswered(w, a)
  \/ RulesDone
  \/ \E a \in Probed : BodyAnswered(a)
  \/ \E a1, a2 \in Probed : SignalsAnswered(a1, a2)
  \/ \E a \in Probed : ScoreAnswered(a)
  \/ RateBegin
  \/ \E limited \in BOOLEAN : StageAnswered(limited)
  \/ Report

Spec == Init /\ [][Next]_vars

-----------------------------------------------------------------------------
(* Properties.                                                             *)

Asked(size, outcome) ==
  \E k \in DOMAIN body.asked : body.asked[k].size = size /\ body.asked[k].outcome = outcome

\* A body limit is one that was measured: a request with that padding passed,
\* one with a padding 1 KB shorter was blocked, and the rate limiter answered
\* none of the probes (body-limit-detector.ts:15-17, 96-135).
LimitIsMeasured ==
  body.limit # 0 =>
    /\ Asked(body.limit, "passed") /\ Asked(body.limit - 1, "blocked")
    /\ \A k \in DOMAIN body.asked : ~body.asked[k].limited

\* Each conclusion on scoring rests on earlier probes that genuinely passed
\* (anomaly-score-detector.ts:45-47).
ScoreRestsOnPasses ==
  score.mode = "anomaly_scoring" =>
    /\ score.seen[Len(score.seen)] = "blocked"
    /\ \A k \in 1 .. Len(score.seen) - 1 : score.seen[k] = "passed"
    /\ score.threshold = 10 => Len(score.seen) = 5

\* While the ramp-up floods the target no other probe is open
\* (index.ts:101-103: "run alongside the others it rate-limited their probes").
RateProbeAlone ==
  rate.at = "sent" =>
    /\ \A w \in 1 .. Lanes : lane[w] = None
    /\ body.at = "done" /\ score.at = "done"

\* Every rule is reported once, and the lanes left none out (index.ts:40-98).
AllRulesReported == summary # None => summary.total = Rules

\* What the audit promises of its findings, for every order of the answers.
AuditIsGrounded == LimitIsMeasured /\ ScoreRestsOnPasses /\ RateProbeAlone /\ AllRulesReported
=============================================================================
