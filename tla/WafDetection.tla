---------------------------- MODULE WafDetection ----------------------------
(***************************************************************************)
(* WAFDetector of core/src/waf-detection.ts: which product stands before a *)
(* site.  A clean request is sent first; unless it settles the matter, the *)
(* attack payloads and the request below /cdn-cgi follow in parallel, and  *)
(* the best of their answers becomes the verdict.                          *)
(*                                                                         *)
(* An answer is reduced to the features that signatures look for.          *)
(***************************************************************************)
EXTENDS Integers, Sequences, FiniteSets

CONSTANTS Hosts,
          Target,       \* the host of the URL
          Allowed,      \* hosts isValidTargetUrl accepts
          Below,        \* pairs <<h, g>> where h is a subdomain of g
          Signatures,   \* WAF_SIGNATURES: a sequence of Signature
          Answers,      \* the responses a probe may get
          Injected,     \* features the Workers runtime adds: server, cf-*
          Payloads,     \* number of attack payloads: 4 in the code
          MaxRedirects, \* 3 in the code
          None

VARIABLES phase,   \* of activeDetection, then of detectBypassOpportunities
          worker,  \* isWorker
          at,      \* the host each probe is sent to
          hops,    \* redirects each probe has followed
          pending, \* probes that have not returned
          got,     \* what each probe returned: None or a result
          verdict, \* what activeDetection returned
          chances  \* the opportunities found

vars == <<phase, worker, at, hops, pending, got, verdict, chances>>

\* Probes in the order of the results: the clean one, the payloads, /cdn-cgi.
Baseline == 0
Attacks  == 1 .. Payloads
Cdn      == Payloads + 1
Probes   == Baseline .. Cdn

\* The patterns of one product, as the features that match them.
Signature == [name : STRING, definitive : SUBSET STRING, headers : SUBSET STRING,
              codes : SUBSET STRING, cookies : SUBSET STRING, bodies : SUBSET STRING]

\* captcha: one of the three in the body; slow: more than 500 ms; location: the
\* host that the header names, if there is one.
Answer == [features : SUBSET STRING, status : STRING, captcha : BOOLEAN, slow : BOOLEAN,
           location : Hosts \cup {None}]

-----------------------------------------------------------------------------
(* detectFromResponse                                                      *)

\* Inside a Worker the headers that the runtime adds say nothing of Cloudflare.
Visible(s, a, w) ==
  a.features \ (IF w /\ s.name = "Cloudflare" THEN Injected ELSE {})

Definitive(s, a, w) == s.definitive \cap Visible(s, a, w) # {}

Confidence(s, a, w) ==
  IF Definitive(s, a, w) THEN 100
  ELSE 30 * Cardinality(s.headers \cap Visible(s, a, w))
     + 25 * Cardinality((s.cookies \cup s.bodies) \cap a.features)
     + (IF a.status \in s.codes THEN 20 ELSE 0)
     + (IF a.slow THEN 5 ELSE 0)

Evidence(s, a, w) ==
  (s.definitive \cup s.headers \cup s.cookies \cup s.bodies) \cap Visible(s, a, w)

\* The first signature of the highest confidence above 0; detected from 41 on.
DetectFrom(a, w, host) ==
  LET conf == [k \in DOMAIN Signatures |-> Confidence(Signatures[k], a, w)]
      best == {k \in DOMAIN Signatures :
                 /\ conf[k] > 0
                 /\ \A j \in DOMAIN Signatures : j < k => conf[j] < conf[k]
                 /\ \A j \in DOMAIN Signatures : conf[j] <= conf[k]}
      none == [waf |-> "Unknown", confidence |-> 0, evidence |-> {}]
      top  == IF best = {} THEN none
              ELSE LET k == CHOOSE k \in best : TRUE IN
                   [waf |-> Signatures[k].name, confidence |-> conf[k],
                    evidence |-> Evidence(Signatures[k], a, w)]
      detected == top.confidence > 40
  IN [detected |-> detected, waf |-> IF detected THEN top.waf ELSE "Unknown",
      confidence |-> top.confidence, evidence |-> top.evidence,
      captcha |-> a.captcha, host |-> host]

Undetected == [detected |-> FALSE, waf |-> "Unknown", confidence |-> 0, evidence |-> {},
               captcha |-> FALSE, host |-> Target]

-----------------------------------------------------------------------------
(* activeDetection                                                         *)

Init ==
  /\ phase = "idle" /\ worker = FALSE /\ verdict = None /\ chances = {} /\ pending = {}
  /\ at = [p \in Probes |-> Target]
  /\ hops = [p \in Probes |-> 0]
  /\ got = [p \in Probes |-> None]

\* The clean probe is sent.
Begin(w) ==
  /\ phase = "idle"
  /\ phase' = "baseline" /\ worker' = w
  /\ pending' = {Baseline}
  /\ UNCHANGED <<at, hops, got, verdict, chances>>

\* isValidTargetUrl refuses the URL: activeDetection throws.
Refuse ==
  /\ phase = "idle" /\ phase' = "thrown"
  /\ UNCHANGED <<worker, at, hops, pending, got, verdict, chances>>

\* isInScopeRedirect: the same host, or one is a subdomain of the other.
InScope(from, to) == from = to \/ <<from, to>> \in Below \/ <<to, from>> \in Below

\* Mutant: a redirect is followed wherever it leads.
FollowsAnywhere(p, a) ==
  a.status = "3xx" /\ hops[p] < MaxRedirects /\ a.location \in Allowed

\* A redirect is followed to an allowed host within the scope of the hop that
\* sent it, which need not be the target: www may lead to apex and apex to shop.
Follows(p, a) ==
  /\ a.status = "3xx" /\ hops[p] < MaxRedirects
  /\ a.location \in Allowed /\ InScope(at[p], a.location)

\* probeUrl returns r; what it held of its redirects is gone with it.
Returns(p, r) ==
  /\ got' = [got EXCEPT ![p] = r] /\ pending' = pending \ {p}
  /\ at' = [at EXCEPT ![p] = Target] /\ hops' = [hops EXCEPT ![p] = 0]

\* probeUrl: an answer that shows something ends the probe; a redirect goes on.
ProbeAnswered(p, a) ==
  LET d == DetectFrom(a, worker, at[p]) IN
  /\ p \in pending \ {Cdn}
  /\ IF d.detected \/ d.captcha
       THEN Returns(p, d)
     ELSE IF Follows(p, a)
       THEN /\ hops' = [hops EXCEPT ![p] = @ + 1]
            /\ at' = [at EXCEPT ![p] = a.location]
            /\ UNCHANGED <<got, pending>>
     ELSE Returns(p, None)
  /\ UNCHANGED <<phase, worker, verdict, chances>>

\* detectViaCdnCgi: only a 404 that Cloudflare's edge signs says something.
CdnAnswered(a) ==
  /\ Cdn \in pending
  /\ Returns(Cdn, IF a.status = "404" /\ a.features \cap Injected # {}
                    THEN [detected |-> TRUE, waf |-> "Cloudflare", confidence |-> 95,
                          evidence |-> a.features \cap Injected, captcha |-> FALSE, host |-> Target]
                    ELSE None)
  /\ UNCHANGED <<phase, worker, verdict, chances>>

\* A network error, a timeout of 10 s or a URL that cannot be read.
ProbeFails(p) ==
  /\ p \in pending
  /\ Returns(p, None)
  /\ UNCHANGED <<phase, worker, verdict, chances>>

\* A baseline of exactly 100 is returned at once: no attack is sent.
Settled ==
  /\ phase = "baseline" /\ pending = {} /\ got[Baseline] # None
  /\ got[Baseline].confidence = 100
  /\ verdict' = got[Baseline] /\ phase' = "done"
  /\ UNCHANGED <<worker, at, hops, pending, got, chances>>

\* The other probes are sent together; a Worker skips the one below /cdn-cgi.
Attack ==
  /\ phase = "baseline" /\ pending = {}
  /\ got[Baseline] # None => got[Baseline].confidence # 100
  /\ phase' = "attack"
  /\ pending' = IF worker THEN Attacks ELSE Attacks \cup {Cdn}
  /\ UNCHANGED <<worker, at, hops, got, verdict, chances>>

\* The probes with a result, which results holds in this order.
Results == {p \in Probes : got[p] # None}

\* Mutant: a captcha does not count once something better was seen.
WinsByConfidence(current, best) == current.confidence > best.confidence
\* Whether the result current replaces the best one so far.
Wins(current, best) ==
  \/ current.confidence > best.confidence
  \/ current.captcha /\ ~best.captcha

\* results.reduce
Best ==
  LET upTo[p \in Probes] ==
        IF p = Baseline THEN got[p]
        ELSE IF got[p] # None /\ (upTo[p - 1] = None \/ Wins(got[p], upTo[p - 1]))
          THEN got[p] ELSE upTo[p - 1]
  IN upTo[Cdn]

Return ==
  /\ phase = "attack" /\ pending = {}
  /\ verdict' = IF Results = {} THEN Undetected ELSE Best
  /\ phase' = "done"
  /\ UNCHANGED <<worker, at, hops, pending, got, chances>>

-----------------------------------------------------------------------------
(* detectBypassOpportunities                                               *)

Chances == {"httpMethodsBypass", "headerBypass", "encodingBypass", "parameterPollution"}

\* Four requests at once, without following redirects; TRACE counts unless it
\* is answered 405, the others if they are answered 200.
Opportunities(trace, others, failed) ==
  /\ phase = "done" /\ phase' = "reported"
  /\ chances' = IF failed THEN {}
                ELSE (IF trace # "405" THEN {"httpMethodsBypass"} ELSE {})
                     \cup {c \in Chances \ {"httpMethodsBypass"} : c \in others}
  /\ UNCHANGED <<worker, at, hops, pending, got, verdict>>

Next ==
  \/ \E w \in BOOLEAN : Begin(w)
  \/ Refuse
  \/ \E p \in Probes, a \in Answers : ProbeAnswered(p, a)
  \/ \E a \in Answers : CdnAnswered(a)
  \/ \E p \in Probes : ProbeFails(p)
  \/ Settled
  \/ Attack
  \/ Return
  \/ \E trace \in {"200", "405"}, others \in {{}, {"headerBypass"}}, failed \in BOOLEAN :
       Opportunities(trace, others, failed)

Spec == Init /\ [][Next]_vars

-----------------------------------------------------------------------------
(* Properties.                                                             *)

\* The verdict among the results: none after it is more confident or shows a
\* captcha that it lacks; one before it is more confident only if a captcha was
\* seen in between; and it lacks a captcha that was seen only if it is more
\* confident than the last result that showed one (waf-detection.ts:302-309).
VerdictStands ==
  phase = "done" /\ Results # {} =>
    \E p \in Results :
      /\ verdict = got[p]
      /\ \A q \in Results :
           /\ q > p => /\ got[q].confidence <= verdict.confidence
                       /\ got[q].captcha => verdict.captcha
           /\ got[q].confidence > verdict.confidence =>
                \E r \in Results : q < r /\ r <= p /\ got[r].captcha
           /\ got[q].captcha /\ ~verdict.captcha =>
                \/ verdict.confidence > got[q].confidence
                \/ \E r \in Results : q < r /\ r <= p /\ got[r].captcha

\* n redirects may lead from the target to the host h, each within the scope of
\* the hop before it.
LeadsTo(h, n) ==
  \E c \in [0 .. n -> Hosts] :
    /\ c[0] = Target /\ c[n] = h
    /\ \A k \in 1 .. n : c[k] \in Allowed /\ InScope(c[k - 1], c[k])

\* A result comes from a host that the target leads to, over at most MaxRedirects
\* hops of which each is a parent or a child of the one before: not from an SSO
\* provider or a CDN of another domain (waf-detection.ts:242-255). That the probe
\* stays "on the target's own domain", as the comment there says, is more than
\* this and does not hold: a sibling of the target may be reached over its parent.
ChainedAnswersOnly ==
  \A p \in Probes : got[p] # None => \E n \in 0 .. MaxRedirects : LeadsTo(got[p].host, n)

\* In a Worker, Cloudflare is named only for something the site itself sent: the
\* headers of the runtime and a status are not enough (waf-detection.ts:338-341).
WorkerSeesTarget ==
  worker /\ verdict # None /\ verdict.waf = "Cloudflare" =>
    verdict.evidence \ Injected # {}

\* What a detection keeps: its verdict is the right one of its results, they come
\* from hosts that the target leads to, and the runtime does not mislead it.
DetectionHolds == VerdictStands /\ ChainedAnswersOnly /\ WorkerSeesTarget
=============================================================================
