----------------------------- MODULE MCProbing -----------------------------
(***************************************************************************)
(* What is sent to a target: Attack with WafDetection and                  *)
(* ReverseEngineering, whose probes are answered in any order.  A          *)
(* behaviour is one of the component that part names; the others stay as   *)
(* they began.                                                             *)
(***************************************************************************)
EXTENDS Attack, Sequences

CONSTANTS apex, www, shop, other, inner,
          Signatures, Answers, Injected, Payloads, DetectionRedirects,
          Rules, Bounds, Stages, None

\* The paddings of the search grow, and a status of a rule is no None.
ASSUME AuditAssumption ==
  /\ Rules \in Nat
  /\ Bounds \in Seq(Nat \ {0}) /\ Bounds # << >>
  /\ \A j, k \in DOMAIN Bounds : j < k => Bounds[j] < Bounds[k]
  /\ None \notin Nat /\ None \notin {"active", "disabled", "unknown", "anomaly_scoring"}

VARIABLES part,
          phase, worker, at, followed, pending, got, verdict, chances,
          auditPhase, skip, index, lane, items, body, score, rate, summary

Detection == INSTANCE WafDetection WITH hops <- followed, MaxRedirects <- DetectionRedirects
Reverse   == INSTANCE ReverseEngineering WITH phase <- auditPhase

\* The runtime adds headers only: no cookie and no body that a signature looks for.
ASSUME DetectionAssumption ==
  /\ Payloads \in Nat /\ DetectionRedirects \in Nat
  /\ Signatures \in Seq(Detection!Signature) /\ Answers \subseteq Detection!Answer
  /\ \A k \in DOMAIN Signatures :
       /\ IsFiniteSet(Signatures[k].headers)
       /\ IsFiniteSet(Signatures[k].cookies \cup Signatures[k].bodies)
       /\ (Signatures[k].cookies \cup Signatures[k].bodies) \cap Injected = {}

wafVars == <<phase, worker, at, followed, pending, got, verdict, chances>>
reVars  == <<auditPhase, skip, index, lane, items, body, score, rate, summary>>
allVars == <<part, vars, wafVars, reVars>>

ProbingInit ==
  /\ part \in {"attack", "detection", "reverse"}
  /\ Init /\ Detection!Init /\ Reverse!Init

ProbingNext ==
  \/ part = "attack" /\ Next /\ UNCHANGED <<part, wafVars, reVars>>
  \/ part = "detection" /\ Detection!Next /\ UNCHANGED <<part, vars, reVars>>
  \/ part = "reverse" /\ Reverse!Next /\ UNCHANGED <<part, vars, wafVars>>

\* FairSpec of Attack.
ProbingSpec ==
  ProbingInit /\ [][ProbingNext]_allVars /\ WF_vars(part = "attack" /\ Next)

-----------------------------------------------------------------------------
(* The inputs of each component.                                           *)

\* www, shop and inner are subdomains of apex, and inner is no allowed target, as a
\* name of a private network is not; other is unrelated to them.
MCBelow == {<<www, apex>>, <<shop, apex>>, <<inner, apex>>}

\* A product found by its edge and by its answers, and one by a header of its own.
Signed(name, definitive, headers, cookies, bodies) ==
  [name |-> name, definitive |-> definitive, headers |-> headers, codes |-> {"403"},
   cookies |-> cookies, bodies |-> bodies]
MCSignatures ==
  << Signed("Cloudflare", {}, {"server", "cf-ray"}, {"clearance"}, {"ray-id"}),
     Signed("BunkerWeb", {"bunker"}, {"bunker"}, {}, {}) >>
Seen(features, status, captcha, location) ==
  [features |-> features, status |-> status, captcha |-> captcha, slow |-> FALSE,
   location |-> location]
MCAnswers ==
  { Seen({}, "200", FALSE, None), Seen({}, "200", TRUE, None),
    Seen({"server", "cf-ray"}, "404", FALSE, None), Seen({"server", "ray-id"}, "403", FALSE, None),
    Seen({"bunker"}, "200", FALSE, None) }
  \cup { Seen({}, "3xx", FALSE, h) : h \in {apex, shop, other, inner} }

\* Two paddings of the coarse search, which has five from 8 KB on in the code, and
\* two of the four stages of the ramp-up.
MCBounds == <<2, 4>>
MCStages == <<5, 10>>

-----------------------------------------------------------------------------
(* Properties of the components.                                           *)

\* Every attack comes to its end; the other components are not attacks
\* (check.ts:68-75).
AttackSettles == part = "attack" => Settles

\* A detection returns the right one of its results, taken from hosts that the
\* target leads to and not misled by the runtime (waf-detection.ts:242-341).
DetectionHolds == part = "detection" => Detection!DetectionHolds

\* What an audit reports was measured, in whatever order the probes are answered
\* (reverse-engineering/index.ts:28-141).
AuditIsGrounded == part = "reverse" => Reverse!AuditIsGrounded
=============================================================================
