----------------------------- MODULE MCService -----------------------------
(***************************************************************************)
(* What the worker does over time: CronQueue with Fingerprint, the         *)
(* comparison each of its scans ends in, and RateLimit, which guards the   *)
(* handlers that feed the queue.  A behaviour is one of the component that *)
(* part names; the others stay as they began.                              *)
(***************************************************************************)
EXTENDS CronQueue

CONSTANTS s1, s2, s3, s4, s5,
          Requests, MaxAttempts, Window, Floor, MaxTime, Absent, Legacy,
          Wafs, PlanOf, Items, None

\* What is limited and planned: a window holds at least one call, and a plan is
\* a list of items.
ASSUME ServiceAssumption ==
  /\ MaxAttempts \in Nat \ {0} /\ Window \in Nat \ {0}
  /\ Floor \in Nat /\ MaxTime \in Nat
  /\ IsFiniteSet(Requests)
  /\ \A d \in Wafs \cup {None} : PlanOf[d] \in Seq(Items)

VARIABLES part,
          clock, stored, expires, call,
          target, base, basis, diff

Limiter == INSTANCE RateLimit
Daily   == INSTANCE Fingerprint

limitVars == <<clock, stored, expires, call>>
dailyVars == <<target, base, basis, diff>>
allVars   == <<part, vars, limitVars, dailyVars>>

ServiceInit ==
  /\ part \in {"cron", "limit", "daily"}
  /\ Init /\ Limiter!Init /\ Daily!Init

ServiceNext ==
  \/ part = "cron" /\ Next /\ UNCHANGED <<part, limitVars, dailyVars>>
  \/ part = "limit" /\ Limiter!Next /\ UNCHANGED <<part, vars, dailyVars>>
  \/ part = "daily" /\ Daily!Next /\ UNCHANGED <<part, vars, limitVars>>

\* FairSpec of CronQueue.
ServiceSpec ==
  /\ ServiceInit /\ [][ServiceNext]_allVars
  /\ WF_vars(part = "cron" /\ DayPasses)
  /\ WF_vars(part = "cron" /\ Run)
  /\ WF_vars(part = "cron" /\ \E t \in Listing : CronBegin(t))

-----------------------------------------------------------------------------
(* The inputs of each component.                                           *)

\* The listing is in key order, which has nothing to do with staleness.
MCKeys == <<s1, s2, s3, s4, s5>>

\* A detected WAF puts an item of its own in the place of a general one.
MCPlans == [w \in Wafs \cup {None} |-> IF w = None THEN <<1, 2>> ELSE <<1, 3>>]

-----------------------------------------------------------------------------
(* Properties of the components.                                           *)

\* A caller is refused only after maxAttempts calls that went through in a window
\* that is not over, and an alert about a target has a cause
\* (rate-limiter.ts:20-62, monitor.ts:24-48, scan.ts:17-66).
ServiceHolds ==
  /\ part = "limit" => Limiter!RefusalIsDeserved
  /\ part = "daily" => Daily!AlertHasACause
=============================================================================
