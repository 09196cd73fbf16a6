---------------------------- MODULE Fingerprint ----------------------------
(***************************************************************************)
(* The daily comparison of a monitored target: runMonitorScan (scan.ts),   *)
(* computeFingerprint and diffFingerprints (monitor.ts), and the baseline  *)
(* that schedule.ts keeps.  The target changes between scans, a detection  *)
(* may miss its WAF, and the target may be down.                           *)
(***************************************************************************)
EXTENDS Integers, Sequences, FiniteSets

CONSTANTS Wafs,
          PlanOf, \* the first page of the plan for a WAF type or None
          Items,  \* the items of all plans
          None

VARIABLES target, \* [waf, weak, up]: the items that pass with 200
          base,   \* baselineFingerprint, None without one
          basis,  \* history: the target and the detection it was taken from
          diff    \* the latest comparison: [alert, changed, since, now]

vars == <<target, base, basis, diff>>

Init ==
  /\ target = [waf |-> None, weak |-> {}, up |-> TRUE]
  /\ base = None /\ basis = None /\ diff = None

Change(t) == t # target /\ target' = t /\ UNCHANGED <<base, basis, diff>>

\* What a detection may say: nothing of a target that is down.
Detections == IF target.up THEN {target.waf, None} ELSE {None}

\* calculateAuditStats of the page that the detected type plans; of a target
\* that is down every item is an error, which is neither blocked nor passed.
Fingerprinted(d) ==
  LET plan == PlanOf[d]
      passed == IF target.up THEN Cardinality({n \in DOMAIN plan : plan[n] \in target.weak}) ELSE 0
  IN [waf |-> d, bypassed |-> passed, total |-> Len(plan),
      blocked |-> IF target.up THEN Len(plan) - passed ELSE 0]

\* Mutant: as many bypasses as before raise an alert.
DiffEager(old, new) ==
  [alert |-> old.waf # new.waf \/ new.bypassed >= old.bypassed, changed |-> old # new]

Diff(old, new) ==
  [alert |-> old.waf # new.waf \/ new.bypassed > old.bypassed, changed |-> old # new]

\* The first scan of a record only sets the baseline; every later one compares
\* and replaces it.
Scan(d) ==
  LET fp == Fingerprinted(d)
      now == [target |-> target, detection |-> d]
  IN
  /\ d \in Detections
  /\ base' = fp /\ basis' = now
  /\ diff' = IF base = None THEN None
             ELSE [result |-> Diff(base, fp), since |-> basis, now |-> now]
  /\ UNCHANGED target

Next ==
  \/ \E w \in Wafs \cup {None}, weak \in SUBSET Items, up \in BOOLEAN :
       Change([waf |-> w, weak |-> weak, up |-> up])
  \/ \E d \in Wafs \cup {None} : Scan(d)

Spec == Init /\ [][Next]_vars

-----------------------------------------------------------------------------

Passing(b) == {n \in DOMAIN PlanOf[b.detection] : PlanOf[b.detection][n] \in b.target.weak}

\* An alert has a cause (scan.ts:17-20): the detection came out otherwise, the
\* target was down for the earlier scan, or an item of the same plan passes
\* that did not.  No alert means that the same plan lets no more items pass,
\* and a target that did not change compares equal.
AlertHasACause ==
  diff # None =>
    LET a == diff.since
        b == diff.now
    IN
    /\ diff.result.alert =>
         \/ a.detection # b.detection
         \/ ~a.target.up
         \/ b.target.up /\ Passing(b) \ Passing(a) # {}
    /\ ~diff.result.alert /\ a.target.up /\ b.target.up =>
         a.detection = b.detection /\ Cardinality(Passing(b)) <= Cardinality(Passing(a))
    /\ a = b => ~diff.result.changed
=============================================================================
