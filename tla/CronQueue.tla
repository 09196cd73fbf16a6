------------------------------ MODULE CronQueue ------------------------------
(***************************************************************************)
(* The order, the cap and the deadline of the daily monitoring run         *)
(* (handleScheduledCron, worker/src/handlers/schedule.ts:543-689).         *)
(* Monitor has the reads and writes of a run; here a subscription is a     *)
(* place in the order of staleness.                                        *)
(*                                                                         *)
(* queue holds the active subscriptions by ascending lastScannedAt: a      *)
(* stored scan (or a new subscription, whose baseline is its first scan)   *)
(* moves a subscription to the end.  Time is counted in units of 10 s      *)
(* within a run and in days between runs.                                  *)
(***************************************************************************)
EXTENDS Naturals, Sequences, FiniteSets, SequencesExt, Filter

CONSTANTS Subs,         \* subscriptions that may exist
          Lost,         \* those whose target is refused or whose proof is gone
          Keys,         \* the order in which list() returns the keys
          Cap,          \* MAX_SUBSCRIPTIONS_PER_RUN
          RunDeadline,  \* CRON_WALL_CLOCK_MS - CRON_SAFETY_MARGIN_MS
          Worst,        \* MAX_SUBSCRIPTION_RUN_MS
          ListMax,      \* longest listing and decryption of the records
          Times         \* how long one subscription may take

ASSUME CronAssumption ==
  /\ Lost \subseteq Subs
  /\ Cap \in Nat \ {0}
  /\ RunDeadline \in Nat /\ Worst \in Nat /\ ListMax \in 0 .. RunDeadline
  /\ Times \subseteq 0 .. Worst

VARIABLES queue,    \* the active subscriptions, stalest first
          recent,   \* those scanned less than 23 h ago
          fired,    \* whether the trigger has fired today
          running,  \* whether its run is in progress
          due,      \* what is left of the run's due list
          left,     \* candidates of the latest run it did not start on
          fresh,    \* those scanned since the latest run began
          elapsed   \* time since the run began

vars == <<queue, recent, fired, running, due, left, fresh, elapsed>>

Init ==
  /\ queue = << >> /\ recent = {}
  /\ fired = FALSE /\ running = FALSE /\ due = << >> /\ elapsed = 0
  /\ left = {} /\ fresh = {}

-----------------------------------------------------------------------------
(* Subscriptions come and go between runs; Monitor has the races.          *)

Active == ToSet(queue)

\* handleScheduleVerify stores lastScannedAt = now.
Join(s) ==
  /\ ~running /\ s \notin Active
  /\ queue' = Append(queue, s)
  /\ recent' = recent \cup {s} /\ fresh' = fresh \cup {s}
  /\ UNCHANGED <<fired, running, due, left, elapsed>>

\* handleScheduleUnsubscribe
Leave(s) ==
  /\ ~running /\ s \in Active
  /\ queue' = Keep(queue, Active \ {s})
  /\ recent' = recent \ {s} /\ fresh' = fresh \ {s}
  /\ left' = left \ {s}
  /\ UNCHANGED <<fired, running, due, elapsed>>

-----------------------------------------------------------------------------
(* A run.                                                                  *)

\* Mutant: the candidates stay in the order of the listing.
CandidatesByKey == Keep(Keys, Active \ recent)

\* The due subscriptions, the stalest first.
Candidates == Keep(queue, Active \ recent)

\* Mutant: no cap.
FirstOfAll(candidates) == candidates

\* candidates.slice(0, MAX_SUBSCRIPTIONS_PER_RUN)
FirstOf(candidates) ==
  IF Len(candidates) > Cap THEN SubSeq(candidates, 1, Cap) ELSE candidates

\* The keys are listed, and the records read and sorted.
CronBegin(t) ==
  /\ ~fired
  /\ fired' = TRUE /\ running' = TRUE
  /\ elapsed' = t
  /\ due' = FirstOf(Candidates)
  /\ left' = ToSet(Candidates) /\ fresh' = {}
  /\ UNCHANGED <<queue, recent>>

\* Mutant: a subscription may start as long as the deadline is ahead.
HasTimeToStart == elapsed <= RunDeadline

\* now() + MAX_SUBSCRIPTION_RUN_MS <= runDeadline
HasTime == elapsed + Worst <= RunDeadline

\* The run starts on the next subscription.
Take(s, t) ==
  /\ running /\ due # << >> /\ HasTime
  /\ s = Head(due)
  /\ due' = Tail(due)
  /\ left' = left \ {s}
  /\ elapsed' = elapsed + t
  /\ UNCHANGED <<fired, running>>

\* Mutant: a scanned subscription keeps its place.
RequeuedInPlace(s) == queue

\* lastScannedAt = now makes s the least stale.
Requeued(s) == Append(Keep(queue, Active \ {s}), s)

\* The target is refused, or its ownership proof is gone: the record stays as
\* it was.
CronSkip(s, t) ==
  /\ s \in Lost
  /\ Take(s, t)
  /\ UNCHANGED <<queue, recent, fresh>>

\* The scan is done and stored.
CronScan(s, t) ==
  /\ s \notin Lost
  /\ Take(s, t)
  /\ queue' = Requeued(s)
  /\ recent' = recent \cup {s} /\ fresh' = fresh \cup {s}

\* The scan or the write throws: the record stays as it was.
CronFail(s, t) ==
  /\ s \notin Lost
  /\ Take(s, t)
  /\ UNCHANGED <<queue, recent, fresh>>

\* Nothing is left of the due list, or not enough time for a worst case.
CronEnd ==
  /\ running
  /\ due = << >> \/ ~HasTime
  /\ running' = FALSE /\ due' = << >> /\ elapsed' = 0
  /\ UNCHANGED <<queue, recent, fired, left, fresh>>

\* The next day comes: 23 h have passed since every scan of the last run.  A
\* subscription that joins from here on is too recent for the next run.
DayPasses ==
  /\ fired /\ ~running
  /\ fired' = FALSE
  /\ recent' = {}
  /\ UNCHANGED <<queue, running, due, left, fresh, elapsed>>

-----------------------------------------------------------------------------
(* The specifications.                                                     *)

Listing == 0 .. ListMax

CronWork ==
  \E s \in Subs, t \in Times : CronSkip(s, t) \/ CronScan(s, t)

Run == CronWork \/ CronEnd

Traffic == \E s \in Subs : Join(s) \/ Leave(s)

Failure == \E s \in Subs, t \in Times : CronFail(s, t)

Next ==
  \/ Traffic \/ DayPasses \/ Run \/ Failure
  \/ \E t \in Listing : CronBegin(t)

Spec == Init /\ [][Next]_vars

\* The trigger fires every day, and a run that began goes on to its end.
FairSpec ==
  /\ Spec
  /\ WF_vars(DayPasses) /\ WF_vars(Run)
  /\ WF_vars(\E t \in Listing : CronBegin(t))

-----------------------------------------------------------------------------
(* Properties.                                                             *)

TypeOK ==
  /\ queue \in Seq(Subs) /\ IsInjective(queue)
  /\ recent \subseteq Active
  /\ fired \in BOOLEAN /\ running \in BOOLEAN
  /\ due \in Seq(Subs) /\ Len(due) <= Cap
  /\ left \subseteq Active /\ fresh \subseteq Active
  /\ elapsed \in 0 .. RunDeadline

\* Whatever each subscription takes, no scan is under way at the deadline, so
\* the platform never cuts one off between its result and its KV write
\* (schedule.ts:606-612).
NeverCutOff == elapsed <= RunDeadline

\* What a run left behind, for the cap or for want of time, leads the next
\* run: nothing scanned since is taken unless all of it is
\* (schedule.ts:598-601, 610).
LeftoversLead ==
  [][~running /\ running' /\ ToSet(due') \cap fresh # {} => left \subseteq ToSet(due')]_vars

\* Once scans and writes no longer fail, a subscription that stays is scanned
\* again and again: the cap is "a throughput limit rather than a permanent
\* cutoff" (schedule.ts:572-573).
NoStarvation ==
  <>[][~Failure]_vars =>
    \A s \in Subs \ Lost : []<>(s \notin Active \/ s \in recent)
=============================================================================
