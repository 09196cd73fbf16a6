----------------------------- MODULE RateLimit -----------------------------
(***************************************************************************)
(* checkRateLimit (worker/src/services/rate-limiter.ts): a fixed window    *)
(* whose counter and start are one value in KV.  The clock is read, then   *)
(* the value, which is written back in a call of its own, so requests      *)
(* overlap; either call may fail, and the request is then let through.     *)
(***************************************************************************)
EXTENDS Integers, FiniteSets

CONSTANTS Requests,    \* calls with the same key
          MaxAttempts, \* maxAttempts
          Window,      \* windowSeconds
          Floor,       \* the least time to live of KV, 60 seconds
          MaxTime,     \* bound: the clock
          Absent, Legacy

VARIABLES clock,   \* Date.now(), in seconds
          stored,  \* the value of the key: Absent, Legacy or [count, windowStart]
          expires, \* when KV drops it
          call     \* the requests

vars == <<clock, stored, expires, call>>

Waiting == [phase |-> "new", count |-> 0, start |-> 0, at |-> 0, counted |-> FALSE]

\* Legacy: the plain counter that an earlier version of the code left.
Init ==
  /\ clock = 0 /\ expires = MaxTime + 1
  /\ stored = Legacy
  /\ call = [r \in Requests |-> Waiting]

Value == IF clock >= expires THEN Absent ELSE stored

Tick == clock < MaxTime /\ clock' = clock + 1 /\ UNCHANGED <<stored, expires, call>>

\* The time of a request is taken before it waits for KV.
Begin(r) ==
  /\ call[r].phase = "new"
  /\ call' = [call EXCEPT ![r].phase = "get", ![r].at = clock]
  /\ UNCHANGED <<clock, stored, expires>>

\* Mutant: the window starts over with every request.
CurrentSliding(at) ==
  IF Value \in {Absent, Legacy} THEN [count |-> 0, windowStart |-> at]
  ELSE [Value EXCEPT !.windowStart = at]

\* What the window is for a request that began at: a new one when there is none
\* to read or the one read is over.  The one read may have begun after at.
Current(at) ==
  IF Value \in {Absent, Legacy} THEN [count |-> 0, windowStart |-> at]
  ELSE IF at - Value.windowStart >= Window THEN [count |-> 0, windowStart |-> at]
  ELSE Value

\* kv.get answers.
Read(r) ==
  LET state == Current(call[r].at) IN
  /\ call[r].phase = "get"
  /\ call' = [call EXCEPT ![r].phase = IF state.count >= MaxAttempts THEN "denied" ELSE "write",
                         ![r].count = state.count, ![r].start = state.windowStart]
  /\ UNCHANGED <<clock, stored, expires>>

Larger(a, b) == IF a > b THEN a ELSE b

\* kv.put, with the time to live that was left when the request began.
Write(r) ==
  /\ call[r].phase = "write"
  /\ call' = [call EXCEPT ![r].phase = "allowed", ![r].counted = TRUE]
  /\ stored' = [count |-> call[r].count + 1, windowStart |-> call[r].start]
  /\ expires' = clock + Larger(Floor, Window - (call[r].at - call[r].start))
  /\ UNCHANGED clock

\* get or put throws: the request passes and is not counted.
Fails(r) ==
  /\ call[r].phase \in {"get", "write"}
  /\ call' = [call EXCEPT ![r].phase = "allowed"]
  /\ UNCHANGED <<clock, stored, expires>>

Next ==
  \/ Tick
  \/ \E r \in Requests : Begin(r) \/ Read(r) \/ Write(r) \/ Fails(r)

Spec == Init /\ [][Next]_vars

-----------------------------------------------------------------------------

TypeOK ==
  /\ clock \in 0 .. MaxTime
  /\ \A r \in Requests : call[r].phase \in {"new", "get", "write", "allowed", "denied"}

CountedSince(start) == {r \in Requests : call[r].counted /\ call[r].start = start}

\* However requests overlap and storage fails, the stored count never exceeds
\* the requests let through and written in its window (rate-limiter.ts:8-18,
\* 53): a call is refused only when maxAttempts went through since a start that
\* is less than a window ago.  The window cannot slide and lock callers out.
RefusalIsDeserved ==
  /\ stored \notin {Absent, Legacy} => Cardinality(CountedSince(stored.windowStart)) >= stored.count
  /\ \A r \in Requests : call[r].phase = "denied" =>
       /\ Cardinality(CountedSince(call[r].start)) >= MaxAttempts
       /\ call[r].at - call[r].start < Window
=============================================================================
