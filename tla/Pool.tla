-------------------------------- MODULE Pool --------------------------------
(***************************************************************************)
(* mapWithConcurrency (core/src/utils/concurrency.ts): the pool of lanes   *)
(* that runs the items of one scan page.                                   *)
(*                                                                         *)
(* The lanes share nextIndex and maxAllowedLanes and run on one thread:    *)
(* what a lane does between two awaits is one action.  The result of item  *)
(* i is represented by i itself, so results[i] = i says that the result of *)
(* items[i] is where the caller looks for it.                              *)
(***************************************************************************)
EXTENDS Integers, FiniteSets

CONSTANTS N,            \* items.length
          Concurrency   \* opts.concurrency, floored

ASSUME PoolAssumption == N \in Nat /\ Concurrency \in Nat

VARIABLES nextIndex, maxAllowedLanes, results,
          pc, currentIdx,   \* of each lane
          outcome,          \* of the promise the caller awaits
          limitedAt         \* nextIndex when maxAllowedLanes was last lowered

shared == <<nextIndex, maxAllowedLanes, results>>
vars   == <<shared, pc, currentIdx, outcome, limitedAt>>

InitialConcurrency == IF Concurrency = 0 THEN 1 ELSE Concurrency
PoolSize == IF InitialConcurrency < N THEN InitialConcurrency ELSE N

Items == 0 .. N - 1
Lanes == 0 .. PoolSize - 1
Hole  == -1   \* a slot of results that was not assigned

Init ==
  /\ nextIndex = 0
  /\ maxAllowedLanes = InitialConcurrency
  /\ results = [i \in Items |-> Hole]
  /\ pc = [l \in Lanes |-> "new"]
  /\ currentIdx = [l \in Lanes |-> 0]
  /\ outcome = "idle"
  /\ limitedAt = 0

-----------------------------------------------------------------------------
\* Promise.all(Array.from(...)): every lane runs up to its first worker call
\* before any of them is answered, so lane l takes item l.
Start ==
  /\ outcome = "idle"
  /\ outcome' = "pending"
  /\ pc' = [l \in Lanes |-> "work"]
  /\ currentIdx' = [l \in Lanes |-> l]
  /\ nextIndex' = PoolSize
  /\ UNCHANGED <<maxAllowedLanes, results, limitedAt>>

\* Mutant: no lane is spared.
RetiresAny(l, max) == l + 1 >= max

\* Mutant: a lane never looks at the lowered limit.
RetiresNever(l, max) == FALSE

\* The lane's ID is above the stepped-down target; lane 0 always stays.
Retires(l, max) == l > 0 /\ l >= max

\* Mutant: the shared counter is read again after the await.
SlotReread(l) == nextIndex - 1

\* Where the answer of lane l goes.
Slot(l) == currentIdx[l]

\* Mutant: the counter is advanced only after the worker answered.
ClaimsLate(next) == next

\* nextIndex++
Claims(next) == next + 1

\* The head of the lane's loop, down to its next worker call.
Proceed(l) ==
  \/ /\ nextIndex < N
     /\ ~Retires(l, maxAllowedLanes')
     /\ pc' = [pc EXCEPT ![l] = "work"]
     /\ currentIdx' = [currentIdx EXCEPT ![l] = nextIndex]
     /\ nextIndex' = Claims(nextIndex)
  \/ /\ nextIndex >= N \/ Retires(l, maxAllowedLanes')
     /\ pc' = [pc EXCEPT ![l] = "done"]
     /\ UNCHANGED <<currentIdx, nextIndex>>

\* Mutant: nothing keeps the limit above zero.
HalvedToZero(max) == max \div 2

\* Math.max(1, Math.floor(max / 2))
Halved(max) == IF max < 2 THEN 1 ELSE max \div 2

\* The worker answers, and the answer is not a 429.
Answer(l) ==
  /\ pc[l] = "work"
  /\ results' = [results EXCEPT ![Slot(l)] = currentIdx[l]]
  /\ UNCHANGED <<maxAllowedLanes, outcome, limitedAt>>
  /\ Proceed(l)

\* The answer is a 429: the limit is halved, and the lane pauses when
\* opts.backoffMs is positive.  Either may happen here, which covers the calls
\* with a pause and the calls without.
AnswerLimited(l) ==
  /\ pc[l] = "work"
  /\ results' = [results EXCEPT ![Slot(l)] = currentIdx[l]]
  /\ maxAllowedLanes' = Halved(maxAllowedLanes)
  /\ limitedAt' = IF Halved(maxAllowedLanes) = maxAllowedLanes
                     THEN limitedAt ELSE nextIndex
  /\ UNCHANGED outcome
  /\ \/ /\ pc' = [pc EXCEPT ![l] = "pause"]
        /\ UNCHANGED <<currentIdx, nextIndex>>
     \/ Proceed(l)

\* backoffMs have passed.
Wake(l) ==
  /\ pc[l] = "pause"
  /\ UNCHANGED <<maxAllowedLanes, results, outcome, limitedAt>>
  /\ Proceed(l)

\* The worker throws: Promise.all rejects at once, the other lanes go on.
Throw(l) ==
  /\ pc[l] = "work"
  /\ pc' = [pc EXCEPT ![l] = "dead"]
  /\ outcome' = IF outcome = "pending" THEN "rejected" ELSE outcome
  /\ UNCHANGED <<shared, currentIdx, limitedAt>>

\* Mutant: the call returns with the first lane (Promise.race).
ResolveFirst ==
  /\ outcome = "pending"
  /\ \E l \in Lanes : pc[l] = "done"
  /\ outcome' = "resolved"
  /\ UNCHANGED <<shared, pc, currentIdx, limitedAt>>

\* All lanes have returned; with no items there are none.
Resolve ==
  /\ outcome = "pending"
  /\ \A l \in Lanes : pc[l] = "done"
  /\ outcome' = "resolved"
  /\ UNCHANGED <<shared, pc, currentIdx, limitedAt>>

LaneStep(l) == Answer(l) \/ AnswerLimited(l) \/ Wake(l) \/ Throw(l)

Next == Start \/ Resolve \/ \E l \in Lanes : LaneStep(l)

Spec == Init /\ [][Next]_vars

\* A worker call always settles (sendRequest aborts after 10 s), timers fire
\* and the event loop runs what is ready.
FairSpec ==
  /\ Spec
  /\ WF_vars(Start) /\ WF_vars(Resolve)
  /\ \A l \in Lanes : WF_vars(LaneStep(l))

-----------------------------------------------------------------------------
(* Properties.                                                             *)

TypeOK ==
  /\ nextIndex \in 0 .. N
  /\ maxAllowedLanes \in 1 .. InitialConcurrency
  /\ results \in [Items -> Items \cup {Hole}]
  /\ pc \in [Lanes -> {"new", "work", "pause", "done", "dead"}]
  /\ currentIdx \in [Lanes -> 0 .. N]
  /\ outcome \in {"idle", "pending", "resolved", "rejected"}
  /\ limitedAt \in 0 .. N

Holds(l, i) == pc[l] \in {"work", "dead"} /\ currentIdx[l] = i

\* Every index handed out is in exactly one place: with one lane (still
\* working, or stopped by a throw) or answered in its own slot.
EachItemOnce ==
  \A i \in Items :
    /\ i >= nextIndex => results[i] = Hole /\ \A l \in Lanes : ~Holds(l, i)
    /\ i < nextIndex =>
         \/ results[i] = i /\ \A l \in Lanes : ~Holds(l, i)
         \/ results[i] = Hole /\ \E l \in Lanes :
              \A k \in Lanes : Holds(k, i) <=> k = l

\* Of the items taken since the limit was last lowered, no more than the new
\* limit are ever in flight (concurrency.ts:8-10: "active worker lanes above
\* the stepped-down target gracefully park or exit").
ThrottleHolds ==
  Cardinality({l \in Lanes : pc[l] = "work" /\ currentIdx[l] >= limitedAt})
    <= maxAllowedLanes

\* A resolved call left no hole, whatever the lanes retired: results[i] is the
\* result of items[i] for every i (concurrency.ts:5-6).
ResolvedIsComplete == outcome = "resolved" => \A i \in Items : results[i] = i

\* The promise settles, however many 429s lower the limit: "lane 0 always
\* stays active so progress is guaranteed" (concurrency.ts:46).
Settles == outcome = "idle" ~> outcome \in {"resolved", "rejected"}

\* The promise to the caller.
PM == INSTANCE ParallelMap WITH
        K <- InitialConcurrency,
        running <- {currentIdx[l] : l \in {k \in Lanes : pc[k] = "work"}},
        done <- {i \in Items : results[i] = i}

ImplementsParallelMap == PM!Spec
=============================================================================
