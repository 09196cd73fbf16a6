----------------------------- MODULE ParallelMap -----------------------------
(***************************************************************************)
(* What mapWithConcurrency promises its caller, with no lanes and no       *)
(* counters: every item is worked on once, at most K at a time, a resolved *)
(* call has the result of every item in its place, and a call is rejected  *)
(* only by an item whose worker threw.                                     *)
(***************************************************************************)
EXTENDS Naturals, FiniteSets

CONSTANTS Items,   \* the positions of the array
          K        \* the concurrency asked for

VARIABLES running, \* items whose worker call is in flight
          done,    \* items whose own result is in place
          outcome  \* of the promise: "idle" before the call

pmvars == <<running, done, outcome>>

Init ==
  /\ running = {} /\ done = {}
  /\ outcome = "idle"

\* A set of items that were never started becomes running.
Begin(S) ==
  /\ S \cap (running \cup done) = {}
  /\ Cardinality(S) <= K

Call ==
  /\ outcome = "idle"
  /\ \E S \in SUBSET Items :
       /\ Begin(S)
       /\ running' = S
  /\ outcome' = "pending"
  /\ UNCHANGED done

\* Item i is answered; its place in the pool may go to one new item.
Advance(i) ==
  /\ i \in running
  /\ done' = done \cup {i}
  /\ \/ running' = running \ {i}
     \/ \E j \in Items \ (running \cup done) :
          running' = (running \ {i}) \cup {j}
  /\ UNCHANGED outcome

\* A place left empty (a pause after a 429) is filled.
Resume ==
  /\ \E j \in Items \ (running \cup done) : running' = running \cup {j}
  /\ Cardinality(running') <= K
  /\ UNCHANGED <<done, outcome>>

\* The worker of item i throws; the items in flight go on.
Fail(i) ==
  /\ i \in running
  /\ running' = running \ {i}
  /\ outcome' = IF outcome = "pending" THEN "rejected" ELSE outcome
  /\ UNCHANGED done

Resolve ==
  /\ outcome = "pending"
  /\ done = Items
  /\ outcome' = "resolved"
  /\ UNCHANGED <<running, done>>

Next ==
  \/ Call \/ Resume \/ Resolve
  \/ \E i \in Items : Advance(i) \/ Fail(i)

Spec == Init /\ [][Next]_pmvars
=============================================================================
