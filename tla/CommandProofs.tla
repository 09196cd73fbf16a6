--------------------------- MODULE CommandProofs ---------------------------
(***************************************************************************)
(* Proofs about what the command line runs: the pool of lanes, for any     *)
(* number of items, any concurrency and any pattern of 429s and throws,    *)
(* and the commands, for any scans, options, files and number of lanes.    *)
(*                                                                         *)
(* Inv strengthens EachItemOnce: it adds which lanes may still be at work  *)
(* under the lowered limit and that lane 0 leaves only when nothing is     *)
(* left, which is what makes a resolved call complete.  CliInv adds to     *)
(* the promises of a command what each step has left in files and lists.   *)
(***************************************************************************)
EXTENDS MCCommand, SequenceTheorems, FiniteSetTheorems, TLAPS

Busy(l) == pc[l] \in {"work", "dead"}

\* Where every item is.
ItemInv ==
  /\ \A l \in Lanes : Busy(l) =>
       /\ currentIdx[l] \in Items /\ currentIdx[l] < nextIndex
       /\ results[currentIdx[l]] = Hole
  /\ \A l, k \in Lanes :
       Busy(l) /\ Busy(k) /\ currentIdx[l] = currentIdx[k] => l = k
  /\ \A i \in Items :
       /\ results[i] \in {i, Hole}
       /\ i >= nextIndex => results[i] = Hole
       /\ i < nextIndex =>
            results[i] = i \/ \E l \in Lanes : Busy(l) /\ currentIdx[l] = i

\* Where every lane is.
LaneInv ==
  /\ outcome = "idle" =>
       /\ nextIndex = 0 /\ maxAllowedLanes = InitialConcurrency
       /\ \A l \in Lanes : pc[l] = "new"
  /\ outcome # "idle" => \A l \in Lanes : pc[l] # "new"
  /\ outcome \in {"pending", "resolved"} => \A l \in Lanes : pc[l] # "dead"
  /\ outcome = "resolved" => \A l \in Lanes : pc[l] = "done"
  /\ outcome # "idle" /\ Lanes = {} => nextIndex = N
  /\ 0 \in Lanes /\ pc[0] = "done" => nextIndex = N

\* Who may work on an item taken since the limit was lowered.
LimitInv ==
  \A l \in Lanes :
    pc[l] = "work" /\ currentIdx[l] >= limitedAt => l < maxAllowedLanes

Inv == TypeOK /\ ItemInv /\ LaneInv /\ LimitInv

-----------------------------------------------------------------------------
(* Arithmetic of the constants.                                            *)

\* The pool is never larger than the array or the concurrency asked for, and
\* it is empty only for an empty array.
LEMMA PoolBounds ==
  /\ InitialConcurrency \in Nat /\ InitialConcurrency >= 1
  /\ PoolSize \in Nat /\ PoolSize <= N /\ PoolSize <= InitialConcurrency
  /\ N \in Nat /\ (PoolSize = 0 => N = 0)
BY PoolAssumption DEF InitialConcurrency, PoolSize

\* Halving never raises the limit and never reaches zero.
LEMMA HalvedBounds ==
  ASSUME NEW m \in 1 .. InitialConcurrency
  PROVE  Halved(m) \in 1 .. InitialConcurrency /\ Halved(m) <= m
BY PoolBounds DEF Halved

-----------------------------------------------------------------------------
(* The inductive invariant.                                                *)

\* The invariant holds before the call.
LEMMA InvInit == Init => Inv
<1> SUFFICES ASSUME Init PROVE Inv
  OBVIOUS
<1> USE PoolBounds
<1>1. TypeOK
  BY DEF Init, TypeOK, Items, Lanes, Hole
<1>2. ItemInv
  BY DEF Init, ItemInv, Items, Lanes, Hole, Busy
<1>3. LaneInv
  BY DEF Init, LaneInv, Lanes
<1>4. LimitInv
  BY DEF Init, LimitInv
<1> QED
  BY <1>1, <1>2, <1>3, <1>4 DEF Inv

\* What a lane does after an answer or a pause keeps the invariant, whatever
\* the answer did to the limit.
LEMMA ProceedKeeps ==
  ASSUME Inv, NEW l \in Lanes, pc[l] \in {"work", "pause"}, Proceed(l),
         maxAllowedLanes' \in 1 .. InitialConcurrency,
         maxAllowedLanes' <= maxAllowedLanes,
         limitedAt' = IF maxAllowedLanes' = maxAllowedLanes
                        THEN limitedAt ELSE nextIndex,
         results' = IF pc[l] = "work"
                      THEN [results EXCEPT ![currentIdx[l]] = currentIdx[l]]
                      ELSE results,
         UNCHANGED outcome
  PROVE  Inv'
<1> USE PoolBounds
<1>1. TypeOK /\ ItemInv /\ LaneInv /\ LimitInv
  BY DEF Inv
<1>2. nextIndex \in Nat /\ nextIndex' \in nextIndex .. N
      /\ limitedAt \in Nat /\ maxAllowedLanes \in Nat
  BY <1>1 DEF TypeOK, Proceed, Claims
<1>3. pc[l] = "work" => currentIdx[l] \in Items /\ currentIdx[l] < nextIndex
  BY <1>1 DEF ItemInv, Busy
<1>4. \A k \in Lanes : k # l => pc'[k] = pc[k] /\ currentIdx'[k] = currentIdx[k]
  BY <1>1 DEF TypeOK, Proceed
<1>7. /\ results' \in [Items -> Items \cup {Hole}]
      /\ \A i \in Items :
           results'[i] = IF pc[l] = "work" /\ currentIdx[l] = i
                           THEN i ELSE results[i]
  <2>1. CASE pc[l] = "work"
    BY <1>1, <1>3, <2>1 DEF TypeOK
  <2>2. CASE pc[l] = "pause"
    BY <1>1, <2>2 DEF TypeOK
  <2> QED
    BY <2>1, <2>2
<1>8. TypeOK'
  <2>1. nextIndex' \in 0 .. N /\ limitedAt' \in 0 .. N
    BY <1>1, <1>2 DEF TypeOK
  <2>2. /\ pc' \in [Lanes -> {"new", "work", "pause", "done", "dead"}]
        /\ currentIdx' \in [Lanes -> 0 .. N]
    BY <1>1 DEF TypeOK, Proceed
  <2> QED
    BY <1>1, <1>7, <2>1, <2>2 DEF TypeOK
<1>9. \A k \in Lanes : Busy(k) /\ k # l =>
        /\ currentIdx[k] \in Items /\ currentIdx[k] < nextIndex
        /\ results'[currentIdx[k]] = Hole
  <2> SUFFICES ASSUME NEW k \in Lanes, Busy(k), k # l
               PROVE  /\ currentIdx[k] \in Items /\ currentIdx[k] < nextIndex
                      /\ results'[currentIdx[k]] = Hole
    OBVIOUS
  <2>1. /\ currentIdx[k] \in Items /\ currentIdx[k] < nextIndex
        /\ results[currentIdx[k]] = Hole
    BY <1>1 DEF ItemInv
  <2>2. ~(pc[l] = "work" /\ currentIdx[l] = currentIdx[k])
    BY <1>1 DEF ItemInv, Busy
  <2> QED
    BY <2>1, <2>2, <1>7
<1>5. CASE nextIndex < N /\ ~Retires(l, maxAllowedLanes')
  <2>1. /\ pc'[l] = "work" /\ currentIdx'[l] = nextIndex
        /\ nextIndex' = nextIndex + 1
    BY <1>1, <1>5 DEF TypeOK, Proceed, Claims
  <2>2. ItemInv'
    <3>1. \A k \in Lanes : Busy(k)' =>
            /\ currentIdx'[k] \in Items /\ currentIdx'[k] < nextIndex'
            /\ results'[currentIdx'[k]] = Hole
      <4>1. nextIndex \in Items /\ results'[nextIndex] = Hole
        BY <1>1, <1>2, <1>3, <1>5, <1>7 DEF ItemInv, Items
      <4> QED
        BY <1>2, <1>4, <1>9, <2>1, <4>1 DEF Busy, Items
    <3>2. \A j, k \in Lanes :
            Busy(j)' /\ Busy(k)' /\ currentIdx'[j] = currentIdx'[k] => j = k
      <4>1. \A k \in Lanes : k # l /\ Busy(k)' => Busy(k) /\ currentIdx'[k] # nextIndex
        BY <1>2, <1>4, <1>9 DEF Busy, Items
      <4> QED
        BY <1>1, <1>4, <2>1, <4>1 DEF ItemInv
    <3>3. ASSUME NEW i \in Items
          PROVE  /\ results'[i] \in {i, Hole}
                 /\ i >= nextIndex' => results'[i] = Hole
                 /\ i < nextIndex' => results'[i] = i
                      \/ \E k \in Lanes : Busy(k)' /\ currentIdx'[k] = i
      <4>1. results'[i] \in {i, Hole} /\ (i >= nextIndex' => results'[i] = Hole)
        BY <1>1, <1>2, <1>3, <1>7, <2>1 DEF ItemInv, Items
      <4>2. i = nextIndex => Busy(l)' /\ currentIdx'[l] = i
        BY <2>1 DEF Busy
      <4>3. ASSUME i < nextIndex
            PROVE  results'[i] = i
                   \/ \E k \in Lanes : Busy(k)' /\ currentIdx'[k] = i
        <5>1. CASE pc[l] = "work" /\ currentIdx[l] = i
          BY <1>7, <5>1
        <5>2. CASE ~(pc[l] = "work" /\ currentIdx[l] = i)
          <6>1. results'[i] = results[i]
            BY <1>7, <5>2
          <6>2. ASSUME NEW k \in Lanes, Busy(k), currentIdx[k] = i
                PROVE  Busy(k)' /\ currentIdx'[k] = i
            BY <5>2, <6>2, <1>4 DEF Busy
          <6> QED
            BY <1>1, <4>3, <6>1, <6>2 DEF ItemInv
        <5> QED
          BY <5>1, <5>2
      <4> QED
        BY <1>2, <2>1, <4>1, <4>2, <4>3 DEF Items
    <3> QED
      BY <3>1, <3>2, <3>3 DEF ItemInv
  <2>3. LaneInv'
    BY <1>1, <1>2, <1>4, <1>5, <2>1 DEF LaneInv, TypeOK
  <2>4. LimitInv'
    BY <1>1, <1>2, <1>4, <1>5, <2>1
       DEF LimitInv, TypeOK, Retires, Lanes, ItemInv, Busy
  <2> QED
    BY <1>8, <2>2, <2>3, <2>4 DEF Inv
<1>6. CASE nextIndex >= N \/ Retires(l, maxAllowedLanes')
  <2>1. pc'[l] = "done" /\ currentIdx' = currentIdx /\ nextIndex' = nextIndex
    BY <1>1, <1>2, <1>6 DEF TypeOK, Proceed
  <2>2. ItemInv'
    <3>1. \A k \in Lanes : Busy(k)' =>
            /\ currentIdx'[k] \in Items /\ currentIdx'[k] < nextIndex'
            /\ results'[currentIdx'[k]] = Hole
      <4>1. \A k \in Lanes : Busy(k)' => k # l /\ Busy(k)
        BY <1>4, <2>1 DEF Busy
      <4> QED
        BY <1>9, <2>1, <4>1
    <3>2. \A j, k \in Lanes :
            Busy(j)' /\ Busy(k)' /\ currentIdx'[j] = currentIdx'[k] => j = k
      BY <1>1, <1>4, <2>1 DEF ItemInv, Busy
    <3>3. ASSUME NEW i \in Items
          PROVE  /\ results'[i] \in {i, Hole}
                 /\ i >= nextIndex' => results'[i] = Hole
                 /\ i < nextIndex' => results'[i] = i
                      \/ \E k \in Lanes : Busy(k)' /\ currentIdx'[k] = i
      <4>1. results'[i] \in {i, Hole} /\ (i >= nextIndex' => results'[i] = Hole)
        BY <1>1, <1>2, <1>3, <1>7, <2>1 DEF ItemInv, Items
      <4>2. ASSUME i < nextIndex
            PROVE  results'[i] = i
                   \/ \E k \in Lanes : Busy(k)' /\ currentIdx'[k] = i
        <5>1. CASE pc[l] = "work" /\ currentIdx[l] = i
          BY <1>7, <5>1
        <5>2. CASE ~(pc[l] = "work" /\ currentIdx[l] = i)
          <6>1. results'[i] = results[i]
            BY <1>7, <5>2
          <6>2. ASSUME NEW k \in Lanes, Busy(k), currentIdx[k] = i
                PROVE  Busy(k)' /\ currentIdx'[k] = i
            BY <5>2, <6>2, <1>4, <2>1 DEF Busy
          <6> QED
            BY <1>1, <4>2, <6>1, <6>2 DEF ItemInv
        <5> QED
          BY <5>1, <5>2
      <4> QED
        BY <2>1, <4>1, <4>2
    <3> QED
      BY <3>1, <3>2, <3>3 DEF ItemInv
  <2>3. LaneInv'
    <3>1. l = 0 => nextIndex = N
      BY <1>2, <1>6 DEF Retires
    <3>2. outcome \notin {"idle", "resolved"}
      BY <1>1 DEF LaneInv
    <3>3. 0 \in Lanes /\ pc'[0] = "done" => nextIndex' = N
      BY <1>1, <1>4, <2>1, <3>1 DEF LaneInv
    <3> QED
      BY <1>1, <1>4, <2>1, <3>2, <3>3 DEF LaneInv
  <2>4. LimitInv'
    BY <1>1, <1>2, <1>4, <1>6, <2>1
       DEF LimitInv, TypeOK, Lanes, ItemInv, Busy
  <2> QED
    BY <1>8, <2>2, <2>3, <2>4 DEF Inv
<1> QED
  BY <1>5, <1>6 DEF Proceed

\* Every step keeps the invariant.
LEMMA InvStep == Inv /\ [Next]_vars => Inv'
<1> SUFFICES ASSUME Inv, [Next]_vars PROVE Inv'
  OBVIOUS
<1> USE PoolBounds
<1>1. TypeOK /\ ItemInv /\ LaneInv /\ LimitInv
  BY DEF Inv
<1>2. CASE Start
  <2>1. TypeOK'
    BY <1>1, <1>2 DEF Start, TypeOK, Lanes
  <2>2. ItemInv'
    BY <1>1, <1>2 DEF Start, TypeOK, ItemInv, LaneInv, Busy, Items, Lanes, Hole
  <2>3. LaneInv'
    <3>1. Lanes = {} => PoolSize = N
      <4>1. PoolSize # 0 => 0 \in Lanes
        BY DEF Lanes
      <4> QED
        BY <4>1
    <3> QED
      BY <1>1, <1>2, <3>1 DEF Start, TypeOK, LaneInv
  <2>4. LimitInv'
    BY <1>1, <1>2 DEF Start, LaneInv, LimitInv, Lanes
  <2> QED
    BY <2>1, <2>2, <2>3, <2>4 DEF Inv
<1>3. CASE Resolve
  <2>1. TypeOK' /\ ItemInv' /\ LimitInv'
    BY <1>1, <1>3 DEF Resolve, shared, TypeOK, ItemInv, LimitInv, Busy
  <2>2. LaneInv'
    BY <1>1, <1>3 DEF Resolve, shared, LaneInv
  <2> QED
    BY <2>1, <2>2 DEF Inv
<1>4. ASSUME NEW l \in Lanes, Answer(l) PROVE Inv'
  <2>1. maxAllowedLanes \in 1 .. InitialConcurrency
    BY <1>1 DEF TypeOK
  <2>2. /\ pc[l] \in {"work", "pause"} /\ Proceed(l)
        /\ maxAllowedLanes' = maxAllowedLanes /\ limitedAt' = limitedAt
        /\ outcome' = outcome /\ pc[l] = "work"
        /\ results' = [results EXCEPT ![currentIdx[l]] = currentIdx[l]]
    BY <1>4 DEF Answer, Slot
  <2>3. /\ maxAllowedLanes' \in 1 .. InitialConcurrency
        /\ maxAllowedLanes' <= maxAllowedLanes
        /\ limitedAt' = IF maxAllowedLanes' = maxAllowedLanes
                           THEN limitedAt ELSE nextIndex
        /\ results' = IF pc[l] = "work"
                         THEN [results EXCEPT ![currentIdx[l]] = currentIdx[l]]
                         ELSE results
    BY <2>1, <2>2
  <2> QED
    BY <2>2, <2>3, ProceedKeeps
<1>5. ASSUME NEW l \in Lanes, AnswerLimited(l) PROVE Inv'
  <2>1. /\ maxAllowedLanes' \in 1 .. InitialConcurrency
        /\ maxAllowedLanes' <= maxAllowedLanes
    BY <1>1, <1>5, HalvedBounds DEF AnswerLimited, TypeOK
  <2>2. CASE Proceed(l)
    <3>1. /\ pc[l] \in {"work", "pause"} /\ Proceed(l)
          /\ limitedAt' = IF maxAllowedLanes' = maxAllowedLanes
                             THEN limitedAt ELSE nextIndex
          /\ outcome' = outcome /\ pc[l] = "work"
          /\ results' = [results EXCEPT ![currentIdx[l]] = currentIdx[l]]
      BY <1>5, <2>2 DEF AnswerLimited, Slot
    <3> QED
      BY <2>1, <3>1, ProceedKeeps
  <2>3. CASE /\ pc' = [pc EXCEPT ![l] = "pause"]
             /\ UNCHANGED <<currentIdx, nextIndex>>
    <3>1. /\ pc' = [pc EXCEPT ![l] = "pause"] /\ pc[l] = "work"
          /\ currentIdx' = currentIdx /\ nextIndex' = nextIndex
          /\ outcome' = outcome
          /\ results' = [results EXCEPT ![currentIdx[l]] = currentIdx[l]]
          /\ limitedAt' = IF maxAllowedLanes' = maxAllowedLanes
                             THEN limitedAt ELSE nextIndex
      BY <1>5, <2>3 DEF AnswerLimited, Slot
    <3>2. TypeOK'
      BY <1>1, <2>1, <3>1 DEF TypeOK, ItemInv, Busy, Items, Hole
    <3>3. ItemInv'
      BY <1>1, <3>1 DEF TypeOK, ItemInv, Busy, Items, Hole
    <3>4. LaneInv'
      BY <1>1, <3>1 DEF TypeOK, LaneInv
    <3>5. LimitInv'
      BY <1>1, <2>1, <3>1 DEF TypeOK, LimitInv, ItemInv, Busy
    <3> QED
      BY <3>2, <3>3, <3>4, <3>5 DEF Inv
  <2> QED
    BY <1>5, <2>2, <2>3 DEF AnswerLimited
<1>6. ASSUME NEW l \in Lanes, Wake(l) PROVE Inv'
  <2>1. maxAllowedLanes \in 1 .. InitialConcurrency
    BY <1>1 DEF TypeOK
  <2> QED
    BY <1>6, <2>1, ProceedKeeps DEF Wake
<1>7. ASSUME NEW l \in Lanes, Throw(l) PROVE Inv'
  <2>1. TypeOK'
    BY <1>1, <1>7 DEF Throw, shared, TypeOK
  <2>2. ItemInv'
    BY <1>1, <1>7 DEF Throw, shared, TypeOK, ItemInv, Busy
  <2>3. LaneInv'
    BY <1>1, <1>7 DEF Throw, shared, TypeOK, LaneInv
  <2>4. LimitInv'
    BY <1>1, <1>7 DEF Throw, shared, TypeOK, LimitInv
  <2> QED
    BY <2>1, <2>2, <2>3, <2>4 DEF Inv
<1>8. CASE UNCHANGED vars
  BY <1>1, <1>8 DEF vars, shared, Inv, TypeOK, ItemInv, LaneInv, LimitInv, Busy
<1> QED
  BY <1>2, <1>3, <1>4, <1>5, <1>6, <1>7, <1>8 DEF Next, LaneStep

\* The invariant holds in every reachable state.
LEMMA Invariance == Spec => []Inv
<1>1. Init => Inv
  BY InvInit
<1>2. Inv /\ [Next]_vars => Inv'
  BY InvStep
<1> QED
  BY <1>1, <1>2, PTL DEF Spec

-----------------------------------------------------------------------------
(* The theorems.                                                           *)

\* Type correctness; in particular the limit of lanes stays between 1 and the
\* concurrency asked for, and nextIndex never passes the end of the array.
THEOREM PoolTypeCorrect == Spec => []TypeOK
<1>1. Inv => TypeOK
  BY DEF Inv
<1> QED
  BY <1>1, Invariance, PTL

\* Every index handed out is with exactly one lane or answered in its slot.
THEOREM NoItemTwice == Spec => []EachItemOnce
<1>1. Inv => EachItemOnce
  <2> SUFFICES ASSUME Inv, NEW i \in Items
               PROVE  /\ i >= nextIndex =>
                           results[i] = Hole /\ \A l \in Lanes : ~Holds(l, i)
                      /\ i < nextIndex =>
                           \/ results[i] = i /\ \A l \in Lanes : ~Holds(l, i)
                           \/ results[i] = Hole /\ \E l \in Lanes :
                                \A k \in Lanes : Holds(k, i) <=> k = l
    BY DEF EachItemOnce
  <2>1. ItemInv /\ nextIndex \in Nat /\ i \in Nat /\ i # Hole
    BY DEF Inv, TypeOK, Items, Hole
  <2>2. \A l \in Lanes : Holds(l, i) => i < nextIndex /\ results[i] = Hole
    BY <2>1 DEF ItemInv, Holds, Busy
  <2>3. \A l, k \in Lanes : Holds(l, i) /\ Holds(k, i) => l = k
    BY <2>1 DEF ItemInv, Holds, Busy
  <2>4. i >= nextIndex => results[i] = Hole
    BY <2>1 DEF ItemInv
  <2>5. i < nextIndex => results[i] = i \/ \E l \in Lanes : Holds(l, i)
    BY <2>1 DEF ItemInv, Holds, Busy
  <2>6. i >= nextIndex => \A l \in Lanes : ~Holds(l, i)
    BY <2>1, <2>2
  <2>7. (\E l \in Lanes : Holds(l, i)) =>
          \E l \in Lanes : \A k \in Lanes : Holds(k, i) <=> k = l
    BY <2>3
  <2> QED
    BY <2>1, <2>2, <2>4, <2>5, <2>6, <2>7
<1> QED
  BY <1>1, Invariance, PTL

\* When all lanes have returned, every item is answered: lane 0 did not leave
\* before the array was exhausted.
LEMMA AllAnswered ==
  ASSUME Inv, outcome # "idle", \A l \in Lanes : pc[l] = "done"
  PROVE  \A i \in Items : results[i] = i
<1>1. Lanes = {} \/ 0 \in Lanes
  BY PoolBounds DEF Lanes
<1>2. nextIndex = N
  BY <1>1 DEF Inv, LaneInv
<1>3. \A i \in Items : i < nextIndex
  BY <1>2, PoolBounds DEF Items
<1> QED
  BY <1>3 DEF Inv, ItemInv, Busy

\* A resolved call has the result of every item in its own slot: lanes that
\* retire under the lowered limit leave nothing behind.
THEOREM Complete == Spec => []ResolvedIsComplete
<1>1. Inv => ResolvedIsComplete
  BY AllAnswered DEF Inv, LaneInv, ResolvedIsComplete
<1> QED
  BY <1>1, Invariance, PTL

\* Of the items taken since the limit was lowered, no more than the limit are
\* in flight.
THEOREM Throttled == Spec => []ThrottleHolds
<1>1. Inv => ThrottleHolds
  <2> SUFFICES ASSUME Inv PROVE ThrottleHolds
    OBVIOUS
  <2> DEFINE Late == {l \in Lanes : pc[l] = "work" /\ currentIdx[l] >= limitedAt}
  <2>1. maxAllowedLanes \in Nat /\ maxAllowedLanes >= 1
    BY PoolBounds DEF Inv, TypeOK
  <2>2. Late \subseteq 0 .. maxAllowedLanes - 1
    BY <2>1, PoolBounds DEF Inv, LimitInv, Lanes
  <2>3. /\ IsFiniteSet(0 .. maxAllowedLanes - 1)
        /\ Cardinality(0 .. maxAllowedLanes - 1) = maxAllowedLanes
    BY <2>1, FS_Interval
  <2>4. Cardinality(Late) <= Cardinality(0 .. maxAllowedLanes - 1)
    BY <2>2, <2>3, FS_Subset
  <2> QED
    BY <2>3, <2>4 DEF ThrottleHolds
<1> QED
  BY <1>1, Invariance, PTL

-----------------------------------------------------------------------------
(* The refinement.                                                         *)

Running == {currentIdx[l] : l \in {k \in Lanes : pc[k] = "work"}}
Done    == {i \in Items : results[i] = i}

\* The number of lanes.
LEMMA LaneCount == IsFiniteSet(Lanes) /\ Cardinality(Lanes) = PoolSize
BY PoolBounds, FS_Interval DEF Lanes

\* Cardinality as the instance knows it.
LEMMA SameCardinality == \A S : PM!Cardinality(S) = Cardinality(S)
BY DEF PM!Cardinality, Cardinality

\* What is running is held by lanes, so it is never more than the lanes.
LEMMA RunningBound == Inv => Cardinality(Running) <= InitialConcurrency
<1> SUFFICES ASSUME Inv PROVE Cardinality(Running) <= InitialConcurrency
  OBVIOUS
<1> DEFINE W == {k \in Lanes : pc[k] = "work"}
<1>1. /\ IsFiniteSet(Lanes) /\ Cardinality(Lanes) = PoolSize
  BY LaneCount
<1>2. /\ IsFiniteSet(W) /\ Cardinality(W) <= PoolSize
      /\ Cardinality(W) \in Nat
  BY <1>1, FS_Subset, FS_CardinalityType
<1>3. [l \in W |-> currentIdx[l]] \in Surjection(W, Running)
  BY DEF Surjection, Running
<1>4. IsFiniteSet(Running) /\ Cardinality(Running) <= Cardinality(W)
  BY <1>2, <1>3, FS_Surjection
<1>5. Cardinality(Running) \in Nat
  BY <1>4, FS_CardinalityType
<1> QED
  BY <1>2, <1>4, <1>5, PoolBounds

\* Running and Done after a lane that stood at the head of its loop went on:
\* it took the next item, which was in neither, or nothing.
LEMMA ProceedRuns ==
  ASSUME Inv, Inv', NEW l \in Lanes, pc[l] \in {"work", "pause"}, Proceed(l)
  PROVE  LET left == IF pc[l] = "work" THEN Running \ {currentIdx[l]} ELSE Running
         IN  \/ Running' = left
             \/ \E j \in Items \ (Running \cup Done) : Running' = left \cup {j}
<1> DEFINE left == IF pc[l] = "work" THEN Running \ {currentIdx[l]} ELSE Running
<1>1. TypeOK /\ ItemInv /\ TypeOK' /\ ItemInv' /\ nextIndex \in Nat
  BY DEF Inv, TypeOK
<1>2. \A k \in Lanes : k # l => pc'[k] = pc[k] /\ currentIdx'[k] = currentIdx[k]
  BY <1>1 DEF TypeOK, Proceed
<1>3. left = {currentIdx[k] : k \in {h \in Lanes \ {l} : pc[h] = "work"}}
  BY <1>1 DEF Running, ItemInv, Busy
<1>4. left = {currentIdx'[k] : k \in {h \in Lanes \ {l} : pc'[h] = "work"}}
  BY <1>2, <1>3
<1>5. CASE pc'[l] = "work" /\ currentIdx'[l] = nextIndex /\ nextIndex < N
  <2>1. Running' = left \cup {nextIndex}
    BY <1>4, <1>5 DEF Running
  <2>2. nextIndex \in Items
    BY <1>1, <1>5, PoolBounds DEF Items
  <2>3. nextIndex \notin Running \cup Done
    BY <1>1, <2>2 DEF Running, Done, ItemInv, Busy, Items, Hole
  <2> QED
    BY <2>1, <2>2, <2>3
<1>6. CASE pc'[l] = "done"
  BY <1>4, <1>6 DEF Running
<1> QED
  BY <1>1, <1>5, <1>6 DEF Proceed, TypeOK

\* An answer adds exactly its own item to Done.
LEMMA AnswerDone ==
  ASSUME Inv, NEW l \in Lanes, pc[l] = "work",
         results' = [results EXCEPT ![currentIdx[l]] = currentIdx[l]]
  PROVE  /\ currentIdx[l] \in Items /\ currentIdx[l] \in Running
         /\ Done' = Done \cup {currentIdx[l]}
<1>1. TypeOK /\ ItemInv
  BY DEF Inv
<1>2. currentIdx[l] \in Items /\ currentIdx[l] \in Running
  BY <1>1 DEF ItemInv, Busy, Running
<1> QED
  BY <1>1, <1>2 DEF TypeOK, Done

\* A call of mapWithConcurrency is a call of the parallel map it promises:
\* each item once, at most the concurrency asked for, complete when resolved.
THEOREM Refinement == Spec => ImplementsParallelMap
<1>0. Inv' => (Cardinality(Running) <= InitialConcurrency)'
  BY RunningBound, PTL
<1>1. Init => PM!Init
  BY DEF Init, PM!Init, Items, Lanes, Hole
<1>2. Inv /\ Inv' /\ [Next]_vars => [PM!Next]_PM!pmvars
  <2> SUFFICES ASSUME Inv, Inv', [Next]_vars PROVE [PM!Next]_PM!pmvars
    OBVIOUS
  <2> USE DEF Running, Done
  <2>1. CASE Start
    <3>1. Running = {} /\ Done = {} /\ Done' = Done
      BY <2>1 DEF Start, Inv, TypeOK, LaneInv, ItemInv, Items, Hole
    <3>2. Running' = Lanes /\ Lanes \in SUBSET Items
      BY <2>1, PoolBounds DEF Start, Lanes, Items
    <3>3. Cardinality(Lanes) <= InitialConcurrency
      BY PoolBounds, LaneCount
    <3>4. Lanes \cap (Running \cup Done) = {} /\ outcome = "idle" /\ outcome' = "pending"
      BY <2>1, <3>1 DEF Start
    <3>5. PM!Begin(Lanes)
      BY <3>3, <3>4, SameCardinality DEF PM!Begin
    <3>6. PM!Call
      BY <3>1, <3>2, <3>4, <3>5 DEF PM!Call
    <3> QED
      BY <3>6 DEF PM!Next
  <2>2. CASE Resolve
    <3>1. Done = Items
      BY <2>2, AllAnswered DEF Resolve
    <3>2. PM!Resolve
      BY <2>2, <3>1 DEF PM!Resolve, Resolve, shared
    <3> QED
      BY <3>2 DEF PM!Next
  <2>3. ASSUME NEW l \in Lanes, LaneStep(l)
        PROVE  [PM!Next]_PM!pmvars
    <3>1. CASE Answer(l)
      <4>1. /\ currentIdx[l] \in Items /\ currentIdx[l] \in Running
            /\ Done' = Done \cup {currentIdx[l]}
        BY <3>1, AnswerDone DEF Answer, Slot
      <4>2. \/ Running' = Running \ {currentIdx[l]}
            \/ \E j \in Items \ (Running \cup Done) :
                 Running' = (Running \ {currentIdx[l]}) \cup {j}
        BY <3>1, ProceedRuns DEF Answer
      <4>3. PICK i \in Items : i = currentIdx[l]
        BY <4>1
      <4>4. PM!Advance(i)
        BY <3>1, <4>1, <4>2, <4>3 DEF PM!Advance, Answer
      <4> QED
        BY <4>4 DEF PM!Next
    <3>2. CASE AnswerLimited(l)
      <4>1. /\ currentIdx[l] \in Items /\ currentIdx[l] \in Running
            /\ Done' = Done \cup {currentIdx[l]}
        BY <3>2, AnswerDone DEF AnswerLimited, Slot
      <4>2. \/ Running' = Running \ {currentIdx[l]}
            \/ \E j \in Items \ (Running \cup Done) :
                 Running' = (Running \ {currentIdx[l]}) \cup {j}
        <5>1. CASE /\ pc' = [pc EXCEPT ![l] = "pause"]
                   /\ UNCHANGED <<currentIdx, nextIndex>>
          BY <3>2, <5>1 DEF AnswerLimited, Inv, TypeOK, ItemInv, Busy
        <5>2. CASE Proceed(l)
          BY <3>2, <5>2, ProceedRuns DEF AnswerLimited
        <5> QED
          BY <3>2, <5>1, <5>2 DEF AnswerLimited
      <4>3. PICK i \in Items : i = currentIdx[l]
        BY <4>1
      <4>4. PM!Advance(i)
        BY <3>2, <4>1, <4>2, <4>3 DEF PM!Advance, AnswerLimited
      <4> QED
        BY <4>4 DEF PM!Next
    <3>3. CASE Wake(l)
      <4>1. \/ Running' = Running
            \/ \E j \in Items \ (Running \cup Done) : Running' = Running \cup {j}
        BY <3>3, ProceedRuns DEF Wake
      <4>2. Done' = Done /\ outcome' = outcome
        BY <3>3 DEF Wake
      <4>3. Cardinality(Running') <= InitialConcurrency
        BY <1>0
      <4>4. PM!Resume \/ UNCHANGED PM!pmvars
        BY <4>1, <4>2, <4>3, SameCardinality DEF PM!Resume, PM!pmvars
      <4> QED
        BY <4>4 DEF PM!Next
    <3>4. CASE Throw(l)
      <4>1. currentIdx[l] \in Items /\ currentIdx[l] \in Running
        BY <3>4 DEF Throw, Inv, ItemInv, Busy
      <4>2. Running' = Running \ {currentIdx[l]}
        BY <3>4 DEF Throw, Inv, TypeOK, ItemInv, Busy
      <4>3. PICK i \in Items : i = currentIdx[l]
        BY <4>1
      <4>4. PM!Fail(i)
        BY <3>4, <4>1, <4>2, <4>3 DEF PM!Fail, Throw, shared
      <4> QED
        BY <4>4 DEF PM!Next
    <3> QED
      BY <2>3, <3>1, <3>2, <3>3, <3>4 DEF LaneStep
  <2>4. CASE UNCHANGED vars
    BY <2>4 DEF vars, shared, PM!pmvars
  <2> QED
    BY <2>1, <2>2, <2>3, <2>4 DEF Next
<1> QED
  BY <1>1, <1>2, Invariance, PTL DEF Spec, PM!Spec, ImplementsParallelMap

-----------------------------------------------------------------------------
(* The reports, of any scan.                                               *)

\* The instance counts with a Cardinality of its own, which is the same.
LEMMA CommandCardinality == \A S : Command!Cardinality(S) = Cardinality(S)
BY DEF Cardinality, Command!Cardinality

\* The results of a scan, in their order.
Scanned(rs) == rs \in Seq(Command!Item) /\ \A i \in DOMAIN rs : Command!Produced(rs[i])

LEMMA ItemsOf ==
  ASSUME NEW rs \in Seq(Command!Item)
  PROVE  /\ IsFiniteSet(DOMAIN rs) /\ Cardinality(DOMAIN rs) = Len(rs) /\ Len(rs) \in Nat
         /\ \A i \in DOMAIN rs : rs[i] \in Command!Item
<1>1. DOMAIN rs = 1 .. Len(rs) /\ Len(rs) \in Nat /\ \A i \in DOMAIN rs : rs[i] \in Command!Item
  OBVIOUS
<1> QED BY <1>1, FS_Interval

\* The kinds of results, which every report tells apart in its own way.
Blocked(r)  == r.note # "origin_blocked" /\ (r.blocked \/ r.status \in {"403", "BLOCKED"})
Bypassed(r) == ~r.blocked /\ r.status = "200"
Marked(r)   == r.ua \/ r.ip
Failing(r)  == Marked(r) \/ Bypassed(r)

\* One result is of the same kind in every report.
LEMMA SameKind ==
  ASSUME NEW r \in Command!Item, Command!Produced(r)
  PROVE  /\ Command!StatBlocked(r) <=> Blocked(r)
         /\ Command!MdBlocked(r) <=> Blocked(r)
         /\ (r.status \in {"403", "BLOCKED"} \/ r.blocked) /\ r.note # "origin_blocked" <=> Blocked(r)
         /\ Command!StatBypassed(r) <=> Bypassed(r)
         /\ Command!MdBypassed(r) <=> Bypassed(r)
         /\ r.status = "200" /\ ~r.blocked <=> Bypassed(r)
         /\ Command!JUnit(r) = "failure" <=> Failing(r)
         /\ Command!SarifLists(r) <=> Failing(r)
         /\ Command!JUnit(r) = "error" <=> Command!StatError(r)
<1> USE DEF Command!Item, Command!Produced, Command!BlockStatus, Blocked, Bypassed, Marked, Failing
<1>1. Command!StatBlocked(r) <=> Blocked(r)
  BY DEF Command!StatBlocked
<1>2. Command!MdBlocked(r) <=> Blocked(r)
  BY DEF Command!MdBlocked
<1>3. Command!StatBypassed(r) <=> Bypassed(r)
  BY DEF Command!StatBypassed
<1>4. Command!MdBypassed(r) <=> Bypassed(r)
  BY DEF Command!MdBypassed, Command!MdBlocked
<1>5. Command!JUnit(r) = "failure" <=> Failing(r)
  BY DEF Command!JUnit
<1>6. Command!SarifLists(r) <=> Failing(r)
  BY DEF Command!SarifLists
<1>7. Command!JUnit(r) = "error" <=> Command!StatError(r)
  BY DEF Command!JUnit, Command!StatError
<1> QED BY <1>1, <1>2, <1>3, <1>4, <1>5, <1>6, <1>7

\* What check counts and lists.
LEMMA CheckIs ==
  ASSUME NEW rs, Scanned(rs)
  PROVE  LET blocked == {i \in DOMAIN rs : Blocked(rs[i])} IN
         /\ Command!Check(rs).blocked = Cardinality(blocked)
         /\ Command!Check(rs).bypassed = {i \in DOMAIN rs : Bypassed(rs[i])}
         /\ Command!Check(rs).score =
              IF rs = << >> THEN 100 ELSE Command!Percent(Cardinality(blocked), Len(rs))
         /\ Command!Check(rs).uaBypasses = {i \in DOMAIN rs : rs[i].ua}
         /\ Command!Check(rs).ipBypasses = {i \in DOMAIN rs : rs[i].ip}
         /\ Command!Bypasses(rs) = {i \in DOMAIN rs : Failing(rs[i])}
<1>1. \A i \in DOMAIN rs : rs[i] \in Command!Item /\ Command!Produced(rs[i])
  BY ItemsOf DEF Scanned
<1> DEFINE blocked == {i \in DOMAIN rs : Blocked(rs[i])}
<1>2. {i \in DOMAIN rs : (rs[i].status \in {"403", "BLOCKED"} \/ rs[i].blocked)
                         /\ rs[i].note # "origin_blocked"} = blocked
  BY <1>1, SameKind
<1>3. {i \in DOMAIN rs : rs[i].status = "200" /\ ~rs[i].blocked} = {i \in DOMAIN rs : Bypassed(rs[i])}
  BY DEF Bypassed
<1> HIDE DEF blocked
<1>4. /\ Command!Check(rs).blocked = Cardinality(blocked)
      /\ Command!Check(rs).bypassed = {i \in DOMAIN rs : Bypassed(rs[i])}
      /\ Command!Check(rs).score =
           IF rs = << >> THEN 100 ELSE Command!Percent(Cardinality(blocked), Len(rs))
      /\ Command!Check(rs).uaBypasses = {i \in DOMAIN rs : rs[i].ua}
      /\ Command!Check(rs).ipBypasses = {i \in DOMAIN rs : rs[i].ip}
  BY <1>2, <1>3, CommandCardinality DEF Command!Check, Command!Count, Command!Where
<1>5. Command!Bypasses(rs) = {i \in DOMAIN rs : Failing(rs[i])}
  BY <1>4 DEF Command!Bypasses, Failing, Marked
<1> QED BY <1>4, <1>5 DEF blocked

LEMMA CountsAgree ==
  ASSUME NEW rs, Scanned(rs)
  PROVE  Command!SameCounts(rs)
<1> DEFINE blocked  == {i \in DOMAIN rs : Blocked(rs[i])}
           bypassed == {i \in DOMAIN rs : Bypassed(rs[i])}
           failing  == {i \in DOMAIN rs : Failing(rs[i])}
           errors   == {i \in DOMAIN rs : Command!StatError(rs[i])}
<1>1. \A i \in DOMAIN rs : rs[i] \in Command!Item /\ Command!Produced(rs[i])
  BY ItemsOf DEF Scanned
<1>2. /\ {i \in DOMAIN rs : Command!StatBlocked(rs[i])} = blocked
      /\ {i \in DOMAIN rs : Command!MdBlocked(rs[i])} = blocked
      /\ {i \in DOMAIN rs : (rs[i].status \in {"403", "BLOCKED"} \/ rs[i].blocked)
                            /\ rs[i].note # "origin_blocked"} = blocked
  BY <1>1, SameKind
<1>3. /\ {i \in DOMAIN rs : Command!StatBypassed(rs[i])} = bypassed
      /\ {i \in DOMAIN rs : Command!MdBypassed(rs[i])} = bypassed
      /\ {i \in DOMAIN rs : rs[i].status = "200" /\ ~rs[i].blocked} = bypassed
  BY <1>1, SameKind
<1>4. /\ {i \in DOMAIN rs : Command!JUnit(rs[i]) = "failure"} = failing
      /\ {i \in DOMAIN rs : Command!SarifLists(rs[i])} = failing
      /\ {i \in DOMAIN rs : Command!JUnit(rs[i]) = "error"} = errors
  BY <1>1, SameKind
<1> HIDE DEF blocked, bypassed, failing, errors
<1>5. /\ Command!Check(rs).blocked = Cardinality(blocked)
      /\ Command!Check(rs).bypassed = bypassed
      /\ Command!Check(rs).score =
           IF rs = << >> THEN 100 ELSE Command!Percent(Cardinality(blocked), Len(rs))
      /\ Command!Bypasses(rs) = failing
  BY CheckIs DEF blocked, bypassed, failing
<1>6. LET s == Command!Stats(rs) IN
      /\ s.blocked = Cardinality(blocked) /\ s.bypassed = Cardinality(bypassed)
      /\ s.errors = Cardinality(errors)
      /\ s.score = IF rs = << >> THEN 100 ELSE Command!Percent(Cardinality(blocked), Len(rs))
  BY <1>2, <1>3, CommandCardinality DEF Command!Stats, Command!Count, errors
<1>7. LET m == Command!MarkdownReport(rs) IN
      /\ m.blocked = Cardinality(blocked) /\ m.bypassed = Cardinality(bypassed)
      /\ m.listed = bypassed
      /\ m.score = IF rs = << >> THEN 100 ELSE Command!Percent(Cardinality(blocked), Len(rs))
  BY <1>2, <1>3, CommandCardinality DEF Command!MarkdownReport, Command!Count, Command!Where
<1>8. LET h == Command!HtmlReport(rs) IN
      /\ h.blocked = Cardinality(blocked) /\ h.bypassed = Cardinality(bypassed)
  BY <1>2, <1>3, CommandCardinality DEF Command!HtmlReport, Command!Count
<1>9. /\ Command!JUnitReport(rs).failures = failing
      /\ Command!JUnitReport(rs).errors = Cardinality(errors)
      /\ Command!Where(rs, Command!SarifLists) = failing
  BY <1>4, CommandCardinality DEF Command!JUnitReport, Command!Count, Command!Where
<1> QED BY <1>5, <1>6, <1>7, <1>8, <1>9, CommandCardinality DEF Command!SameCounts

\* Two parts that make up a finite set.
LEMMA Parts ==
  ASSUME NEW S, IsFiniteSet(S), NEW A, NEW B, A \cup B = S, A \cap B = {}
  PROVE  /\ IsFiniteSet(A) /\ IsFiniteSet(B)
         /\ Cardinality(A) \in Nat /\ Cardinality(B) \in Nat
         /\ Cardinality(S) = Cardinality(A) + Cardinality(B)
<1>1. IsFiniteSet(A) /\ IsFiniteSet(B)
  BY FS_Subset
<1>2. /\ Cardinality(A) \in Nat /\ Cardinality(B) \in Nat
      /\ Cardinality(A \cup B) = Cardinality(A) + Cardinality(B) - Cardinality(A \cap B)
      /\ Cardinality({}) = 0
  BY <1>1, FS_Union, FS_CardinalityType, FS_EmptySet
<1>3. Cardinality(A \cup B) = Cardinality(S) /\ Cardinality(A \cap B) = 0
  BY <1>2
<1> QED BY <1>1, <1>2, <1>3

\* What batch counts, as check would have counted it.
LEMMA BatchAgrees ==
  ASSUME NEW rs, Scanned(rs)
  PROVE  Command!BatchIsNoKinder(rs)
<1> DEFINE D       == DOMAIN rs
           refused == {i \in D : rs[i].status \in {"403", "BLOCKED"}}
           status  == {i \in D : rs[i].status = "200"}
           blocked == {i \in D : Blocked(rs[i])}
           odd     == {i \in D : rs[i].blocked /\ rs[i].status \notin {"403", "BLOCKED"}}
           origin  == {i \in D : rs[i].note = "origin_blocked" /\ rs[i].status = "403"}
           plain   == refused \ origin
           passed  == {i \in D : Bypassed(rs[i])}
<1>1. \A i \in D : rs[i] \in Command!Item /\ Command!Produced(rs[i])
  BY ItemsOf DEF Scanned
<1>2. IsFiniteSet(D)
  BY ItemsOf DEF Scanned
<1>3. \A i \in D : /\ rs[i].note = "origin_blocked" => ~rs[i].blocked /\ rs[i].status \in {"403", "406"}
                   /\ rs[i].blocked \in BOOLEAN
  BY <1>1 DEF Command!Produced, Command!Item
<1>4. passed \subseteq status
  BY DEF Bypassed
<1>5. plain \cup origin = refused /\ plain \cap origin = {} /\ refused \subseteq D
  OBVIOUS
<1>6. plain \cup odd = blocked /\ plain \cap odd = {} /\ blocked \subseteq D
  BY <1>3 DEF Blocked
<1>7. /\ Command!Batch(rs).bypassed = Cardinality(status)
      /\ Command!Batch(rs).blocked = Cardinality(refused)
      /\ Command!Count(rs, LAMBDA r : r.blocked /\ r.status \notin {"403", "BLOCKED"}) = Cardinality(odd)
      /\ Command!Count(rs, LAMBDA r : r.note = "origin_blocked" /\ r.status = "403") = Cardinality(origin)
  BY CommandCardinality DEF Command!Batch, Command!Count
<1>8. Command!Check(rs).blocked = Cardinality(blocked) /\ Command!Check(rs).bypassed = passed
  BY CheckIs
<1>9. IsFiniteSet(status) /\ IsFiniteSet(refused) /\ IsFiniteSet(blocked)
  BY <1>2, <1>5, <1>6, FS_Subset
<1> HIDE DEF D, refused, status, blocked, odd, origin, plain, passed
<1>10. Cardinality(passed) <= Cardinality(status) /\ Cardinality(passed) \in Nat
       /\ Cardinality(status) \in Nat
  BY <1>4, <1>9, FS_Subset, FS_CardinalityType
<1>11. /\ Cardinality(refused) = Cardinality(plain) + Cardinality(origin)
       /\ Cardinality(plain) \in Nat /\ Cardinality(origin) \in Nat
  BY <1>5, <1>9, Parts
<1>12. Cardinality(blocked) = Cardinality(plain) + Cardinality(odd) /\ Cardinality(odd) \in Nat
  BY <1>6, <1>9, Parts
<1>13. Cardinality(refused) = Cardinality(blocked) - Cardinality(odd) + Cardinality(origin)
  BY <1>11, <1>12
<1>14. Cardinality(passed) = Command!Cardinality(passed)
  BY CommandCardinality
<1>15. Command!BatchIsNoKinder(rs) <=>
         /\ Command!Batch(rs).bypassed >= Command!Cardinality(Command!Check(rs).bypassed)
         /\ Command!Batch(rs).blocked =
              Command!Check(rs).blocked
                - Command!Count(rs, LAMBDA r : r.blocked /\ r.status \notin {"403", "BLOCKED"})
                + Command!Count(rs, LAMBDA r : r.note = "origin_blocked" /\ r.status = "403")
  BY DEF Command!BatchIsNoKinder
<1> QED BY <1>7, <1>8, <1>10, <1>13, <1>14, <1>15

\* The parts of a comparison share no key.
LEMMA DiffAgrees ==
  ASSUME NEW previous, NEW current \in Seq(Command!Item)
  PROVE  Command!DiffPartitions(previous, current)
<1> DEFINE both == Command!Keys(previous) \cap Command!Keys(current)
           from(k) == Command!ScanStatus(Command!Last(previous, k))
           to(k)   == Command!ScanStatus(Command!Last(current, k))
           worse == {k \in both : Command!Regressed(from(k), to(k))}
           finer == {k \in both : Command!Improved(from(k), to(k))}
           same  == {k \in both : from(k) = to(k)}
           other1 == {k \in both : /\ from(k) # to(k)
                                  /\ ~Command!Regressed(from(k), to(k))
                                  /\ ~Command!Improved(from(k), to(k))}
           added == Command!Keys(current) \ Command!Keys(previous)
           d == Command!Diff(previous, current)
           back == Command!Diff(current, previous)
<1>1. /\ d.regressions = worse /\ d.improvements = finer /\ d.unchanged = same
      /\ d.other = other1 /\ d.added = added
  BY DEF Command!Diff
<1>2. d.regressions = back.improvements
  BY DEF Command!Diff, Command!Regressed, Command!Improved, Command!GotThrough
<1>3. d.added = back.removed
  BY DEF Command!Diff
<1>4. IsFiniteSet(Command!Keys(current))
  <2>1. IsFiniteSet(DOMAIN current)
    BY ItemsOf
  <2> DEFINE f == [i \in DOMAIN current |-> current[i].key]
  <2>2. f \in Surjection(DOMAIN current, Command!Keys(current))
    BY DEF Surjection, Command!Keys
  <2> QED BY <2>1, <2>2, FS_Surjection
<1>5. /\ worse \cap finer = {} /\ worse \cap same = {} /\ finer \cap same = {}
      /\ (worse \cup finer \cup same) \cap other1 = {}
      /\ worse \cup finer \cup same \cup other1 = both
  BY DEF Command!Regressed, Command!Improved, Command!GotThrough
<1>6. both \cup added = Command!Keys(current) /\ both \cap added = {}
  OBVIOUS
<1> HIDE DEF both, worse, finer, same, other1, added, d, back
<1>7. /\ IsFiniteSet(both) /\ Cardinality(both) \in Nat /\ Cardinality(added) \in Nat
      /\ Cardinality(Command!Keys(current)) = Cardinality(both) + Cardinality(added)
  <2>1. PICK keys : keys = Command!Keys(current)
    OBVIOUS
  <2>2. IsFiniteSet(keys) /\ both \cup added = keys /\ both \cap added = {}
    BY <1>4, <1>6, <2>1
  <2>3. /\ IsFiniteSet(both) /\ Cardinality(both) \in Nat /\ Cardinality(added) \in Nat
        /\ Cardinality(keys) = Cardinality(both) + Cardinality(added)
    BY <2>2, Parts
  <2> QED BY <2>1, <2>3
<1> DEFINE two == worse \cup finer
           three == two \cup same
<1>8. /\ three \cup other1 = both /\ three \cap other1 = {}
      /\ two \cup same = three /\ two \cap same = {}
      /\ worse \cup finer = two /\ worse \cap finer = {}
  BY <1>5
<1> HIDE DEF two, three
<1>9. /\ IsFiniteSet(three) /\ Cardinality(three) \in Nat /\ Cardinality(other1) \in Nat
      /\ Cardinality(both) = Cardinality(three) + Cardinality(other1)
  <2>1. IsFiniteSet(both) /\ three \cup other1 = both /\ three \cap other1 = {}
    BY <1>7, <1>8
  <2> QED BY <2>1, Parts
<1>10. /\ IsFiniteSet(two) /\ Cardinality(two) \in Nat /\ Cardinality(same) \in Nat
       /\ Cardinality(three) = Cardinality(two) + Cardinality(same)
  <2>1. IsFiniteSet(three) /\ two \cup same = three /\ two \cap same = {}
    BY <1>8, <1>9
  <2> QED BY <2>1, Parts
<1>11. /\ Cardinality(worse) \in Nat /\ Cardinality(finer) \in Nat
       /\ Cardinality(two) = Cardinality(worse) + Cardinality(finer)
  <2>1. IsFiniteSet(two) /\ worse \cup finer = two /\ worse \cap finer = {}
    BY <1>8, <1>10
  <2> QED BY <2>1, Parts
<1>12. Cardinality(worse) + Cardinality(finer) + Cardinality(same) + Cardinality(other1)
         + Cardinality(added) = Cardinality(Command!Keys(current))
  BY <1>7, <1>9, <1>10, <1>11
<1>13. Command!DiffPartitions(previous, current) <=>
         /\ Command!Cardinality(d.regressions) + Command!Cardinality(d.improvements)
              + Command!Cardinality(d.unchanged) + Command!Cardinality(d.other)
              + Command!Cardinality(d.added) = Command!Cardinality(Command!Keys(current))
         /\ d.regressions = back.improvements /\ d.added = back.removed
  BY DEF Command!DiffPartitions, d, back
<1> QED BY <1>1, <1>2, <1>3, <1>12, <1>13, CommandCardinality

-----------------------------------------------------------------------------
(* The commands: what holds of every step.                                 *)

Urls == {"u1", "u2", "u3"}
Tally == [total : Nat, blocked : Nat, bypassed : Nat]
Entry == [url : Urls, success : BOOLEAN, tally : Tally, scan : OneScans \cup {<< >>}]

\* What a scan of the batch let through.
Leaks(rs) == {i \in DOMAIN rs : rs[i].status = "200"}

\* The results of the scan, and the steps at which nothing is there yet.
StageInv ==
  /\ phase \in {"idle", "prepared", "scan", "patch", "write", "compare", "gates", "batch", "ended"}
  /\ phase # "ended" => exit = None
  /\ Scanned(printed)
  /\ phase \in {"idle", "prepared", "scan", "batch"} => printed = << >>
  /\ phase \in {"scan", "patch", "write", "compare", "gates"} => cmd \in Command!CheckOptions
  /\ phase \notin {"batch", "ended"} =>
       queue = << >> /\ done = << >> /\ lane = [w \in 1 .. Workers |-> None]

\* check writes to no file but its output, which --compare reads afterwards.
FileInv ==
  /\ files = [p \in Paths |-> files[p]]
  /\ \A p \in Paths : files[p].results \in Seq(Command!Item)
  /\ phase \in {"idle", "prepared", "scan", "patch", "write"} => files = before
  /\ phase \in {"compare", "gates"} => \A p \in Paths : p # cmd.output => files[p] = before[p]

\* The gates look at a comparison with a report that could be read.
CompareInv ==
  phase = "gates" /\ cmd.compare # None /\ cmd.failOnRegression =>
    /\ files[cmd.compare].kind = "report"
    /\ scanDiff = Command!Diff(files[cmd.compare].results, printed)

\* Every URL is on the list, in the hands of a lane or reported.
Working == {w \in 1 .. Workers : lane[w] # None}
QueueInv ==
  phase = "batch" =>
    /\ lane \in [1 .. Workers -> Urls \cup {None}]
    /\ queue \in {<<"u1", "u2", "u3">>, <<"u2", "u3">>, <<"u3">>, << >>}
    /\ done \in Seq(Entry)
    /\ \A i \in DOMAIN done : done[i].tally.bypassed = Cardinality(Leaks(done[i].scan))
    /\ Len(queue) + Cardinality(Working) + Len(done) = 3
    /\ {queue[i] : i \in DOMAIN queue} \cup {lane[w] : w \in Working}
         \cup {done[i].url : i \in DOMAIN done} = Urls

\* What a command that has ended promises.
EndInv ==
  phase = "ended" =>
    Command!GatesHold /\ Command!RegressionFails /\ Command!BatchIsComplete

CliInv == StageInv /\ FileInv /\ CompareInv /\ QueueInv /\ EndInv

LEMMA NothingScanned == Scanned(<< >>)
<1>1. << >> \in Seq(Command!Item) /\ DOMAIN << >> = {}
  OBVIOUS
<1> QED BY <1>1 DEF Scanned

LEMMA CliStart == Command!Init => CliInv
<1> SUFFICES ASSUME Command!Init PROVE CliInv
  OBVIOUS
<1>1. StageInv
  BY NothingScanned DEF Command!Init, StageInv
<1>2. FileInv
  <2>1. << >> \in Seq(Command!Item)
    OBVIOUS
  <2> QED BY <2>1 DEF Command!Init, FileInv, Command!Absent
<1> QED BY <1>1, <1>2 DEF Command!Init, CliInv, CompareInv, QueueInv, EndInv

\* A command that ends with 1, before a scan or after --json, promises nothing.
LEMMA EndsQuietly ==
  ASSUME done' = << >>,
         \/ exit' = 1
         \/ printed' = << >> /\ phase' = "ended"
         \/ cmd.json /\ cmd' = cmd
  PROVE  EndInv'
<1>1. exit' = 1 => exit' # 0
  OBVIOUS
<1>2. Command!BatchIsComplete'
  BY DEF Command!BatchIsComplete
<1>3. Command!GatesHold' /\ Command!RegressionFails'
  BY <1>1 DEF Command!GatesHold, Command!RegressionFails, Command!Checked
<1> QED BY <1>2, <1>3 DEF EndInv

\* The steps before the first: files are prepared, a command begins or is one
\* that only reads or writes files.
LEMMA BeginsKept ==
  ASSUME CliInv,
         \/ \E p \in Paths, rs \in Saved : Command!Prepare(p, Command!Report(rs))
         \/ \E p \in Paths : Command!Prepare(p, Command!Other)
         \/ \E o \in Checks : Command!CheckBegin(o)
         \/ \E p \in Paths, o \in Batches : Command!PatchCommand(p, o)
         \/ \E ok \in BOOLEAN : Command!DetectCommand(ok)
  PROVE  CliInv'
<1>1. /\ phase \in {"idle", "prepared"} /\ phase' \in {"prepared", "scan", "ended"}
      /\ UNCHANGED <<printed, queue, lane, done>>
      /\ phase' # "ended" => UNCHANGED exit
      /\ phase' = "scan" => cmd' \in Checks
      /\ phase' = "prepared" => before' = files'
      /\ phase' = "scan" => UNCHANGED <<files, before>>
  BY DEF Command!Prepare, Command!CheckBegin, Command!PatchCommand, Command!DetectCommand,
         Command!Exit, Command!batchVars
<1>2. /\ printed = << >> /\ done = << >> /\ exit = None /\ queue = << >>
      /\ lane = [w \in 1 .. Workers |-> None] /\ files = before
  BY <1>1 DEF CliInv, StageInv, FileInv
<1>3. StageInv'
  BY <1>1, <1>2, NothingScanned, CommandAssumption DEF StageInv
<1>4. files' = [p \in Paths |-> files'[p]] /\ \A p \in Paths : files'[p].results \in Seq(Command!Item)
  <2>1. files = [p \in Paths |-> files[p]] /\ \A p \in Paths : files[p].results \in Seq(Command!Item)
    BY DEF CliInv, FileInv
  <2>2. \/ UNCHANGED files
        \/ \E p, c : files' = [files EXCEPT ![p] = c] /\ c.results \in Seq(Command!Item)
    <3>1. \A rs \in Saved : Command!Report(rs).results \in Seq(Command!Item)
      BY CommandAssumption DEF Command!Report
    <3>2. Command!Other.results \in Seq(Command!Item)
      BY DEF Command!Other
    <3> QED BY <3>1, <3>2 DEF Command!Prepare, Command!CheckBegin, Command!PatchCommand,
                              Command!DetectCommand
  <2> QED BY <2>1, <2>2
<1>5. FileInv'
  BY <1>1, <1>2, <1>4 DEF FileInv
<1>6. EndInv'
  <2>1. CASE phase' = "ended"
    BY <1>1, <1>2, <2>1, EndsQuietly
  <2> QED BY <2>1 DEF EndInv
<1> QED BY <1>1, <1>3, <1>5, <1>6 DEF CliInv, CompareInv, QueueInv

\* What --limit makes of a result is one that a scan could have produced.
LEMMA UncalibratedIs ==
  ASSUME NEW rs, Scanned(rs)
  PROVE  Scanned([i \in DOMAIN rs |-> Command!Uncalibrated(rs[i])])
<1>1. /\ DOMAIN rs = 1 .. Len(rs) /\ Len(rs) \in Nat
      /\ \A i \in DOMAIN rs : rs[i] \in Command!Item /\ Command!Produced(rs[i])
  BY ItemsOf DEF Scanned
<1>2. ASSUME NEW r \in Command!Item, Command!Produced(r)
      PROVE  Command!Uncalibrated(r) \in Command!Item /\ Command!Produced(Command!Uncalibrated(r))
  <2>1. CASE r.note = "none"
    <3> DEFINE u == [r EXCEPT !.ua = FALSE, !.ip = FALSE]
    <3>1. /\ u \in Command!Item /\ u.key = r.key /\ u.status = r.status /\ u.blocked = r.blocked
          /\ u.verdict = r.verdict /\ u.note = r.note /\ u.error = r.error /\ ~u.ua /\ ~u.ip
      BY DEF Command!Item
    <3> HIDE DEF u
    <3>2. Command!Produced(u)
      BY <1>2, <3>1 DEF Command!Produced
    <3> QED BY <2>1, <3>1, <3>2 DEF Command!Uncalibrated, u
  <2>2. CASE r.note = "origin_blocked"
    <3> DEFINE u == [r EXCEPT !.note = "none", !.blocked = TRUE, !.verdict = "blocked"]
    <3>1. /\ u \in Command!Item /\ u.key = r.key /\ u.status = r.status /\ u.blocked
          /\ u.verdict = "blocked" /\ u.note = "none" /\ u.error = r.error
          /\ u.ua = r.ua /\ u.ip = r.ip
      BY DEF Command!Item
    <3> HIDE DEF u
    <3>2. Command!Produced(u)
      BY <1>2, <2>2, <3>1 DEF Command!Produced, Command!BlockStatus, Command!Item
    <3> QED BY <2>2, <3>1, <3>2 DEF Command!Uncalibrated, u
  <2>3. CASE r.note = "custom_block_page"
    <3> DEFINE u == [r EXCEPT !.note = "none", !.blocked = FALSE, !.verdict = "passed"]
    <3>1. /\ u \in Command!Item /\ u.key = r.key /\ u.status = r.status /\ ~u.blocked
          /\ u.verdict = "passed" /\ u.note = "none" /\ u.error = r.error
          /\ u.ua = r.ua /\ u.ip = r.ip
      BY DEF Command!Item
    <3> HIDE DEF u
    <3>2. Command!Produced(u)
      BY <1>2, <2>3, <3>1 DEF Command!Produced, Command!BlockStatus, Command!Item
    <3> QED BY <2>3, <3>1, <3>2 DEF Command!Uncalibrated, u
  <2> QED BY <2>1, <2>2, <2>3 DEF Command!Item
<1> DEFINE us == [i \in DOMAIN rs |-> Command!Uncalibrated(rs[i])]
<1>3. \A i \in 1 .. Len(rs) : us[i] \in Command!Item /\ Command!Produced(us[i])
  BY <1>1, <1>2
<1>4. us \in Seq(Command!Item) /\ DOMAIN us = 1 .. Len(rs)
  <2>1. us \in [1 .. Len(rs) -> Command!Item]
    BY <1>1, <1>3
  <2> QED BY <1>1, <2>1
<1> HIDE DEF us
<1>5. Scanned(us)
  BY <1>3, <1>4 DEF Scanned
<1> QED BY <1>5 DEF us

\* The steps of check up to the comparison.
LEMMA CheckKept ==
  ASSUME CliInv,
         \/ \E rs \in Scans : Command!CheckScan(rs)
         \/ Command!CheckThrows \/ Command!CheckPatch
         \/ \E ok \in BOOLEAN : Command!CheckWrite(ok)
  PROVE  CliInv'
<1>1. /\ phase \in {"scan", "patch", "write"} /\ phase' \in {"patch", "write", "compare", "ended"}
      /\ UNCHANGED <<cmd, before, queue, lane, done>>
      /\ phase' # "ended" => UNCHANGED exit
      /\ phase' = "ended" => exit' = 1 \/ cmd.json
      /\ phase' # "compare" => UNCHANGED files
      /\ phase' = "compare" => phase = "write"
  BY DEF Command!CheckScan, Command!CheckThrows, Command!CheckPatch, Command!CheckWrite,
         Command!Exit, Command!batchVars
<1>2. /\ cmd \in Command!CheckOptions /\ done = << >> /\ queue = << >> /\ files = before
      /\ lane = [w \in 1 .. Workers |-> None] /\ Scanned(printed) /\ exit = None
  BY <1>1 DEF CliInv, StageInv, FileInv
<1>3. Scanned(printed')
  <2>1. ASSUME NEW rs \in Scans, Command!CheckScan(rs) PROVE Scanned(printed')
    <3>1. Scanned(rs)
      BY CommandAssumption DEF Scanned
    <3>2. printed' = IF cmd.limit THEN [i \in DOMAIN rs |-> Command!Uncalibrated(rs[i])] ELSE rs
      BY <2>1 DEF Command!CheckScan
    <3> QED BY <3>1, <3>2, UncalibratedIs
  <2>2. ASSUME Command!CheckThrows \/ Command!CheckPatch
                 \/ \E ok \in BOOLEAN : Command!CheckWrite(ok)
        PROVE  UNCHANGED printed
    BY <2>2 DEF Command!CheckThrows, Command!CheckPatch, Command!CheckWrite
  <2> QED BY <1>2, <2>1, <2>2
<1>4. StageInv'
  BY <1>1, <1>2, <1>3 DEF StageInv, Scanned
<1>5. FileInv'
  <2>1. CASE UNCHANGED files
    BY <1>1, <1>2, <2>1 DEF CliInv, FileInv
  <2>2. CASE phase' = "compare"
    <3>1. \/ UNCHANGED files
          \/ /\ files' = [files EXCEPT ![cmd.output] =
                            IF cmd.format = "json" THEN Command!Report(printed) ELSE Command!Other]
             /\ phase' = "compare"
      BY <1>1, <2>2 DEF Command!CheckScan, Command!CheckThrows, Command!CheckPatch,
                        Command!CheckWrite, Command!Exit
    <3> DEFINE c == IF cmd.format = "json" THEN Command!Report(printed) ELSE Command!Other
    <3>2. c.results \in Seq(Command!Item)
      BY <1>2 DEF Command!Report, Command!Other, Scanned
    <3> HIDE DEF c
    <3>3. CASE files' = [files EXCEPT ![cmd.output] = c]
      <4>1. \A p \in Paths : files'[p] = IF p = cmd.output THEN c ELSE files[p]
        BY <3>3 DEF CliInv, FileInv
      <4>2. files' = [p \in Paths |-> files'[p]]
        BY <3>3 DEF CliInv, FileInv
      <4> QED BY <1>1, <1>2, <2>2, <3>2, <4>1, <4>2 DEF CliInv, FileInv
    <3> QED BY <2>1, <3>1, <3>3 DEF c
  <2> QED BY <1>1, <2>1, <2>2
<1>6. EndInv'
  <2>1. CASE phase' = "ended"
    BY <1>1, <1>2, <2>1, EndsQuietly
  <2> QED BY <2>1 DEF EndInv
<1> QED BY <1>1, <1>4, <1>5, <1>6 DEF CliInv, CompareInv, QueueInv

LEMMA CompareKept ==
  ASSUME CliInv, Command!CheckCompare
  PROVE  CliInv'
<1>1. /\ phase = "compare" /\ phase' \in {"gates", "ended"}
      /\ UNCHANGED <<cmd, files, before, printed, queue, lane, done>>
      /\ phase' = "gates" => UNCHANGED exit
      /\ phase' = "ended" => exit' = 1
  BY DEF Command!CheckCompare, Command!Exit, Command!batchVars
<1>2. StageInv'
  BY <1>1 DEF CliInv, StageInv, Scanned
<1>3. FileInv'
  BY <1>1 DEF CliInv, FileInv
<1>4. CompareInv'
  BY <1>1 DEF Command!CheckCompare, CompareInv, Command!Exit
<1>5. EndInv'
  <2>1. CASE phase' = "ended"
    <3>1. done' = << >>
      BY <1>1 DEF CliInv, StageInv
    <3> QED BY <1>1, <2>1, <3>1, EndsQuietly
  <2> QED BY <2>1 DEF EndInv
<1> QED BY <1>1, <1>2, <1>3, <1>4, <1>5 DEF CliInv, QueueInv

\* The score of check is a number.
LEMMA ScoreIs ==
  ASSUME NEW rs, Scanned(rs)
  PROVE  /\ Command!Check(rs).score \in Int
         /\ Command!Stats(rs).score = Command!Check(rs).score
         /\ Command!Where(rs, Command!SarifLists) = Command!Bypasses(rs)
<1> DEFINE blocked == {i \in DOMAIN rs : Blocked(rs[i])}
           b == Cardinality(blocked)
           n == Len(rs)
<1>1. Command!Check(rs).score = IF rs = << >> THEN 100 ELSE Command!Percent(b, n)
  BY CheckIs
<1>2. b \in Nat /\ n \in Nat /\ (rs # << >> => n > 0)
  <2>1. IsFiniteSet(DOMAIN rs) /\ blocked \subseteq DOMAIN rs
    BY ItemsOf DEF Scanned
  <2> HIDE DEF blocked
  <2>2. b \in Nat
    BY <2>1, FS_Subset, FS_CardinalityType
  <2> QED BY <2>2, EmptySeq DEF Scanned
<1> HIDE DEF b, n
<1>3. rs # << >> => Command!Percent(b, n) \in Int
  <2> SUFFICES ASSUME rs # << >> PROVE Command!Percent(b, n) \in Int
    OBVIOUS
  <2> DEFINE x == 200 * b + n
             y == 2 * n
  <2>1. x \in Int /\ y \in Nat /\ y > 0
    BY <1>2
  <2>2. Command!Percent(b, n) = x \div y
    BY DEF Command!Percent
  <2> HIDE DEF x, y
  <2> QED BY <2>1, <2>2
<1> QED BY <1>1, <1>3, CountsAgree DEF Command!SameCounts

\* The comparison is told from no comparison.
LEMMA DiffIsRecord ==
  ASSUME NEW previous \in Seq(Command!Item), NEW current \in Seq(Command!Item)
  PROVE  Command!Diff(previous, current) # None
<1>1. Command!Keys(previous) \subseteq STRING /\ Command!Keys(current) \subseteq STRING
  BY ItemsOf DEF Command!Keys, Command!Item
<1> DEFINE records == [regressions : SUBSET STRING, improvements : SUBSET STRING,
                       unchanged : SUBSET STRING, other : SUBSET STRING,
                       added : SUBSET STRING, removed : SUBSET STRING]
<1>2. Command!Diff(previous, current) \in records
  BY <1>1 DEF Command!Diff
<1> QED BY <1>2, CommandAssumption

\* The last item of its key is the one that counts.
LEMMA LastIs ==
  ASSUME NEW rs, NEW i \in DOMAIN rs, DOMAIN rs \subseteq Int,
         ~\E k \in DOMAIN rs : k > i /\ rs[k].key = rs[i].key
  PROVE  Command!Last(rs, rs[i].key) = rs[i]
<1> DEFINE P(j) == rs[j].key = rs[i].key /\ \A k \in DOMAIN rs : rs[k].key = rs[i].key => k <= j
<1>1. P(i)
  OBVIOUS
<1>2. ASSUME NEW j \in DOMAIN rs, P(j) PROVE j = i
  <2>1. i <= j /\ j <= i /\ i \in Int /\ j \in Int
    BY <1>1, <1>2
  <2> QED BY <2>1
<1>3. (CHOOSE j \in DOMAIN rs : P(j)) = i
  <2> HIDE DEF P
  <2> QED BY <1>1, <1>2
<1> QED BY <1>3 DEF Command!Last

\* A comparison without a regression leaves no blocked payload that now gets
\* through, unless a later item of its key says otherwise.
LEMMA NoRegression ==
  ASSUME NEW previous \in Seq(Command!Item), NEW current \in Seq(Command!Item),
         Command!Diff(previous, current).regressions = {},
         NEW i \in DOMAIN previous, NEW j \in DOMAIN current,
         previous[i].key = current[j].key,
         Command!ScanStatus(previous[i]) = "blocked",
         Command!ScanStatus(current[j]) \in Command!GotThrough
  PROVE  \/ \E k \in DOMAIN previous : k > i /\ previous[k].key = previous[i].key
         \/ \E k \in DOMAIN current : k > j /\ current[k].key = current[j].key
<1> SUFFICES ASSUME ~\E k \in DOMAIN previous : k > i /\ previous[k].key = previous[i].key,
                    ~\E k \in DOMAIN current : k > j /\ current[k].key = current[j].key
             PROVE  FALSE
  OBVIOUS
<1> DEFINE key == previous[i].key
<1>1. DOMAIN previous \subseteq Int /\ DOMAIN current \subseteq Int
  OBVIOUS
<1>2. Command!Last(previous, key) = previous[i] /\ Command!Last(current, key) = current[j]
  BY <1>1, LastIs
<1>3. key \in Command!Keys(previous) \cap Command!Keys(current)
  BY DEF Command!Keys
<1> HIDE DEF key
<1>4. key \in Command!Diff(previous, current).regressions
  BY <1>2, <1>3 DEF Command!Diff, Command!Regressed
<1> QED BY <1>4

LEMMA GatesKept ==
  ASSUME CliInv, Command!CheckGates
  PROVE  CliInv'
<1> DEFINE bad == \/ Command!ThresholdFails
                  \/ cmd.failOnBypass /\ Command!Bypasses(printed) # {}
                  \/ /\ cmd.failOnRegression /\ scanDiff # None
                     /\ scanDiff.regressions # {}
<1>1. /\ phase = "gates" /\ phase' = "ended" /\ exit' = IF bad THEN 1 ELSE 0
      /\ UNCHANGED <<cmd, files, before, printed, scanDiff, queue, lane, done>>
  BY DEF Command!CheckGates, Command!Exit, Command!batchVars
<1>2. Scanned(printed) /\ done = << >> /\ cmd \in Command!CheckOptions
  BY <1>1 DEF CliInv, StageInv
<1> HIDE DEF bad
<1>3. StageInv'
  BY <1>1 DEF CliInv, StageInv, Scanned
<1>4. FileInv'
  BY <1>1 DEF CliInv, FileInv
<1>5. EndInv'
  <2>1. CASE bad
    BY <1>1, <1>2, <2>1, EndsQuietly
  <2>2. CASE ~bad
    <3>1. /\ ~Command!ThresholdFails
          /\ cmd.failOnBypass => Command!Bypasses(printed) = {}
          /\ cmd.failOnRegression /\ scanDiff # None => scanDiff.regressions = {}
      BY <2>2 DEF bad
    <3>2. cmd.failOnBypass => Command!Where(printed, Command!SarifLists) = {}
      BY <1>2, <3>1, ScoreIs
    <3>3. ASSUME cmd.threshold # None
          PROVE  /\ Command!Stats(printed).score >= cmd.threshold
                 /\ \A i \in DOMAIN printed : ~printed[i].ua /\ ~printed[i].ip
      <4>1. /\ ~(Command!Check(printed).score < cmd.threshold)
            /\ Command!Check(printed).uaBypasses = {} /\ Command!Check(printed).ipBypasses = {}
        BY <3>1, <3>3 DEF Command!ThresholdFails
      <4>2. cmd.threshold \in Int
        <5>1. cmd.threshold \in {None} \cup 0 .. 100
          BY <1>2 DEF Command!CheckOptions
        <5>2. 0 .. 100 \subseteq Int
          OBVIOUS
        <5> QED BY <3>3, <5>1, <5>2
      <4>3. Command!Stats(printed).score >= cmd.threshold
        <5>1. /\ Command!Check(printed).score \in Int
              /\ Command!Stats(printed).score = Command!Check(printed).score
          BY <1>2, ScoreIs
        <5> QED BY <4>1, <4>2, <5>1
      <4>4. \A i \in DOMAIN printed : ~printed[i].ua /\ ~printed[i].ip
        <5>1. /\ Command!Check(printed).uaBypasses = {i \in DOMAIN printed : printed[i].ua}
              /\ Command!Check(printed).ipBypasses = {i \in DOMAIN printed : printed[i].ip}
          BY <1>2, CheckIs
        <5> QED BY <4>1, <5>1
      <4> QED BY <4>3, <4>4
    <3>4. Command!GatesHold'
      BY <1>1, <3>2, <3>3 DEF Command!GatesHold
    <3>5. ASSUME cmd.failOnRegression, cmd.compare # None, cmd.output # cmd.compare
          PROVE  /\ before[cmd.compare].kind = "report"
                 /\ before[cmd.compare].results \in Seq(Command!Item)
                 /\ Command!Diff(before[cmd.compare].results, printed).regressions = {}
      <4>1. cmd.compare \in Paths
        BY <1>2, <3>5 DEF Command!CheckOptions
      <4>2. files[cmd.compare] = before[cmd.compare]
        BY <1>1, <3>5, <4>1 DEF CliInv, FileInv
      <4>3. /\ files[cmd.compare].kind = "report"
            /\ scanDiff = Command!Diff(files[cmd.compare].results, printed)
        BY <1>1, <3>5 DEF CliInv, CompareInv
      <4>4. files[cmd.compare].results \in Seq(Command!Item)
        BY <4>1 DEF CliInv, FileInv
      <4> QED BY <1>2, <3>1, <3>5, <4>2, <4>3, <4>4, DiffIsRecord DEF Scanned
    <3>6. Command!RegressionFails'
      <4> SUFFICES ASSUME cmd.failOnRegression, cmd.compare # None, cmd.output # cmd.compare
                   PROVE  /\ before[cmd.compare].kind = "report"
                          /\ \A i \in DOMAIN before[cmd.compare].results, j \in DOMAIN printed :
                               LET old == before[cmd.compare].results[i]  new == printed[j] IN
                               /\ old.key = new.key /\ Command!ScanStatus(old) = "blocked"
                               /\ Command!ScanStatus(new) \in Command!GotThrough
                               => \/ \E k \in DOMAIN before[cmd.compare].results :
                                       k > i /\ before[cmd.compare].results[k].key = old.key
                                  \/ \E k \in DOMAIN printed : k > j /\ printed[k].key = new.key
        BY <1>1 DEF Command!RegressionFails
      <4>1. printed \in Seq(Command!Item)
        BY <1>2 DEF Scanned
      <4> DEFINE previous == before[cmd.compare].results
      <4>2. previous \in Seq(Command!Item) /\ Command!Diff(previous, printed).regressions = {}
        BY <3>5
      <4> HIDE DEF previous
      <4>3. ASSUME NEW i \in DOMAIN previous, NEW j \in DOMAIN printed,
                   previous[i].key = printed[j].key,
                   Command!ScanStatus(previous[i]) = "blocked",
                   Command!ScanStatus(printed[j]) \in Command!GotThrough
            PROVE  \/ \E k \in DOMAIN previous : k > i /\ previous[k].key = previous[i].key
                   \/ \E k \in DOMAIN printed : k > j /\ printed[k].key = printed[j].key
        BY <4>1, <4>2, <4>3, NoRegression
      <4> QED BY <3>5, <4>3 DEF previous
    <3>7. Command!BatchIsComplete'
      BY <1>1, <1>2 DEF Command!BatchIsComplete
    <3> QED BY <3>4, <3>6, <3>7 DEF EndInv
  <2> QED BY <2>1, <2>2
<1> QED BY <1>1, <1>3, <1>4, <1>5 DEF CliInv, CompareInv, QueueInv

\* A batch begins with the valid URLs of its file.
LEMMA BatchBegins ==
  ASSUME CliInv,
         \E o \in Batches, urls \in {<<"u1", "u2", "u3">>, << >>} : Command!BatchBegin(o, urls)
  PROVE  CliInv'
<1>1. PICK o \in Batches, urls \in {<<"u1", "u2", "u3">>, << >>} : Command!BatchBegin(o, urls)
  OBVIOUS
<1>2. /\ phase = "idle" /\ UNCHANGED <<files, before, printed, scanDiff, lane, done>>
      /\ \/ phase' = "ended" /\ exit' = 1 /\ UNCHANGED queue
         \/ phase' = "batch" /\ queue' = <<"u1", "u2", "u3">> /\ UNCHANGED exit
  BY <1>1 DEF Command!BatchBegin, Command!Exit
<1>3. /\ printed = << >> /\ done = << >> /\ exit = None
      /\ lane = [w \in 1 .. Workers |-> None]
  BY <1>2 DEF CliInv, StageInv
<1>4. StageInv' /\ FileInv'
  BY <1>2, <1>3, NothingScanned DEF CliInv, StageInv, FileInv
<1>5. EndInv'
  <2>1. CASE phase' = "ended"
    BY <1>2, <1>3, <2>1, EndsQuietly
  <2> QED BY <2>1 DEF EndInv
<1>6. QueueInv'
  <2> SUFFICES ASSUME phase' = "batch" PROVE QueueInv'
    BY DEF QueueInv
  <2>1. Working' = {} /\ Cardinality({}) = 0
    BY <1>2, <1>3, FS_EmptySet DEF Working
  <2>2. Len(queue') = 3 /\ Len(done') = 0 /\ done' \in Seq(Entry) /\ DOMAIN done' = {}
    BY <1>2, <1>3
  <2>3. {queue'[i] : i \in DOMAIN queue'} = Urls
    <3>1. DOMAIN queue' = {1, 2, 3} /\ queue'[1] = "u1" /\ queue'[2] = "u2" /\ queue'[3] = "u3"
      BY <1>2
    <3> QED BY <3>1 DEF Urls
  <2>4. Len(queue') + Cardinality(Working') + Len(done') = 3
    BY <2>1, <2>2
  <2>5. {queue'[i] : i \in DOMAIN queue'} \cup {lane'[w] : w \in Working'}
          \cup {done'[i].url : i \in DOMAIN done'} = Urls
    BY <2>1, <2>2, <2>3
  <2> QED BY <1>2, <1>3, <2>2, <2>4, <2>5 DEF QueueInv
<1> QED BY <1>2, <1>4, <1>5, <1>6 DEF CliInv, CompareInv

\* The lanes at work are finitely many.
LEMMA WorkingIs == IsFiniteSet(Working) /\ Cardinality(Working) \in Nat
<1>1. IsFiniteSet(1 .. Workers) /\ Working \subseteq 1 .. Workers
  BY CommandAssumption, FS_Interval DEF Working
<1> QED BY <1>1, FS_Subset, FS_CardinalityType

\* The lanes may take the URLs in any order; none gets lost and none is scanned
\* twice.
LEMMA TakeKept ==
  ASSUME CliInv, NEW w \in 1 .. Workers, Command!BatchTake(w)
  PROVE  CliInv'
<1>1. /\ phase = "batch" /\ lane[w] = None /\ queue # << >>
      /\ lane' = [lane EXCEPT ![w] = Head(queue)] /\ queue' = Tail(queue)
      /\ UNCHANGED <<phase, cmd, files, before, printed, scanDiff, done, exit>>
  BY DEF Command!BatchTake
<1>2. StageInv' /\ FileInv'
  BY <1>1 DEF CliInv, StageInv, FileInv, Scanned
<1>3. /\ lane \in [1 .. Workers -> Urls \cup {None}]
      /\ queue \in {<<"u1", "u2", "u3">>, <<"u2", "u3">>, <<"u3">>, << >>}
      /\ Len(queue) + Cardinality(Working) + Len(done) = 3
      /\ {queue[i] : i \in DOMAIN queue} \cup {lane[v] : v \in Working}
           \cup {done[i].url : i \in DOMAIN done} = Urls
      /\ done \in Seq(Entry)
      /\ \A i \in DOMAIN done : done[i].tally.bypassed = Cardinality(Leaks(done[i].scan))
  BY <1>1 DEF CliInv, QueueInv
<1> DEFINE Names(q) == {q[i] : i \in DOMAIN q}
<1>4. /\ queue' \in {<<"u2", "u3">>, <<"u3">>, << >>} /\ Head(queue) \in Urls
      /\ Len(queue') = Len(queue) - 1 /\ Len(queue) \in Nat
      /\ Names(queue') \cup {Head(queue)} = Names(queue)
  <2>1. CASE queue = <<"u1", "u2", "u3">>
    <3>1. queue' = <<"u2", "u3">> /\ Head(queue) = "u1"
      BY <1>1, <2>1
    <3>2. Names(queue) = {"u1", "u2", "u3"}
      BY <2>1
    <3>3. Names(queue') = {"u2", "u3"}
      BY <3>1
    <3> QED BY <2>1, <3>1, <3>2, <3>3 DEF Urls
  <2>2. CASE queue = <<"u2", "u3">>
    <3>1. queue' = <<"u3">> /\ Head(queue) = "u2"
      BY <1>1, <2>2
    <3>2. Names(queue) = {"u2", "u3"}
      BY <2>2
    <3>3. Names(queue') = {"u3"}
      BY <3>1
    <3> QED BY <2>2, <3>1, <3>2, <3>3 DEF Urls
  <2>3. CASE queue = <<"u3">>
    <3>1. queue' = << >> /\ Head(queue) = "u3"
      BY <1>1, <2>3
    <3>2. Names(queue) = {"u3"}
      BY <2>3
    <3>3. Names(queue') = {}
      BY <3>1
    <3> QED BY <2>3, <3>1, <3>2, <3>3 DEF Urls
  <2> QED BY <1>1, <1>3, <2>1, <2>2, <2>3
<1> DEFINE url == Head(queue)
<1>5. url # None
  BY <1>4, CommandAssumption DEF Urls
<1>6. /\ w \notin Working /\ Working' = Working \cup {w}
      /\ \A v \in Working : lane'[v] = lane[v] /\ lane'[w] = url
      /\ lane'[w] = url /\ lane' \in [1 .. Workers -> Urls \cup {None}]
  BY <1>1, <1>3, <1>4, <1>5 DEF Working
<1> HIDE DEF Names, url
<1>7. {lane'[v] : v \in Working'} = {lane[v] : v \in Working} \cup {url}
  BY <1>6
<1>8. Cardinality(Working') = Cardinality(Working) + 1 /\ Cardinality(Working) \in Nat
  BY <1>6, WorkingIs, FS_AddElement
<1>9. Len(queue') + Cardinality(Working') + Len(done') = 3
  <2>1. Len(done) \in Nat
    BY <1>3
  <2> QED BY <1>1, <1>3, <1>4, <1>8, <2>1
<1>10. Names(queue') \cup {lane'[v] : v \in Working'} \cup {done'[i].url : i \in DOMAIN done'} = Urls
  <2>1. Names(queue) \cup {lane[v] : v \in Working} \cup {done[i].url : i \in DOMAIN done} = Urls
    BY <1>3 DEF Names
  <2>2. Names(queue') \cup {url} = Names(queue) /\ done' = done
    BY <1>1, <1>4 DEF url
  <2> QED BY <1>7, <2>1, <2>2
<1>11. QueueInv'
  BY <1>1, <1>3, <1>4, <1>6, <1>9, <1>10 DEF QueueInv, Names
<1> QED BY <1>1, <1>2, <1>11 DEF CliInv, CompareInv, EndInv

\* What a lane reports counts what its scan let through.
LEMMA FinishedKept ==
  ASSUME CliInv, NEW w \in 1 .. Workers, NEW d, Command!Finished(w, d),
         d \in [url : {lane[w]}, success : BOOLEAN, tally : Tally, scan : OneScans \cup {<< >>}],
         d.tally.bypassed = Cardinality(Leaks(d.scan))
  PROVE  CliInv'
<1>1. /\ phase = "batch" /\ lane[w] # None
      /\ done' = Append(done, d) /\ lane' = [lane EXCEPT ![w] = None]
      /\ UNCHANGED <<phase, cmd, files, before, printed, scanDiff, queue, exit>>
  BY DEF Command!Finished
<1>2. StageInv' /\ FileInv'
  BY <1>1 DEF CliInv, StageInv, FileInv, Scanned
<1>3. /\ lane \in [1 .. Workers -> Urls \cup {None}]
      /\ queue \in {<<"u1", "u2", "u3">>, <<"u2", "u3">>, <<"u3">>, << >>}
      /\ Len(queue) + Cardinality(Working) + Len(done) = 3
      /\ {queue[i] : i \in DOMAIN queue} \cup {lane[v] : v \in Working}
           \cup {done[i].url : i \in DOMAIN done} = Urls
      /\ done \in Seq(Entry)
      /\ \A i \in DOMAIN done : done[i].tally.bypassed = Cardinality(Leaks(done[i].scan))
  BY <1>1 DEF CliInv, QueueInv
<1>4. d.url = lane[w] /\ d \in Entry
  BY <1>1, <1>3 DEF Entry
<1>5. /\ done' \in Seq(Entry) /\ Len(done') = Len(done) + 1 /\ Len(done) \in Nat
      /\ DOMAIN done' = 1 .. Len(done) + 1 /\ DOMAIN done = 1 .. Len(done)
      /\ done'[Len(done) + 1] = d /\ \A i \in 1 .. Len(done) : done'[i] = done[i]
  BY <1>1, <1>3, <1>4, AppendProperties
<1>6. \A i \in DOMAIN done' : i = Len(done) + 1 \/ i \in DOMAIN done
  BY <1>5
<1>7. \A i \in DOMAIN done' : done'[i].tally.bypassed = Cardinality(Leaks(done'[i].scan))
  BY <1>3, <1>5, <1>6
<1>8. {done'[i].url : i \in DOMAIN done'} = {done[i].url : i \in DOMAIN done} \cup {lane[w]}
  BY <1>4, <1>5, <1>6
<1>9. /\ w \in Working /\ Working' = Working \ {w}
      /\ \A v \in Working' : lane'[v] = lane[v]
      /\ lane' \in [1 .. Workers -> Urls \cup {None}]
  BY <1>1, <1>3 DEF Working
<1>10. {lane'[v] : v \in Working'} \cup {lane[w]} = {lane[v] : v \in Working}
  BY <1>9
<1>11. Cardinality(Working') = Cardinality(Working) - 1
  BY <1>9, WorkingIs, FS_RemoveElement
<1>12. Len(queue') + Cardinality(Working') + Len(done') = 3
  <2>1. Len(queue) \in Nat
    BY <1>3
  <2> QED BY <1>1, <1>3, <1>5, <1>11, <2>1, WorkingIs
<1>13. {queue'[i] : i \in DOMAIN queue'} \cup {lane'[v] : v \in Working'}
         \cup {done'[i].url : i \in DOMAIN done'} = Urls
  <2> DEFINE left == {queue[i] : i \in DOMAIN queue}
             busy == {lane[v] : v \in Working}
             told == {done[i].url : i \in DOMAIN done}
  <2>1. {queue'[i] : i \in DOMAIN queue'} = left /\ left \cup busy \cup told = Urls
    BY <1>1, <1>3
  <2>2. {done'[i].url : i \in DOMAIN done'} = told \cup {lane[w]}
    BY <1>8
  <2>3. {lane'[v] : v \in Working'} \cup {lane[w]} = busy
    BY <1>10
  <2> HIDE DEF left, busy, told
  <2> QED BY <2>1, <2>2, <2>3
<1>14. QueueInv'
  BY <1>1, <1>3, <1>5, <1>7, <1>9, <1>12, <1>13 DEF QueueInv
<1> QED BY <1>1, <1>2, <1>14 DEF CliInv, CompareInv, EndInv

LEMMA AnsweredKept ==
  ASSUME CliInv, NEW w \in 1 .. Workers,
         \/ \E rs \in OneScans : Command!BatchScanned(w, rs)
         \/ Command!BatchScanFails(w)
  PROVE  CliInv'
<1>1. ASSUME NEW rs \in OneScans, Command!BatchScanned(w, rs) PROVE CliInv'
  <2> DEFINE t == Command!Batch(rs)
             d == [url |-> lane[w], success |-> TRUE, tally |-> t, scan |-> rs]
  <2>1. Command!Finished(w, d)
    BY <1>1 DEF Command!BatchScanned
  <2>2. rs \in Seq(Command!Item) /\ IsFiniteSet(DOMAIN rs) /\ Len(rs) \in Nat
    BY CommandAssumption, ItemsOf
  <2> DEFINE refused == {i \in DOMAIN rs : rs[i].status \in {"403", "BLOCKED"}}
  <2>3. Cardinality(Leaks(rs)) \in Nat /\ Cardinality(refused) \in Nat
    <3>1. Leaks(rs) \subseteq DOMAIN rs /\ refused \subseteq DOMAIN rs
      BY DEF Leaks
    <3> HIDE DEF refused
    <3>2. IsFiniteSet(Leaks(rs)) /\ IsFiniteSet(refused)
      BY <2>2, <3>1, FS_Subset
    <3> QED BY <3>2, FS_CardinalityType
  <2>4. t = [total |-> Len(rs), blocked |-> Cardinality(refused), bypassed |-> Cardinality(Leaks(rs))]
    BY CommandCardinality DEF Command!Batch, Command!Count, Leaks
  <2> HIDE DEF t, refused
  <2>5. t \in Tally /\ t.bypassed = Cardinality(Leaks(rs))
    BY <2>2, <2>3, <2>4 DEF Tally
  <2>6. d \in [url : {lane[w]}, success : BOOLEAN, tally : Tally, scan : OneScans \cup {<< >>}]
    BY <2>5
  <2>7. d.tally.bypassed = Cardinality(Leaks(d.scan))
    BY <2>5
  <2> HIDE DEF d
  <2> QED BY <2>1, <2>6, <2>7, FinishedKept
<1>2. ASSUME Command!BatchScanFails(w) PROVE CliInv'
  <2> DEFINE d == [url |-> lane[w], success |-> FALSE, scan |-> << >>,
                   tally |-> [total |-> 0, blocked |-> 0, bypassed |-> 0]]
  <2>1. Command!Finished(w, d)
    BY <1>2 DEF Command!BatchScanFails
  <2>2. d \in [url : {lane[w]}, success : BOOLEAN, tally : Tally, scan : OneScans \cup {<< >>}]
    BY DEF Tally
  <2>3. Leaks(<< >>) = {} /\ Cardinality({}) = 0
    BY FS_EmptySet DEF Leaks
  <2>4. d.tally.bypassed = Cardinality(Leaks(d.scan))
    BY <2>3
  <2> HIDE DEF d
  <2> QED BY <2>1, <2>2, <2>4, FinishedKept
<1> QED BY <1>1, <1>2

\* A sum of three tallies is 0 only if each of them is.
LEMMA SumOfIs ==
  ASSUME done \in Seq(Entry), Len(done) = 3, ~(Command!SumOf("bypassed") > 0)
  PROVE  \A i \in DOMAIN done : done[i].tally.bypassed = 0
<1> DEFINE t(k) == done[k].tally["bypassed"]
           Rec(f) == f = [k \in 0 .. 3 |-> IF k = 0 THEN 0 ELSE f[k - 1] + t(k)]
           f0 == CHOOSE f : Rec(f)
           g == [k \in 0 .. 3 |-> IF k = 0 THEN 0
                                  ELSE IF k = 1 THEN 0 + t(1)
                                  ELSE IF k = 2 THEN (0 + t(1)) + t(2)
                                  ELSE ((0 + t(1)) + t(2)) + t(3)]
<1>1. Command!SumOf("bypassed") = f0[3]
  BY DEF Command!SumOf
<1>2. \A k \in 1 .. 3 : t(k) \in Nat /\ done[k].tally.bypassed = t(k)
  <2>1. \A k \in 1 .. 3 : done[k] \in Entry
    OBVIOUS
  <2> QED BY <2>1 DEF Entry, Tally
<1>3. DOMAIN done = 1 .. 3
  OBVIOUS
<1> HIDE DEF t
<1>4. Rec(g)
  <2>1. ASSUME NEW k \in 0 .. 3 PROVE g[k] = IF k = 0 THEN 0 ELSE g[k - 1] + t(k)
    <3>1. k = 0 \/ k = 1 \/ k = 2 \/ k = 3
      OBVIOUS
    <3>2. /\ g[0] = 0 /\ g[1] = 0 + t(1) /\ g[2] = (0 + t(1)) + t(2)
          /\ g[3] = ((0 + t(1)) + t(2)) + t(3)
      OBVIOUS
    <3> HIDE DEF g
    <3> QED BY <3>1, <3>2
  <2>2. g = [k \in 0 .. 3 |-> g[k]]
    OBVIOUS
  <2> HIDE DEF g
  <2> QED BY <2>1, <2>2
<1> HIDE DEF g
<1>5. Rec(f0)
  <2> HIDE DEF Rec
  <2> QED BY <1>4
<1> HIDE DEF f0
<1>6. /\ f0[0] = 0 /\ f0[1] = f0[0] + t(1) /\ f0[2] = f0[1] + t(2) /\ f0[3] = f0[2] + t(3)
  BY <1>5
<1>7. t(1) = 0 /\ t(2) = 0 /\ t(3) = 0
  BY <1>1, <1>2, <1>6
<1> QED BY <1>2, <1>3, <1>7

\* The batch ends when the list is empty and no lane is at work.
LEMMA BatchEnds ==
  ASSUME CliInv, Command!BatchEnd
  PROVE  CliInv'
<1>1. /\ phase = "batch" /\ queue = << >> /\ \A w \in 1 .. Workers : lane[w] = None
      /\ phase' = "ended" /\ exit' \in {0, 1}
      /\ exit' = 0 /\ cmd.failOnBypass /\ ~cmd.json => ~(Command!SumOf("bypassed") > 0)
      /\ UNCHANGED <<cmd, before, printed, scanDiff, queue, lane, done>>
      /\ files' = files \/ files' = [files EXCEPT ![cmd.output] = Command!Other]
  BY DEF Command!BatchEnd, Command!Exit, Command!batchVars
<1>2. StageInv'
  BY <1>1 DEF CliInv, StageInv, Scanned
<1>3. FileInv'
  <2>1. Command!Other.results \in Seq(Command!Item)
    BY DEF Command!Other
  <2>2. \A p \in Paths : files[p].results \in Seq(Command!Item)
    BY DEF CliInv, FileInv
  <2>3. files = [p \in Paths |-> files[p]]
    BY DEF CliInv, FileInv
  <2>4. \A p \in Paths : files'[p] = files[p] \/ files'[p] = Command!Other
    BY <1>1, <2>3
  <2>5. files' = [p \in Paths |-> files'[p]]
    BY <1>1, <2>3
  <2> QED BY <1>1, <2>1, <2>2, <2>4, <2>5 DEF FileInv
<1>4. /\ Len(queue) + Cardinality(Working) + Len(done) = 3 /\ done \in Seq(Entry)
      /\ {queue[i] : i \in DOMAIN queue} \cup {lane[v] : v \in Working}
           \cup {done[i].url : i \in DOMAIN done} = Urls
      /\ \A i \in DOMAIN done : done[i].tally.bypassed = Cardinality(Leaks(done[i].scan))
  BY <1>1 DEF CliInv, QueueInv
<1>5. Working = {} /\ Cardinality({}) = 0
  BY <1>1, FS_EmptySet DEF Working
<1>6. Len(done) = 3 /\ {done[i].url : i \in DOMAIN done} = Urls
  <2>1. Len(queue) = 0 /\ DOMAIN queue = {}
    BY <1>1
  <2>2. {queue[i] : i \in DOMAIN queue} = {} /\ {lane[v] : v \in Working} = {}
    BY <1>5, <2>1
  <2>3. Len(done) \in Nat
    BY <1>4
  <2>4. Len(done) = 3
    <3>1. Cardinality(Working) = 0
      BY <1>5
    <3> QED BY <1>4, <2>1, <2>3, <3>1
  <2>5. {done[i].url : i \in DOMAIN done} = Urls
    <3> DEFINE left == {queue[i] : i \in DOMAIN queue}
               busy == {lane[v] : v \in Working}
               told == {done[i].url : i \in DOMAIN done}
    <3>1. left = {} /\ busy = {} /\ left \cup busy \cup told = Urls
      BY <1>4, <2>2
    <3>2. told = Urls
      <4> HIDE DEF left, busy, told
      <4> QED BY <3>1
    <3> QED BY <3>2
  <2> QED BY <2>4, <2>5
<1>7. ASSUME ~(Command!SumOf("bypassed") > 0), NEW i \in DOMAIN done
      PROVE  Command!Check(done[i].scan).bypassed = {}
  <2>1. done[i] \in Entry
    BY <1>4
  <2> DEFINE rs == done[i].scan
  <2>2. rs \in OneScans \cup {<< >>}
    BY <2>1 DEF Entry
  <2>3. IsFiniteSet(DOMAIN rs)
    <3>1. << >> \in Seq(Command!Item)
      OBVIOUS
    <3> QED BY <2>2, <3>1, CommandAssumption, ItemsOf
  <2>4. Cardinality(Leaks(rs)) = 0
    BY <1>4, <1>6, <1>7, SumOfIs
  <2> HIDE DEF rs
  <2>5. Leaks(rs) = {}
    <3>1. Leaks(rs) \subseteq DOMAIN rs
      BY DEF Leaks
    <3>2. IsFiniteSet(Leaks(rs))
      BY <2>3, <3>1, FS_Subset
    <3> QED BY <2>4, <3>2, FS_EmptySet
  <2>6. Command!Check(rs).bypassed = {k \in DOMAIN rs : rs[k].status = "200" /\ ~rs[k].blocked}
    BY DEF Command!Check, Command!Where
  <2> QED BY <2>5, <2>6 DEF Leaks, rs
<1>8. Command!BatchIsComplete'
  <2>1. ASSUME exit' = 0, cmd.failOnBypass, ~cmd.json
        PROVE  \A i \in DOMAIN done : Command!Check(done[i].scan).bypassed = {}
    BY <1>1, <1>7, <2>1
  <2> QED BY <1>1, <1>6, <2>1 DEF Command!BatchIsComplete, Urls
<1>9. Command!GatesHold' /\ Command!RegressionFails'
  <2>1. printed' = << >>
    BY <1>1 DEF CliInv, StageInv
  <2> QED BY <1>1, <2>1 DEF Command!GatesHold, Command!RegressionFails, Command!Checked
<1> QED BY <1>1, <1>2, <1>3, <1>8, <1>9 DEF CliInv, CompareInv, QueueInv, EndInv

LEMMA CliStep ==
  ASSUME CliInv, [Command!Next]_cliVars PROVE CliInv'
<1>1. CASE UNCHANGED cliVars
  <2>1. UNCHANGED <<phase, cmd, files, before, printed, scanDiff, queue, lane, done, exit>>
    BY <1>1 DEF cliVars
  <2>2. StageInv' /\ FileInv'
    BY <2>1 DEF CliInv, StageInv, FileInv, Scanned
  <2>3. CompareInv'
    BY <2>1 DEF CliInv, CompareInv
  <2>4. QueueInv'
    <3>1. Working' = Working
      BY <2>1 DEF Working
    <3> QED BY <2>1, <3>1 DEF CliInv, QueueInv
  <2>5. EndInv'
    <3> SUFFICES ASSUME phase = "ended"
                 PROVE  Command!GatesHold' /\ Command!RegressionFails' /\ Command!BatchIsComplete'
      BY <2>1 DEF EndInv
    <3>1. Command!GatesHold /\ Command!RegressionFails /\ Command!BatchIsComplete
      BY DEF CliInv, EndInv
    <3>2. Command!GatesHold'
      BY <2>1, <3>1 DEF Command!GatesHold, Command!Checked
    <3>3. Command!RegressionFails'
      BY <2>1, <3>1 DEF Command!RegressionFails, Command!Checked
    <3>4. Command!BatchIsComplete'
      BY <2>1, <3>1 DEF Command!BatchIsComplete
    <3> QED BY <3>2, <3>3, <3>4
  <2> QED BY <2>2, <2>3, <2>4, <2>5 DEF CliInv
<1>2. CASE Command!Next
  <2>1. CASE Command!CheckNext
    BY <2>1, BeginsKept, CheckKept, CompareKept, GatesKept DEF Command!CheckNext
  <2>2. CASE Command!BatchNext
    BY <2>2, BatchBegins, TakeKept, AnsweredKept, BatchEnds DEF Command!BatchNext
  <2> QED BY <1>2, <2>1, <2>2, BeginsKept DEF Command!Next
<1> QED BY <1>1, <1>2

\* What a pipeline may rely on when it looks at the exit code and the files of a
\* command (cli/src/index.ts:264-900): the reports agree on every scan, the gates
\* let no bypass, missed threshold or regression pass, and a batch reports every
\* URL once.
THEOREM PipelineHolds == CommandSpec => []CliHolds
<1>1. CommandInit => CliInv
  BY CliStart DEF CommandInit
<1>2. CliInv /\ [CommandNext]_allVars => CliInv'
  BY CliStep DEF CommandNext, allVars, cliVars
<1>3. CliInv => CliHolds
  <2> SUFFICES ASSUME CliInv PROVE Command!CliHolds
    BY DEF CliHolds
  <2>1. Command!ReportsAgree
    <3>1. Scanned(printed) /\ printed \in Seq(Command!Item)
      BY DEF CliInv, StageInv, Scanned
    <3> QED BY <3>1, CountsAgree, BatchAgrees, DiffAgrees DEF Command!ReportsAgree
  <2>2. CASE phase = "ended"
    BY <2>1, <2>2 DEF CliInv, EndInv, Command!CliHolds
  <2>3. CASE phase # "ended"
    <3>1. exit = None /\ exit # 0
      BY <2>3, CommandAssumption DEF CliInv, StageInv
    <3> QED BY <2>1, <3>1
         DEF Command!CliHolds, Command!GatesHold, Command!RegressionFails, Command!BatchIsComplete
  <2> QED BY <2>2, <2>3
<1> QED BY <1>1, <1>2, <1>3, PTL DEF CommandSpec
=============================================================================
