---------------------------- MODULE ServiceProofs ----------------------------
(***************************************************************************)
(* Proofs about what the worker does over time, the parts of MCService:    *)
(* the deadline of the daily run (CronQueue), for any subscriptions and    *)
(* any durations; the refusals of the rate limiter (RateLimit), for any    *)
(* requests that overlap and any calls of the storage that fail; and the   *)
(* alerts of the daily comparison (Fingerprint), for any plans and any     *)
(* behaviour of the target.                                                *)
(***************************************************************************)
EXTENDS MCService, Induction, FiniteSetTheorems, TLAPS

\* The instances count with a Cardinality of their own, which is the same.
LEMMA OneCardinality ==
  \A S : Limiter!Cardinality(S) = Cardinality(S) /\ Daily!Cardinality(S) = Cardinality(S)
BY DEF Cardinality, Limiter!Cardinality, Daily!Cardinality

-----------------------------------------------------------------------------
(* The daily run.                                                          *)

CronInv == elapsed \in Nat /\ elapsed <= RunDeadline

LEMMA CronStart == Init => CronInv
BY CronAssumption DEF Init, CronInv

\* A subscription is started on only while its worst case fits, so it ends
\* before the deadline (schedule.ts:606-612).
LEMMA TakeFits ==
  ASSUME CronInv, NEW s \in Subs, NEW t \in Times, Take(s, t) PROVE CronInv'
<1> USE CronAssumption
<1>1. t \in Nat /\ t <= Worst
  OBVIOUS
<1>2. elapsed' = elapsed + t /\ elapsed + Worst <= RunDeadline
  BY DEF Take, HasTime
<1> QED BY <1>1, <1>2 DEF CronInv

LEMMA CronStep ==
  ASSUME CronInv, [Next]_vars PROVE CronInv'
<1>1. CASE UNCHANGED vars
  BY <1>1 DEF vars, CronInv
<1>2. CASE Traffic \/ DayPasses
  BY <1>2 DEF Traffic, Join, Leave, DayPasses, CronInv
<1>3. ASSUME NEW s \in Subs, NEW t \in Times, CronSkip(s, t) \/ CronScan(s, t) \/ CronFail(s, t)
      PROVE  CronInv'
  BY <1>3, TakeFits DEF CronSkip, CronScan, CronFail
<1>4. CASE CronEnd
  BY <1>4, CronAssumption DEF CronEnd, CronInv
<1>5. ASSUME NEW t \in Listing, CronBegin(t) PROVE CronInv'
  BY <1>5, CronAssumption DEF CronBegin, Listing, CronInv
<1> QED BY <1>1, <1>2, <1>3, <1>4, <1>5 DEF Next, Run, CronWork, Failure

-----------------------------------------------------------------------------
(* The order of the daily run.                                             *)

\* In s every member of A stands before every member of B.
Ahead(s, A, B) ==
  \A i, j \in 1 .. Len(s) : s[i] \in A /\ s[j] \in B => i < j

\* What a run left behind stands before what was scanned since it began, and
\* waits: none of it is recent.
OrderInv ==
  /\ queue \in Seq(Subs)
  /\ left \subseteq Active \ recent /\ fresh \subseteq Active
  /\ Ahead(queue, left, fresh)

LEMMA ActiveIs ==
  ASSUME queue \in Seq(Subs)
  PROVE  /\ Len(queue) \in Nat
         /\ \A s : s \in Active <=> \E i \in 1 .. Len(queue) : queue[i] = s
         /\ \A i \in 1 .. Len(queue) : queue[i] \in Subs
BY LenProperties, ElementOfSeq DEF Active, ToSet

\* Filtering keeps what stands before what.
LEMMA KeepAhead ==
  ASSUME NEW s \in Seq(Subs), NEW S, NEW A, NEW B, Ahead(s, A, B)
  PROVE  /\ Ahead(Keep(s, S), A, B)
         /\ ToSet(Keep(s, S)) = ToSet(s) \cap S
         /\ Keep(s, S) \in Seq(Subs)
<1> DEFINE t == Keep(s, S)
<1>1. PICK h : Picks(h, t, s, S, Len(s))
  BY KeepIs
<1>2. t \in Seq(Subs)
  BY KeepIs
<1>3. Len(s) \in Nat /\ Len(t) \in Nat /\ DOMAIN s = 1 .. Len(s) /\ DOMAIN t = 1 .. Len(t)
  BY <1>2, LenProperties
<1> HIDE DEF t
<1>4. /\ \A k \in 1 .. Len(t) : h[k] \in 1 .. Len(s) /\ t[k] = s[h[k]] /\ t[k] \in S
      /\ \A j, k \in 1 .. Len(t) : j < k => h[j] < h[k]
      /\ \A i \in 1 .. Len(s) : s[i] \in S => \E k \in 1 .. Len(t) : h[k] = i
  BY <1>1 DEF Picks
<1>5. Ahead(t, A, B)
  <2> SUFFICES ASSUME NEW i \in 1 .. Len(t), NEW j \in 1 .. Len(t), t[i] \in A, t[j] \in B
               PROVE  i < j
    BY DEF Ahead
  <2>1. h[i] \in 1 .. Len(s) /\ h[j] \in 1 .. Len(s) /\ s[h[i]] \in A /\ s[h[j]] \in B
    BY <1>4
  <2>2. h[i] < h[j]
    BY <2>1 DEF Ahead
  <2>3. ~(j < i) /\ i # j
    BY <1>4, <2>1, <2>2
  <2> QED BY <2>3
<1>6. ToSet(t) = ToSet(s) \cap S
  BY SMTT(30), <1>3, <1>4 DEF ToSet
<1> QED BY <1>2, <1>5, <1>6 DEF t

\* At the end of the queue s is ahead of nothing.
LEMMA AppendAhead ==
  ASSUME NEW q \in Seq(Subs), NEW s \in Subs, NEW A, NEW B, Ahead(q, A, B),
         s \notin A, s \notin ToSet(q)
  PROVE  /\ Ahead(Append(q, s), A, B \cup {s})
         /\ ToSet(Append(q, s)) = ToSet(q) \cup {s}
         /\ Append(q, s) \in Seq(Subs)
<1> DEFINE t == Append(q, s)
<1>1. /\ Len(q) \in Nat /\ t \in Seq(Subs) /\ Len(t) = Len(q) + 1 /\ t[Len(q) + 1] = s
      /\ \A k \in 1 .. Len(q) : t[k] = q[k]
  BY LenProperties, AppendProperties
<1>2. DOMAIN q = 1 .. Len(q) /\ DOMAIN t = 1 .. Len(t)
  BY <1>1, LenProperties
<1> HIDE DEF t
<1>3. Ahead(t, A, B \cup {s})
  <2> SUFFICES ASSUME NEW i \in 1 .. Len(t), NEW j \in 1 .. Len(t), t[i] \in A,
                      t[j] \in B \cup {s}
               PROVE  i < j
    BY DEF Ahead
  <2>1. i \in 1 .. Len(q) /\ q[i] \in A
    BY <1>1
  <2>2. CASE j \in 1 .. Len(q) /\ q[j] \in B
    BY <2>1, <2>2 DEF Ahead
  <2>3. CASE j = Len(q) + 1
    BY <1>1, <2>1, <2>3
  <2>4. j \in 1 .. Len(q) => t[j] # s
    BY <1>1, <1>2 DEF ToSet
  <2> QED BY <1>1, <2>1, <2>2, <2>3, <2>4
<1>4. ToSet(t) = ToSet(q) \cup {s}
  BY <1>1, <1>2 DEF ToSet
<1> QED BY <1>1, <1>3, <1>4 DEF t

LEMMA OrderStart == Init => OrderInv
BY EmptySeq DEF Init, OrderInv, Ahead

\* A new subscription stands at the end.
LEMMA OrderJoin ==
  ASSUME OrderInv, NEW s \in Subs, Join(s) PROVE OrderInv'
<1>1. s \notin Active /\ s \notin left
  BY DEF Join, OrderInv
<1>2. /\ Ahead(Append(queue, s), left, fresh \cup {s})
      /\ ToSet(Append(queue, s)) = Active \cup {s}
      /\ Append(queue, s) \in Seq(Subs)
  BY <1>1, AppendAhead DEF OrderInv, Active
<1>3. queue' = Append(queue, s) /\ recent' = recent \cup {s} /\ fresh' = fresh \cup {s} /\ left' = left
  BY DEF Join
<1>4. Active' = Active \cup {s}
  BY <1>2, <1>3 DEF Active
<1> QED BY <1>1, <1>2, <1>3, <1>4 DEF OrderInv

LEMMA OrderLeave ==
  ASSUME OrderInv, NEW s \in Subs, Leave(s) PROVE OrderInv'
<1>1. /\ queue' = Keep(queue, Active \ {s})
      /\ recent' = recent \ {s} /\ fresh' = fresh \ {s} /\ left' = left \ {s}
  BY DEF Leave
<1>2. /\ Ahead(queue', left, fresh) /\ ToSet(queue') = Active \ {s} /\ queue' \in Seq(Subs)
  BY <1>1, KeepAhead DEF OrderInv, Active
<1>3. Active' = Active \ {s}
  BY <1>2 DEF Active
<1>4. Ahead(queue', left', fresh')
  BY <1>1, <1>2 DEF Ahead
<1> QED BY <1>1, <1>2, <1>3, <1>4 DEF OrderInv

\* What is scanned goes to the end and is left behind no more; what is not keeps
\* its place.
LEMMA OrderWork ==
  ASSUME OrderInv, NEW s \in Subs, NEW t, CronSkip(s, t) \/ CronScan(s, t) \/ CronFail(s, t)
  PROVE  OrderInv'
<1>1. left' = left \ {s}
  BY DEF CronSkip, CronScan, CronFail, Take
<1>2. CASE UNCHANGED <<queue, recent, fresh>>
  BY <1>1, <1>2 DEF OrderInv, Active, Ahead
<1>3. CASE queue' = Requeued(s) /\ recent' = recent \cup {s} /\ fresh' = fresh \cup {s}
  <2> DEFINE rest == Keep(queue, Active \ {s})
  <2>1. Ahead(rest, left, fresh) /\ ToSet(rest) = Active \ {s} /\ rest \in Seq(Subs)
    BY KeepAhead DEF OrderInv, Active
  <2> HIDE DEF rest
  <2>2. Ahead(rest, left', fresh)
    BY <1>1, <2>1 DEF Ahead
  <2>3. /\ Ahead(Append(rest, s), left', fresh \cup {s})
        /\ ToSet(Append(rest, s)) = (Active \ {s}) \cup {s}
        /\ Append(rest, s) \in Seq(Subs)
    BY <1>1, <2>1, <2>2, AppendAhead
  <2>4. queue' = Append(rest, s)
    BY <1>3 DEF Requeued, rest
  <2>5. Active' = Active \cup {s}
    BY <2>3, <2>4 DEF Active
  <2>6. left' \subseteq Active' \ recent' /\ fresh' \subseteq Active'
    BY <1>1, <1>3, <2>5 DEF OrderInv
  <2> QED BY <1>3, <2>3, <2>4, <2>6 DEF OrderInv
<1> QED BY <1>2, <1>3 DEF CronSkip, CronScan, CronFail

LEMMA OrderBegin ==
  ASSUME OrderInv, NEW t, CronBegin(t) PROVE OrderInv'
<1>1. UNCHANGED <<queue, recent>> /\ left' = ToSet(Candidates) /\ fresh' = {}
  BY DEF CronBegin
<1>2. ToSet(Candidates) = Active \ recent
  <2>1. Ahead(queue, {}, {})
    BY DEF Ahead
  <2>2. ToSet(Candidates) = Active \cap (Active \ recent)
    BY <2>1, KeepAhead DEF Candidates, OrderInv, Active
  <2> QED BY <2>2
<1> QED BY <1>1, <1>2 DEF OrderInv, Active, Ahead

LEMMA OrderStep ==
  ASSUME OrderInv, [Next]_vars PROVE OrderInv'
<1>1. CASE UNCHANGED vars
  BY <1>1 DEF vars, OrderInv, Active, Ahead
<1>2. CASE Traffic
  BY <1>2, OrderJoin, OrderLeave DEF Traffic
<1>3. CASE DayPasses \/ CronEnd
  BY <1>3 DEF DayPasses, CronEnd, OrderInv, Active, Ahead
<1>4. CASE CronWork \/ Failure
  BY <1>4, OrderWork DEF CronWork, Failure
<1>5. CASE \E t \in Listing : CronBegin(t)
  BY <1>5, OrderBegin
<1> QED BY <1>1, <1>2, <1>3, <1>4, <1>5 DEF Next, Run

\* A run that takes what was scanned since the last one began has taken all that
\* the last one left behind: that stands before it.
LEMMA LeftoversFirst ==
  ASSUME OrderInv, [Next]_vars, ~running, running', ToSet(due') \cap fresh # {}
  PROVE  left \subseteq ToSet(due')
<1>1. due' = FirstOf(Candidates)
  BY DEF Next, vars, Traffic, Join, Leave, DayPasses, Run, CronWork, CronSkip, CronScan,
         CronEnd, Failure, CronFail, Take, CronBegin
<1>2. PICK h : Picks(h, Candidates, queue, Active \ recent, Len(queue))
  BY KeepIs DEF OrderInv, Candidates
<1> DEFINE c == Candidates
           n == IF Len(c) > Cap THEN Cap ELSE Len(c)
<1>3. c \in Seq(Subs)
  BY KeepIs DEF OrderInv, Candidates
<1>4. Len(c) \in Nat /\ \A k \in 1 .. Len(c) : c[k] \in Subs
  BY <1>3, LenProperties, ElementOfSeq
<1>5. n \in Nat /\ n <= Len(c) /\ (n < Len(c) => n = Cap)
  BY <1>4, CronAssumption
<1>6. ToSet(due') = {c[k] : k \in 1 .. n}
  <2>1. CASE Len(c) > Cap
    <3>1. due' = SubSeq(c, 1, Cap)
      BY <1>1, <2>1 DEF FirstOf
    <3>2. \A k \in 1 .. Cap : c[k] \in Subs
      BY <1>4, <2>1, CronAssumption
    <3>3. /\ due' \in Seq(Subs) /\ Len(due') = Cap
          /\ \A k \in 1 .. Cap : due'[k] = c[k]
      BY <1>3, <1>4, <2>1, <3>1, <3>2, CronAssumption, SubSeqProperties
    <3>4. DOMAIN due' = 1 .. Cap
      BY <3>3, LenProperties
    <3> QED BY <2>1, <3>3, <3>4 DEF ToSet
  <2>2. CASE ~(Len(c) > Cap)
    <3>1. due' = c /\ DOMAIN c = 1 .. Len(c)
      BY <1>1, <1>3, <2>2, LenProperties DEF FirstOf
    <3> QED BY <2>2, <3>1 DEF ToSet
  <2> QED BY <2>1, <2>2
<1> HIDE DEF n, c
<1>7. PICK m \in 1 .. n : c[m] \in fresh
  BY <1>6
<1>8. ASSUME NEW s \in left PROVE s \in ToSet(due')
  <2>1. PICK i \in 1 .. Len(queue) : queue[i] = s
    BY ActiveIs DEF OrderInv
  <2>2. s \in Active \ recent
    BY DEF OrderInv
  <2>3. PICK k \in 1 .. Len(c) : h[k] = i
    BY <1>2, <2>1, <2>2 DEF Picks, c
  <2>4. m \in 1 .. Len(c) /\ h[m] \in 1 .. Len(queue) /\ queue[h[m]] = c[m] /\ c[k] = s
    <3>1. m \in 1 .. Len(c)
      BY <1>4, <1>5, <1>7
    <3>2. c[k] = queue[h[k]]
      BY <1>2, <2>3 DEF Picks, c
    <3>3. h[m] \in 1 .. Len(queue) /\ queue[h[m]] = c[m]
      BY <1>2, <3>1 DEF Picks, c
    <3> QED BY <2>1, <2>3, <3>1, <3>2, <3>3
  <2>5. i < h[m]
    BY <1>7, <2>1, <2>4 DEF OrderInv, Ahead
  <2>6. m < k => h[m] < h[k]
    BY <1>2, <2>3, <2>4 DEF Picks, c
  <2>7. Len(queue) \in Nat
    BY ActiveIs DEF OrderInv
  <2>8. ~(m < k)
    BY <2>1, <2>3, <2>4, <2>5, <2>6, <2>7
  <2>9. k \in 1 .. n
    BY <1>4, <1>5, <1>7, <2>3, <2>8
  <2> QED BY <1>6, <2>4, <2>9
<1> QED BY <1>8

-----------------------------------------------------------------------------
(* The rate limiter.                                                       *)

\* The requests that f counts in the window from s: CountedSince(s) is of call.
Since(f, s) == {r \in Requests : f[r].counted /\ f[r].start = s}

Phases == {"new", "get", "write", "allowed", "denied"}

Calls == [phase : Phases, count : Nat, start : Int, at : Int, counted : BOOLEAN]

LimitTypes ==
  /\ clock \in Int /\ expires \in Int
  /\ stored \in {Absent, Legacy} \cup [count : Nat, windowStart : Int]
  /\ call \in [Requests -> Calls]

\* The stored count, and the one a request is about to raise, is one of
\* requests that were let through and written.
CountInv ==
  /\ stored \notin {Absent, Legacy} =>
       Cardinality(Since(call, stored.windowStart)) >= stored.count
  /\ \A r \in Requests : call[r].phase \in {"write", "denied"} =>
       Cardinality(Since(call, call[r].start)) >= call[r].count

PhaseInv ==
  \A r \in Requests :
    /\ call[r].counted => call[r].phase = "allowed"
    /\ call[r].phase = "denied" =>
         call[r].count >= MaxAttempts /\ call[r].at - call[r].start < Window

LimitInv == LimitTypes /\ CountInv /\ PhaseInv

-----------------------------------------------------------------------------

\* Requests counted by f in a window, and counted by g in the same one, are no
\* fewer in g: storing the counter only ever adds to a window
\* (rate-limiter.ts:53).
LEMMA SinceGrows ==
  ASSUME IsFiniteSet(Requests), NEW f, NEW g, NEW s,
         \A r \in Requests : f[r].counted => g[r].counted /\ g[r].start = f[r].start
  PROVE  /\ Cardinality(Since(f, s)) \in Nat
         /\ Cardinality(Since(g, s)) \in Nat
         /\ Cardinality(Since(f, s)) <= Cardinality(Since(g, s))
<1>1. Since(f, s) \subseteq Since(g, s) /\ Since(g, s) \subseteq Requests
  BY DEF Since
<1>2. IsFiniteSet(Since(g, s))
  BY <1>1, FS_Subset
<1>3. IsFiniteSet(Since(f, s)) /\ Cardinality(Since(f, s)) <= Cardinality(Since(g, s))
  BY <1>1, <1>2, FS_Subset
<1> QED BY <1>2, <1>3, FS_CardinalityType

\* A request counted for the first time makes its window one larger.
LEMMA SinceGains ==
  ASSUME IsFiniteSet(Requests), NEW f, NEW g, NEW q \in Requests,
         ~f[q].counted, g[q].counted,
         \A r \in Requests : f[r].counted => g[r].counted /\ g[r].start = f[r].start
  PROVE  Cardinality(Since(g, g[q].start)) >= Cardinality(Since(f, g[q].start)) + 1
<1> DEFINE Before == Since(f, g[q].start)
           After  == Since(g, g[q].start)
<1>1. q \notin Before /\ Before \cup {q} \subseteq After /\ After \subseteq Requests
  BY DEF Since
<1>2. IsFiniteSet(After)
  BY <1>1, FS_Subset
<1>3. IsFiniteSet(Before)
  BY <1>1, <1>2, FS_Subset
<1>4. Cardinality(Before \cup {q}) = Cardinality(Before) + 1
  BY <1>1, <1>3, FS_AddElement
<1>5. Cardinality(Before \cup {q}) <= Cardinality(After)
  BY <1>1, <1>2, FS_Subset
<1>6. Cardinality(Before) \in Nat /\ Cardinality(After) \in Nat
  BY <1>2, <1>3, FS_CardinalityType
<1> QED BY <1>4, <1>5, <1>6

LEMMA LimitInit ==
  ASSUME Limiter!Init PROVE LimitInv
<1> USE ServiceAssumption
<1>1. LimitTypes
  BY DEF Limiter!Init, Limiter!Waiting, LimitTypes, Calls, Phases
<1>2. CountInv
  BY DEF Limiter!Init, Limiter!Waiting, CountInv
<1>3. PhaseInv
  BY DEF Limiter!Init, Limiter!Waiting, PhaseInv
<1> QED BY <1>1, <1>2, <1>3 DEF LimitInv

\* The window a request finds is well formed; it is a new one, or the stored
\* one less than a window old (rate-limiter.ts:35-48).
LEMMA CurrentIs ==
  ASSUME LimitTypes, NEW at \in Int
  PROVE  /\ Limiter!Current(at) \in [count : Nat, windowStart : Int]
         /\ \/ Limiter!Current(at) = [count |-> 0, windowStart |-> at]
            \/ /\ stored \notin {Absent, Legacy} /\ Limiter!Current(at) = stored
               /\ at - stored.windowStart < Window
<1> USE ServiceAssumption
<1>1. CASE Limiter!Value \in {Absent, Legacy}
  BY <1>1 DEF Limiter!Current
<1>2. CASE Limiter!Value \notin {Absent, Legacy}
  <2>1. Limiter!Value = stored /\ stored \in [count : Nat, windowStart : Int]
    BY <1>2 DEF Limiter!Value, LimitTypes
  <2>2. CASE at - stored.windowStart >= Window
    BY <1>2, <2>1, <2>2 DEF Limiter!Current
  <2>3. CASE ~(at - stored.windowStart >= Window)
    <3>1. Limiter!Current(at) = stored
      BY <1>2, <2>1, <2>3 DEF Limiter!Current
    <3>2. at - stored.windowStart < Window
      BY <2>1, <2>3
    <3> QED BY <1>2, <2>1, <3>1, <3>2
  <2> QED BY <2>2, <2>3
<1> QED BY <1>1, <1>2

\* A step that changes neither the stored value nor what is counted, and leaves
\* the window of every request that has read one alone.
LEMMA CountKept ==
  ASSUME LimitInv, stored' = stored,
         \A r \in Requests :
           /\ call[r].counted => call'[r].counted /\ call'[r].start = call[r].start
           /\ call'[r].phase \in {"write", "denied"} =>
                \/ call'[r].count = 0
                \/ /\ call[r].phase \in {"write", "denied"}
                   /\ call'[r].start = call[r].start /\ call'[r].count = call[r].count
                \/ /\ stored \notin {Absent, Legacy}
                   /\ call'[r].start = stored.windowStart /\ call'[r].count = stored.count
  PROVE  CountInv'
<1> USE ServiceAssumption
<1>1. ASSUME NEW s PROVE /\ Cardinality(Since(call, s)) \in Nat
                         /\ Cardinality(Since(call', s)) \in Nat
                         /\ Cardinality(Since(call, s)) <= Cardinality(Since(call', s))
  BY SinceGrows
<1>2. ASSUME stored' \notin {Absent, Legacy}
      PROVE  Cardinality(Since(call', stored'.windowStart)) >= stored'.count
  <2>1. stored \in [count : Nat, windowStart : Int]
    BY <1>2 DEF LimitInv, LimitTypes
  <2>2. Cardinality(Since(call, stored.windowStart)) >= stored.count
    BY <1>2 DEF LimitInv, CountInv
  <2> QED BY <1>1, <2>1, <2>2
<1>3. ASSUME NEW r \in Requests, call'[r].phase \in {"write", "denied"}
      PROVE  Cardinality(Since(call', call'[r].start)) >= call'[r].count
  <2>1. CASE call'[r].count = 0
    BY <1>1, <2>1
  <2>2. CASE /\ call[r].phase \in {"write", "denied"}
             /\ call'[r].start = call[r].start /\ call'[r].count = call[r].count
    <3>1. call[r].count \in Nat
      BY DEF LimitInv, LimitTypes, Calls
    <3>2. Cardinality(Since(call, call[r].start)) >= call[r].count
      BY <2>2 DEF LimitInv, CountInv
    <3> QED BY <1>1, <2>2, <3>1, <3>2
  <2>3. CASE /\ stored \notin {Absent, Legacy}
             /\ call'[r].start = stored.windowStart /\ call'[r].count = stored.count
    <3>1. stored.count \in Nat
      BY <2>3 DEF LimitInv, LimitTypes
    <3>2. Cardinality(Since(call, stored.windowStart)) >= stored.count
      BY <2>3 DEF LimitInv, CountInv
    <3> QED BY <1>1, <2>3, <3>1, <3>2
  <2> QED BY <1>3, <2>1, <2>2, <2>3
<1> QED BY <1>2, <1>3 DEF CountInv

LEMMA TickInv ==
  ASSUME LimitInv, Limiter!Tick PROVE LimitInv'
<1> USE ServiceAssumption
<1>1. LimitTypes'
  BY DEF LimitInv, LimitTypes, Limiter!Tick
<1>2. CountInv'
  BY CountKept DEF Limiter!Tick
<1>3. PhaseInv'
  BY DEF LimitInv, PhaseInv, Limiter!Tick
<1> QED BY <1>1, <1>2, <1>3 DEF LimitInv

LEMMA BeginInv ==
  ASSUME LimitInv, NEW q \in Requests, Limiter!Begin(q) PROVE LimitInv'
<1> USE ServiceAssumption
<1>1. call \in [Requests -> Calls]
  BY DEF LimitInv, LimitTypes
<1>2. LimitTypes'
  BY ZenonT(30), <1>1 DEF LimitInv, LimitTypes, Calls, Phases, Limiter!Begin
<1>3. \A r \in Requests : /\ call'[r].counted = call[r].counted
                          /\ call'[r].start = call[r].start
                          /\ call'[r].count = call[r].count
                          /\ call'[r].phase # "get" => call'[r] = call[r]
  BY <1>1 DEF Calls, Limiter!Begin
<1>4. CountInv'
  BY <1>3, CountKept DEF Limiter!Begin
<1>5. PhaseInv'
  BY <1>1 DEF LimitInv, PhaseInv, Limiter!Begin, Calls
<1> QED BY <1>2, <1>4, <1>5 DEF LimitInv

\* kv.get answers: the count a request carries is the stored one.
LEMMA ReadInv ==
  ASSUME LimitInv, NEW q \in Requests, Limiter!Read(q) PROVE LimitInv'
<1> USE ServiceAssumption
<1> DEFINE state == Limiter!Current(call[q].at)
<1>1. call \in [Requests -> Calls] /\ call[q] \in Calls
  BY DEF LimitInv, LimitTypes
<1>2. call[q].at \in Int
  BY <1>1 DEF Calls
<1>3. /\ state \in [count : Nat, windowStart : Int]
      /\ \/ state = [count |-> 0, windowStart |-> call[q].at]
         \/ /\ stored \notin {Absent, Legacy} /\ state = stored
            /\ call[q].at - stored.windowStart < Window
  BY <1>2, CurrentIs DEF LimitInv
<1>4. ~call[q].counted
  BY DEF LimitInv, PhaseInv, Limiter!Read
<1>5. /\ call'[q].phase = IF state.count >= MaxAttempts THEN "denied" ELSE "write"
      /\ call'[q].count = state.count /\ call'[q].start = state.windowStart
      /\ call'[q].at = call[q].at /\ call'[q].counted = call[q].counted
      /\ call'[q] \in Calls
  <2> HIDE DEF state
  <2>1. call' = [call EXCEPT ![q].phase = IF state.count >= MaxAttempts THEN "denied" ELSE "write",
                             ![q].count = state.count, ![q].start = state.windowStart]
    BY DEF Limiter!Read, state
  <2> QED BY <1>1, <1>3, <2>1 DEF Calls, Phases
<1>6. \A r \in Requests \ {q} : call'[r] = call[r]
  BY <1>1 DEF Limiter!Read
<1>7. LimitTypes'
  <2>1. call' = [r \in Requests |-> call'[r]]
    BY <1>1 DEF Limiter!Read
  <2>2. \A r \in Requests : call'[r] \in Calls
    BY <1>1, <1>5, <1>6
  <2>3. call' \in [Requests -> Calls]
    BY <2>1, <2>2
  <2> QED BY <2>3 DEF LimitInv, LimitTypes, Limiter!Read
<1> HIDE DEF state
<1>8. CountInv'
  <2>1. call'[q].count = 0 \/ /\ stored \notin {Absent, Legacy}
                              /\ call'[q].start = stored.windowStart
                              /\ call'[q].count = stored.count
    BY <1>3, <1>5
  <2>2. stored' = stored
    BY DEF Limiter!Read
  <2> QED BY <1>4, <1>6, <2>1, <2>2, CountKept
<1>9. PhaseInv'
  <2>1. ~call'[q].counted
    BY <1>4, <1>5
  <2>2. ASSUME call'[q].phase = "denied"
        PROVE  call'[q].count >= MaxAttempts /\ call'[q].at - call'[q].start < Window
    <3>1. state.count >= MaxAttempts
      BY <1>5, <2>2
    <3>2. stored \notin {Absent, Legacy} /\ state = stored
          /\ call[q].at - stored.windowStart < Window
      BY <1>3, <3>1
    <3> QED BY <1>5, <3>1, <3>2
  <2> QED BY <1>6, <2>1, <2>2 DEF LimitInv, PhaseInv
<1> QED BY <1>7, <1>8, <1>9 DEF LimitInv

\* kv.put: the value written is one more than the count that was read, and the
\* request that writes it is itself one more of its window.
LEMMA WriteInv ==
  ASSUME LimitInv, NEW q \in Requests, Limiter!Write(q) PROVE LimitInv'
<1> USE ServiceAssumption
<1>1. call \in [Requests -> Calls] /\ call[q] \in Calls
  BY DEF LimitInv, LimitTypes
<1>2. /\ call'[q].phase = "allowed" /\ call'[q].counted
      /\ call'[q].start = call[q].start /\ call'[q] \in Calls
      /\ \A r \in Requests \ {q} : call'[r] = call[r]
  BY <1>1 DEF Limiter!Write, Calls, Phases
<1>3. ~call[q].counted
  BY DEF LimitInv, PhaseInv, Limiter!Write
<1>4. stored' = [count |-> call[q].count + 1, windowStart |-> call[q].start]
      /\ call[q].count \in Nat /\ call[q].start \in Int /\ call[q].at \in Int
  BY <1>1 DEF Limiter!Write, Calls
<1>5. LimitTypes'
  <2>1. call' \in [Requests -> Calls]
    BY <1>1 DEF Limiter!Write, Calls, Phases
  <2>2. clock' \in Int /\ expires' \in Int
    BY SMTT(30), <1>4 DEF LimitInv, LimitTypes, Limiter!Write, Limiter!Larger
  <2>3. stored' \in [count : Nat, windowStart : Int]
    BY <1>4
  <2> QED BY <2>1, <2>2, <2>3 DEF LimitTypes
<1>6. \A r \in Requests : call[r].counted => call'[r].counted /\ call'[r].start = call[r].start
  BY <1>2
<1>7. ASSUME NEW s PROVE /\ Cardinality(Since(call, s)) \in Nat
                         /\ Cardinality(Since(call', s)) \in Nat
                         /\ Cardinality(Since(call, s)) <= Cardinality(Since(call', s))
  BY <1>6, SinceGrows
<1>8. Cardinality(Since(call', stored'.windowStart)) >= stored'.count
  <2>1. Cardinality(Since(call', call'[q].start)) >= Cardinality(Since(call, call'[q].start)) + 1
    BY <1>2, <1>3, <1>6, SinceGains
  <2>2. Cardinality(Since(call, call[q].start)) >= call[q].count
    BY DEF LimitInv, CountInv, Limiter!Write
  <2> QED BY <1>2, <1>4, <1>7, <2>1, <2>2
<1>9. ASSUME NEW r \in Requests, call'[r].phase \in {"write", "denied"}
      PROVE  Cardinality(Since(call', call'[r].start)) >= call'[r].count
  <2>1. r # q /\ call'[r] = call[r]
    BY <1>2, <1>9
  <2>2. call[r].count \in Nat /\ Cardinality(Since(call, call[r].start)) >= call[r].count
    BY <1>1, <1>9, <2>1 DEF LimitInv, CountInv, Calls
  <2> QED BY <1>7, <2>1, <2>2
<1>10. CountInv'
  BY <1>8, <1>9 DEF CountInv
<1>11. PhaseInv'
  BY <1>2 DEF LimitInv, PhaseInv
<1> QED BY <1>5, <1>10, <1>11 DEF LimitInv

LEMMA FailsInv ==
  ASSUME LimitInv, NEW q \in Requests, Limiter!Fails(q) PROVE LimitInv'
<1> USE ServiceAssumption
<1>1. call \in [Requests -> Calls]
  BY DEF LimitInv, LimitTypes
<1>2. LimitTypes'
  BY <1>1 DEF LimitInv, LimitTypes, Calls, Phases, Limiter!Fails
<1>3. \A r \in Requests : /\ call'[r].counted = call[r].counted
                          /\ call'[r].start = call[r].start
                          /\ call'[r].count = call[r].count
                          /\ call'[r].phase # "allowed" => call'[r] = call[r]
  BY <1>1 DEF Calls, Limiter!Fails
<1>4. CountInv'
  BY <1>3, CountKept DEF Limiter!Fails
<1>5. PhaseInv'
  BY <1>1 DEF LimitInv, PhaseInv, Limiter!Fails, Calls
<1> QED BY <1>2, <1>4, <1>5 DEF LimitInv

LEMMA LimitStep ==
  ASSUME LimitInv, [Limiter!Next]_(Limiter!vars) PROVE LimitInv'
<1>1. CASE UNCHANGED Limiter!vars
  BY <1>1 DEF Limiter!vars, LimitInv, LimitTypes, CountInv, PhaseInv
<1>2. CASE Limiter!Tick
  BY <1>2, TickInv
<1>3. ASSUME NEW q \in Requests, Limiter!Begin(q) PROVE LimitInv'
  BY <1>3, BeginInv
<1>4. ASSUME NEW q \in Requests, Limiter!Read(q) PROVE LimitInv'
  BY <1>4, ReadInv
<1>5. ASSUME NEW q \in Requests, Limiter!Write(q) PROVE LimitInv'
  BY <1>5, WriteInv
<1>6. ASSUME NEW q \in Requests, Limiter!Fails(q) PROVE LimitInv'
  BY <1>6, FailsInv
<1> QED BY <1>1, <1>2, <1>3, <1>4, <1>5, <1>6 DEF Limiter!Next

-----------------------------------------------------------------------------
(* The daily comparison.                                                   *)

Targets == [waf : Wafs \cup {None}, weak : SUBSET Items, up : BOOLEAN]
Bases   == [target : Targets, detection : Wafs \cup {None}]

\* The fingerprint of b: Fingerprinted(d) is of the target as it is now.
Bypassed(b) == IF b.target.up THEN Cardinality(Daily!Passing(b)) ELSE 0
FpOf(b) ==
  [waf |-> b.detection, bypassed |-> Bypassed(b), total |-> Len(PlanOf[b.detection]),
   blocked |-> IF b.target.up THEN Len(PlanOf[b.detection]) - Bypassed(b) ELSE 0]

\* The baseline is the fingerprint of its basis, and a comparison is of the
\* fingerprints of two scans.
DailyInv ==
  /\ target \in Targets
  /\ base # None => basis \in Bases /\ base = FpOf(basis)
  /\ diff # None =>
       /\ diff.since \in Bases /\ diff.now \in Bases
       /\ diff.result = Daily!Diff(FpOf(diff.since), FpOf(diff.now))

-----------------------------------------------------------------------------

\* The items that pass are finitely many, and fewer when some no longer do.
LEMMA PassingFinite ==
  ASSUME NEW a \in Bases
  PROVE  IsFiniteSet(Daily!Passing(a)) /\ Cardinality(Daily!Passing(a)) \in Nat
<1>1. PlanOf[a.detection] \in Seq(Items)
  BY ServiceAssumption DEF Bases
<1>2. DOMAIN PlanOf[a.detection] = 1 .. Len(PlanOf[a.detection]) /\ Len(PlanOf[a.detection]) \in Nat
  BY <1>1
<1>3. IsFiniteSet(DOMAIN PlanOf[a.detection])
  BY <1>2, FS_Interval
<1>4. Daily!Passing(a) \subseteq DOMAIN PlanOf[a.detection]
  BY DEF Daily!Passing
<1>5. IsFiniteSet(Daily!Passing(a))
  BY <1>3, <1>4, FS_Subset
<1> QED BY <1>5, FS_CardinalityType

LEMMA FingerprintedIs ==
  ASSUME NEW d
  PROVE  Daily!Fingerprinted(d) = FpOf([target |-> target, detection |-> d])
BY OneCardinality DEF Daily!Fingerprinted, FpOf, Bypassed, Daily!Passing

LEMMA ScanInv ==
  ASSUME DailyInv, NEW d \in Wafs \cup {None}, Daily!Scan(d) PROVE DailyInv'
<1> DEFINE now == [target |-> target, detection |-> d]
<1>1. target' = target /\ target \in Targets
  BY DEF DailyInv, Daily!Scan
<1>2. now \in Bases
  BY <1>1 DEF Bases
<1>3. base' = FpOf(now) /\ basis' = now
  BY FingerprintedIs DEF Daily!Scan
<1>4. ASSUME diff' # None
      PROVE  /\ diff'.since \in Bases /\ diff'.now \in Bases
             /\ diff'.result = Daily!Diff(FpOf(diff'.since), FpOf(diff'.now))
  <2>1. base # None
    BY <1>4 DEF Daily!Scan
  <2>2. diff' = [result |-> Daily!Diff(base, Daily!Fingerprinted(d)), since |-> basis, now |-> now]
    BY <2>1 DEF Daily!Scan
  <2>3. diff'.result = Daily!Diff(base, Daily!Fingerprinted(d)) /\ diff'.since = basis /\ diff'.now = now
    BY <2>2
  <2>4. basis \in Bases /\ base = FpOf(basis)
    BY <2>1 DEF DailyInv
  <2>5. Daily!Fingerprinted(d) = FpOf(now)
    BY FingerprintedIs
  <2> QED BY <1>2, <2>3, <2>4, <2>5
<1> QED BY <1>1, <1>2, <1>3, <1>4 DEF DailyInv

LEMMA DailyStart == Daily!Init => DailyInv
BY DEF Daily!Init, DailyInv, Targets

LEMMA DailyStep ==
  ASSUME DailyInv, [Daily!Next]_(Daily!vars) PROVE DailyInv'
<1>1. CASE UNCHANGED Daily!vars
  BY <1>1 DEF Daily!vars, DailyInv
<1>2. ASSUME NEW w \in Wafs \cup {None}, NEW weak \in SUBSET Items, NEW up \in BOOLEAN,
             Daily!Change([waf |-> w, weak |-> weak, up |-> up])
      PROVE  DailyInv'
  BY <1>2 DEF Daily!Change, DailyInv, Targets
<1>3. ASSUME NEW d \in Wafs \cup {None}, Daily!Scan(d) PROVE DailyInv'
  BY <1>3, ScanInv
<1> QED BY <1>1, <1>2, <1>3 DEF Daily!Next

\* An alert of a comparison of two scans has one of the three causes, and no
\* alert means no more bypasses (monitor.ts:24-48).
LEMMA Compared ==
  ASSUME NEW a \in Bases, NEW b \in Bases
  PROVE  LET result == Daily!Diff(FpOf(a), FpOf(b)) IN
         /\ result.alert => \/ a.detection # b.detection
                            \/ ~a.target.up
                            \/ b.target.up /\ Daily!Passing(b) \ Daily!Passing(a) # {}
         /\ ~result.alert /\ a.target.up /\ b.target.up =>
              a.detection = b.detection /\ Cardinality(Daily!Passing(b)) <= Cardinality(Daily!Passing(a))
         /\ a = b => ~result.changed
<1> DEFINE result == Daily!Diff(FpOf(a), FpOf(b))
<1>1. /\ result.alert <=> a.detection # b.detection \/ Bypassed(b) > Bypassed(a)
      /\ result.changed <=> FpOf(a) # FpOf(b)
  BY DEF Daily!Diff, FpOf
<1> HIDE DEF result
<1>2. /\ IsFiniteSet(Daily!Passing(a)) /\ Cardinality(Daily!Passing(a)) \in Nat
      /\ Cardinality(Daily!Passing(b)) \in Nat
  BY PassingFinite
<1>3. ASSUME result.alert, a.detection = b.detection, a.target.up
      PROVE  b.target.up /\ Daily!Passing(b) \ Daily!Passing(a) # {}
  <2>1. Bypassed(b) > Cardinality(Daily!Passing(a))
    BY <1>1, <1>3 DEF Bypassed
  <2>2. b.target.up
    BY <1>2, <2>1 DEF Bypassed
  <2>3. Cardinality(Daily!Passing(b)) > Cardinality(Daily!Passing(a))
    BY <2>1, <2>2 DEF Bypassed
  <2>4. ~(Daily!Passing(b) \subseteq Daily!Passing(a))
    BY <1>2, <2>3, FS_Subset
  <2> QED BY <2>2, <2>4
<1>4. ASSUME ~result.alert, a.target.up, b.target.up
      PROVE  a.detection = b.detection /\ Cardinality(Daily!Passing(b)) <= Cardinality(Daily!Passing(a))
  BY <1>1, <1>2, <1>4 DEF Bypassed
<1>5. a = b => ~result.changed
  BY <1>1
<1>6. /\ result.alert => \/ a.detection # b.detection
                         \/ ~a.target.up
                         \/ b.target.up /\ Daily!Passing(b) \ Daily!Passing(a) # {}
      /\ ~result.alert /\ a.target.up /\ b.target.up =>
           a.detection = b.detection /\ Cardinality(Daily!Passing(b)) <= Cardinality(Daily!Passing(a))
      /\ a = b => ~result.changed
  BY <1>3, <1>4, <1>5
<1> QED BY <1>6 DEF result

-----------------------------------------------------------------------------
(* The service.                                                            *)

\* A caller is refused only after maxAttempts calls in a window that is not over.
LEMMA RefusedInTime == LimitInv => Limiter!RefusalIsDeserved
<1> SUFFICES ASSUME LimitInv PROVE Limiter!RefusalIsDeserved
  OBVIOUS
<1>1. \A s : Limiter!CountedSince(s) = Since(call, s)
  BY DEF Limiter!CountedSince, Since
<1>2. ASSUME stored \notin {Absent, Legacy}
      PROVE  Cardinality(Limiter!CountedSince(stored.windowStart)) >= stored.count
  BY <1>1, <1>2 DEF LimitInv, CountInv
<1>3. ASSUME NEW r \in Requests, call[r].phase = "denied"
      PROVE  /\ Cardinality(Limiter!CountedSince(call[r].start)) >= MaxAttempts
             /\ call[r].at - call[r].start < Window
  <2>1. call[r].count \in Nat /\ call[r].count >= MaxAttempts
        /\ call[r].at - call[r].start < Window
    BY <1>3 DEF LimitInv, LimitTypes, Calls, PhaseInv
  <2>2. Cardinality(Since(call, call[r].start)) >= call[r].count
    BY <1>3 DEF LimitInv, CountInv
  <2>3. Cardinality(Since(call, call[r].start)) \in Nat
    BY SinceGrows, ServiceAssumption
  <2> QED BY <1>1, <2>1, <2>2, <2>3, ServiceAssumption
<1> QED BY <1>2, <1>3, OneCardinality DEF Limiter!RefusalIsDeserved

ServiceInv == CronInv /\ OrderInv /\ LimitInv /\ DailyInv

\* Each component keeps its invariant while one of them moves.
LEMMA ServiceInvHolds == ServiceSpec => []ServiceInv
<1>1. ServiceInit => ServiceInv
  BY CronStart, OrderStart, LimitInit, DailyStart DEF ServiceInit, ServiceInv
<1>2. ServiceInv /\ [ServiceNext]_allVars => ServiceInv'
  <2> SUFFICES ASSUME ServiceInv, [ServiceNext]_allVars PROVE ServiceInv'
    OBVIOUS
  <2>1. [Next]_vars /\ [Limiter!Next]_(Limiter!vars) /\ [Daily!Next]_(Daily!vars)
    BY DEF ServiceNext, allVars, limitVars, dailyVars, Limiter!vars, Daily!vars
  <2> QED BY <2>1, CronStep, OrderStep, LimitStep, DailyStep DEF ServiceInv
<1>3. ServiceSpec => ServiceInit /\ [][ServiceNext]_allVars
  BY PTL DEF ServiceSpec
<1> QED BY <1>1, <1>2, <1>3, PTL

\* No run is at work past its deadline, whatever the listing and each scan take
\* within their worst cases, and however many subscriptions are due
\* (schedule.ts:606-612).
THEOREM WithinDeadline == ServiceSpec => []NeverCutOff
<1>1. ServiceInv => NeverCutOff
  BY DEF ServiceInv, CronInv, NeverCutOff
<1> QED BY <1>1, ServiceInvHolds, PTL

\* A caller is refused only when maxAttempts requests of its key were let through
\* and written since a start less than a window before it, for any number of
\* overlapping requests and any failures of the storage; and however the target
\* changes, goes down and is recognised or not, an alert has a cause and silence
\* means no new bypass (rate-limiter.ts:30-62, scan.ts:17-20, monitor.ts:24-48).
THEOREM RefusalsAndAlerts == ServiceSpec => []ServiceHolds
<1>1. ServiceInv => ServiceHolds
  BY RefusedInTime, Compared, OneCardinality DEF ServiceInv, DailyInv, ServiceHolds, Daily!AlertHasACause
<1> QED BY <1>1, ServiceInvHolds, PTL

\* What a run left behind, for the cap or for want of time, leads the next one,
\* whatever subscriptions come, go and are scanned in between
\* (schedule.ts:598-601, 610).
THEOREM LeftoversFirstServed == ServiceSpec => LeftoversLead
<1>1. ServiceInv /\ [ServiceNext]_allVars =>
        [~running /\ running' /\ ToSet(due') \cap fresh # {} => left \subseteq ToSet(due')]_vars
  <2> SUFFICES ASSUME ServiceInv, [ServiceNext]_allVars, ~running, running',
                      ToSet(due') \cap fresh # {}
               PROVE  left \subseteq ToSet(due')
    OBVIOUS
  <2>1. [Next]_vars
    BY DEF ServiceNext, allVars
  <2> QED BY <2>1, LeftoversFirst DEF ServiceInv
<1>2. ServiceSpec => [][ServiceNext]_allVars
  BY PTL DEF ServiceSpec
<1> QED BY <1>1, <1>2, ServiceInvHolds, PTL DEF LeftoversLead
=============================================================================
