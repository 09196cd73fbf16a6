----------------------------- MODULE Induction -----------------------------
(***************************************************************************)
(* Induction over natural numbers as a fact about sets, which the proofs   *)
(* about recursive functions and about sums cite by name, and what it says *)
(* of a filtered sequence, of ranks in a finite set and of averages.       *)
(***************************************************************************)
EXTENDS Filter, FiniteSetTheorems, FunctionTheorems, SequenceTheorems, WellFoundedInduction,
        TLAPS

\* A set of natural numbers has a least member.
LEMMA Smallest ==
  ASSUME NEW T, T \subseteq Nat, T # {}
  PROVE  \E x \in T : \A y \in T : x <= y
<1> DEFINE R == OpToRel(<, Nat)
<1>1. IsWellFoundedOn(R, Nat)
  BY NatLessThanWellFounded
<1>2. \A x, y \in Nat : <<y, x>> \in R <=> y < x
  BY DEF OpToRel
<1> HIDE DEF R
<1>3. PICK x \in T : \A y \in T : ~(<<y, x>> \in R)
  BY <1>1, WFMin
<1>4. ASSUME NEW y \in T PROVE x <= y
  <2>1. x \in Nat /\ y \in Nat
    OBVIOUS
  <2>2. ~(y < x)
    BY <1>2, <1>3, <2>1
  <2> QED BY <2>1, <2>2
<1> QED BY <1>4

\* A set that holds 0, and k + 1 with k, holds all numbers up to n.
LEMMA Induction ==
  ASSUME NEW n \in Nat, NEW S, 0 \in S, \A k \in 0 .. n - 1 : k \in S => k + 1 \in S
  PROVE  0 .. n \subseteq S
<1> DEFINE T == (0 .. n) \ S
<1> SUFFICES ASSUME T # {} PROVE FALSE
  OBVIOUS
<1>1. PICK x \in T : \A y \in T : x <= y
  <2> HIDE DEF T
  <2>1. T \subseteq Nat
    BY DEF T
  <2> QED BY <2>1, Smallest
<1>2. x - 1 \in 0 .. n - 1 /\ x - 1 \notin T
  BY <1>1
<1> QED BY <1>1, <1>2

-----------------------------------------------------------------------------
(* Filter.                                                                 *)

\* f holds what Keep has gathered of s after each of the first n members.
Gathers(f, s, S, n) ==
  f = [k \in 0 .. n |-> IF k = 0 THEN << >>
                        ELSE IF s[k] \in S THEN Append(f[k - 1], s[k]) ELSE f[k - 1]]

LEMMA GatherExists ==
  ASSUME NEW s, NEW S, NEW n \in Nat
  PROVE  \E f : Gathers(f, s, S, n)
<1> DEFINE T == {m \in 0 .. n : \E f : Gathers(f, s, S, m)}
<1>1. 0 \in T
  <2>1. Gathers([k \in 0 .. 0 |-> << >>], s, S, 0)
    BY DEF Gathers
  <2> QED BY <2>1
<1>2. ASSUME NEW m \in 0 .. n - 1, m \in T PROVE m + 1 \in T
  <2>1. PICK f : Gathers(f, s, S, m)
    BY <1>2
  <2> DEFINE last == IF s[m + 1] \in S THEN Append(f[m], s[m + 1]) ELSE f[m]
             g    == [k \in 0 .. m + 1 |-> IF k = m + 1 THEN last ELSE f[k]]
  <2>2. \A k \in 0 .. m : f[k] = IF k = 0 THEN << >>
                                 ELSE IF s[k] \in S THEN Append(f[k - 1], s[k]) ELSE f[k - 1]
    BY <2>1 DEF Gathers
  <2>3. \A k \in 0 .. m + 1 :
          g[k] = IF k = 0 THEN << >>
                 ELSE IF s[k] \in S THEN Append(g[k - 1], s[k]) ELSE g[k - 1]
    <3> TAKE k \in 0 .. m + 1
    <3>1. k # 0 => k - 1 \in 0 .. m /\ g[k - 1] = f[k - 1]
      OBVIOUS
    <3>2. CASE k = m + 1
      BY <3>1, <3>2
    <3>3. CASE k # m + 1
      <4>1. k \in 0 .. m /\ g[k] = f[k]
        BY <3>3
      <4> QED BY <2>2, <3>1, <4>1
    <3> QED BY <3>2, <3>3
  <2>4. Gathers(g, s, S, m + 1)
    <3>1. g = [k \in 0 .. m + 1 |-> g[k]]
      OBVIOUS
    <3> HIDE DEF g
    <3> QED BY <2>3, <3>1 DEF Gathers
  <2> QED BY <2>4
<1>3. n \in T
  <2> HIDE DEF T
  <2> QED BY <1>1, <1>2, Induction
<1> QED BY <1>3

\* h is the place in s of each member of t, in order, and t has all of the first
\* n members of s that are in S.
Picks(h, t, s, S, n) ==
  /\ h \in [1 .. Len(t) -> 1 .. n]
  /\ \A k \in 1 .. Len(t) : t[k] = s[h[k]] /\ t[k] \in S
  /\ \A j, k \in 1 .. Len(t) : j < k => h[j] < h[k]
  /\ \A i \in 1 .. n : s[i] \in S => \E k \in 1 .. Len(t) : h[k] = i

\* One more member, which is left out or taken.
LEMMA PicksSkip ==
  ASSUME NEW V, NEW t \in Seq(V), NEW s, NEW S, NEW n \in Nat, NEW h, Picks(h, t, s, S, n),
         s[n + 1] \notin S
  PROVE  Picks(h, t, s, S, n + 1)
BY LenProperties DEF Picks

LEMMA PicksTake ==
  ASSUME NEW V, NEW t \in Seq(V), NEW s, NEW S, NEW n \in Nat, NEW h, Picks(h, t, s, S, n),
         s[n + 1] \in S, s[n + 1] \in V
  PROVE  \E g : Picks(g, Append(t, s[n + 1]), s, S, n + 1)
<1> DEFINE l == Len(t)
           u == Append(t, s[n + 1])
           g == [k \in 1 .. l + 1 |-> IF k = l + 1 THEN n + 1 ELSE h[k]]
<1>1. l \in Nat /\ Len(u) = l + 1 /\ u[l + 1] = s[n + 1] /\ \A k \in 1 .. l : u[k] = t[k]
  BY LenProperties, AppendProperties
<1> HIDE DEF l, u
<1>2. /\ h \in [1 .. l -> 1 .. n]
      /\ \A k \in 1 .. l : t[k] = s[h[k]] /\ t[k] \in S
      /\ \A j, k \in 1 .. l : j < k => h[j] < h[k]
      /\ \A i \in 1 .. n : s[i] \in S => \E k \in 1 .. l : h[k] = i
  BY DEF Picks, l
<1>3. g \in [1 .. l + 1 -> 1 .. n + 1]
  BY <1>1, <1>2
<1>4. \A k \in 1 .. l + 1 : u[k] = s[g[k]] /\ u[k] \in S
  BY <1>1, <1>2
<1>5. \A j, k \in 1 .. l + 1 : j < k => g[j] < g[k]
  BY <1>1, <1>2
<1>6. ASSUME NEW i \in 1 .. n + 1, s[i] \in S PROVE \E k \in 1 .. l + 1 : g[k] = i
  <2>1. CASE i = n + 1
    BY <1>1, <2>1
  <2>2. CASE i # n + 1
    <3>1. PICK k \in 1 .. l : h[k] = i
      BY <1>2, <1>6, <2>2
    <3> QED BY <1>1, <3>1
  <2> QED BY <2>1, <2>2
<1> HIDE DEF g
<1>7. Picks(g, u, s, S, n + 1)
  BY <1>1, <1>3, <1>4, <1>5, <1>6 DEF Picks
<1> QED BY <1>7 DEF u

\* What is kept are members of both, in the order of s, and all of those.
LEMMA KeepIs ==
  ASSUME NEW V, NEW s \in Seq(V), NEW S
  PROVE  Keep(s, S) \in Seq(V) /\ \E h : Picks(h, Keep(s, S), s, S, Len(s))
<1>1. Len(s) \in Nat /\ \A i \in 1 .. Len(s) : s[i] \in V
  BY LenProperties, ElementOfSeq
<1> DEFINE f == CHOOSE f : Gathers(f, s, S, Len(s))
           T == {m \in 0 .. Len(s) : f[m] \in Seq(V) /\ \E h : Picks(h, f[m], s, S, m)}
<1>2. Keep(s, S) = f[Len(s)]
  BY DEF Keep, Gathers
<1>3. Gathers(f, s, S, Len(s))
  BY <1>1, GatherExists
<1> HIDE DEF f
<1>4. \A k \in 0 .. Len(s) : f[k] = IF k = 0 THEN << >>
                                    ELSE IF s[k] \in S THEN Append(f[k - 1], s[k]) ELSE f[k - 1]
  BY <1>3 DEF Gathers
<1>5. 0 \in T
  <2>1. f[0] = << >>
    BY <1>1, <1>4
  <2>2. << >> \in Seq(V) /\ Len(<< >>) = 0
    BY EmptySeq
  <2>3. Picks([k \in 1 .. 0 |-> 0], << >>, s, S, 0)
    BY <2>2 DEF Picks
  <2>4. \E h : Picks(h, f[0], s, S, 0)
    BY <2>1, <2>3
  <2>5. 0 \in 0 .. Len(s) /\ f[0] \in Seq(V)
    BY <1>1, <2>1, <2>2
  <2> QED BY <2>4, <2>5
<1>6. ASSUME NEW m \in 0 .. Len(s) - 1, m \in T PROVE m + 1 \in T
  <2>1. m + 1 \in 0 .. Len(s) /\ m \in Nat /\ f[m] \in Seq(V) /\ s[m + 1] \in V
    BY <1>1, <1>6
  <2>2. PICK h : Picks(h, f[m], s, S, m)
    BY <1>6
  <2>3. f[m + 1] = IF s[m + 1] \in S THEN Append(f[m], s[m + 1]) ELSE f[m]
    BY <1>4, <2>1
  <2>4. f[m + 1] \in Seq(V)
    BY <2>1, <2>3, AppendProperties
  <2>5. \E g : Picks(g, f[m + 1], s, S, m + 1)
    BY <2>1, <2>2, <2>3, PicksSkip, PicksTake
  <2> QED BY <2>1, <2>4, <2>5
<1>7. Len(s) \in T
  <2> HIDE DEF T
  <2>1. 0 .. Len(s) \subseteq T
    BY <1>1, <1>5, <1>6, Induction
  <2> QED BY <1>1, <2>1
<1> QED BY <1>2, <1>7

-----------------------------------------------------------------------------
(* Ranks.                                                                  *)

\* Those of S that R puts before a.
Preceding(S, R, a) == {b \in S : <<b, a>> \in R}

\* A strict order of a finite set gives its members the numbers from 1 on.
LEMMA Ranking ==
  ASSUME NEW S, IsFiniteSet(S), NEW R,
         \A a \in S : <<a, a>> \notin R,
         \A a, b, c \in S : <<a, b>> \in R /\ <<b, c>> \in R => <<a, c>> \in R,
         \A a, b \in S : a = b \/ <<a, b>> \in R \/ <<b, a>> \in R
  PROVE  /\ \A a \in S : Cardinality(Preceding(S, R, a)) + 1 \in 1 .. Cardinality(S)
         /\ \A a, b \in S : <<a, b>> \in R =>
              Cardinality(Preceding(S, R, a)) < Cardinality(Preceding(S, R, b))
         /\ \A n \in 1 .. Cardinality(S) :
              \E a \in S : Cardinality(Preceding(S, R, a)) + 1 = n
<1> DEFINE r == [a \in S |-> Cardinality(Preceding(S, R, a)) + 1]
           m == Cardinality(S)
<1>1. m \in Nat
  BY FS_CardinalityType
<1>2. ASSUME NEW a \in S
      PROVE  IsFiniteSet(Preceding(S, R, a)) /\ Cardinality(Preceding(S, R, a)) \in 0 .. m - 1
  <2>1. IsFiniteSet(S \ {a}) /\ Cardinality(S \ {a}) = m - 1
    BY FS_RemoveElement
  <2>2. Preceding(S, R, a) \in SUBSET (S \ {a})
    BY DEF Preceding
  <2> HIDE DEF m
  <2>3. IsFiniteSet(Preceding(S, R, a)) /\ Cardinality(Preceding(S, R, a)) <= m - 1
    BY <2>1, <2>2, FS_Subset
  <2> QED BY <1>1, <2>3, FS_CardinalityType
<1>3. ASSUME NEW a \in S, NEW b \in S, <<a, b>> \in R
      PROVE  Cardinality(Preceding(S, R, a)) < Cardinality(Preceding(S, R, b))
  <2>1. Preceding(S, R, a) \in SUBSET Preceding(S, R, b)
    BY <1>3 DEF Preceding
  <2>2. a \in Preceding(S, R, b) /\ a \notin Preceding(S, R, a)
    BY <1>3 DEF Preceding
  <2>3. IsFiniteSet(Preceding(S, R, b))
    BY <1>2
  <2>4. /\ Cardinality(Preceding(S, R, a)) <= Cardinality(Preceding(S, R, b))
        /\ Cardinality(Preceding(S, R, b)) # Cardinality(Preceding(S, R, a))
    BY <2>1, <2>2, <2>3, FS_Subset
  <2>5. Cardinality(Preceding(S, R, a)) \in Nat /\ Cardinality(Preceding(S, R, b)) \in Nat
    BY <1>2, FS_CardinalityType
  <2> QED BY <2>4, <2>5
<1>4. r \in [S -> 1 .. m]
  <2> HIDE DEF m
  <2> QED BY <1>1, <1>2
<1>5. \A a, b \in S : r[a] = r[b] => a = b
  <2> SUFFICES ASSUME NEW a \in S, NEW b \in S, a # b PROVE r[a] # r[b]
    OBVIOUS
  <2>1. Cardinality(Preceding(S, R, a)) # Cardinality(Preceding(S, R, b))
    <3>1. Cardinality(Preceding(S, R, a)) \in Int /\ Cardinality(Preceding(S, R, b)) \in Int
      BY <1>2
    <3>2. <<a, b>> \in R \/ <<b, a>> \in R
      OBVIOUS
    <3>3. \/ Cardinality(Preceding(S, R, a)) < Cardinality(Preceding(S, R, b))
          \/ Cardinality(Preceding(S, R, b)) < Cardinality(Preceding(S, R, a))
      BY <1>3, <3>2
    <3> QED BY <3>1, <3>3
  <2> QED BY <1>2, <2>1
<1> HIDE DEF r
<1>6. r \in Injection(S, 1 .. m)
  <2> HIDE DEF m
  <2> QED BY <1>4, <1>5, Fun_IsInj
<1>7. IsFiniteSet(1 .. m) /\ Cardinality(1 .. m) = m
  <2> HIDE DEF m
  <2>1. IsFiniteSet(1 .. m) /\ Cardinality(1 .. m) = IF 1 > m THEN 0 ELSE m - 1 + 1
    BY <1>1, FS_Interval
  <2> QED BY <1>1, <2>1
<1>8. r \in Surjection(S, 1 .. m)
  BY <1>6, <1>7, FS_Injection
<1>9. ASSUME NEW n \in 1 .. m PROVE \E a \in S : Cardinality(Preceding(S, R, a)) + 1 = n
  <2>1. PICK a \in S : r[a] = n
    BY <1>8, <1>9 DEF Surjection
  <2> QED BY <2>1 DEF r
<1>10. \A a \in S : Cardinality(Preceding(S, R, a)) + 1 \in 1 .. m
  <2> HIDE DEF m
  <2> QED BY <1>1, <1>2
<1> QED BY <1>3, <1>9, <1>10

-----------------------------------------------------------------------------
(* Averages.                                                               *)

\* The members of X in class c, and that those of H are at most the share
\* num / den of those of N.
In(k, X, c) == {x \in X : k[x] = c}
AtMost(num, den, H, N) == den * Cardinality(H) <= num * Cardinality(N)

\* If in each class at most that share of the members are hits, so are they in
\* the whole.
LEMMA Averages ==
  ASSUME NEW N, IsFiniteSet(N), NEW C, IsFiniteSet(C), NEW k \in [N -> C], NEW H \in SUBSET N,
         NEW num \in Nat, NEW den \in Nat,
         \A c \in C : AtMost(num, den, In(k, H, c), In(k, N, c))
  PROVE  AtMost(num, den, H, N)
<1> DEFINE m       == Cardinality(C)
           Up(f, X, i) == {x \in X : \E j \in 1 .. i : k[x] = f[j]}
<1>1. m \in Nat /\ ExistsBijection(1 .. m, C)
  BY FS_CardinalityType
<1>2. PICK f \in Bijection(1 .. m, C) : TRUE
  BY <1>1 DEF ExistsBijection
<1>3. /\ \A j \in 1 .. m : f[j] \in C
      /\ \A i, j \in 1 .. m : f[i] = f[j] => i = j
      /\ \A c \in C : \E j \in 1 .. m : f[j] = c
  BY <1>2 DEF Bijection, Injection, Surjection, IsInjective
<1> HIDE DEF m
<1>4. ASSUME NEW X \in SUBSET N, NEW i \in 0 .. m - 1
      PROVE  /\ Cardinality(Up(f, X, i + 1))
                  = Cardinality(Up(f, X, i)) + Cardinality(In(k, X, f[i + 1]))
             /\ Cardinality(Up(f, X, i)) \in Nat
             /\ Cardinality(In(k, X, f[i + 1])) \in Nat
  <2> DEFINE A == Up(f, X, i)
             B == In(k, X, f[i + 1])
  <2>1. A \in SUBSET N /\ B \in SUBSET N
    BY DEF In
  <2>2. A \cap B = {}
    BY <1>1, <1>3 DEF In
  <2>3. Up(f, X, i + 1) = A \cup B
    BY <1>1 DEF In
  <2> HIDE DEF A, B, Up
  <2>4. IsFiniteSet(A) /\ IsFiniteSet(B)
    BY <2>1, FS_Subset
  <2>5. Cardinality(A \cup B) = Cardinality(A) + Cardinality(B) - Cardinality({})
    BY <2>2, <2>4, FS_Union
  <2>6. Cardinality(A) \in Nat /\ Cardinality(B) \in Nat /\ Cardinality({}) = 0
    BY <2>4, FS_CardinalityType, FS_EmptySet
  <2>7. Cardinality(Up(f, X, i + 1)) = Cardinality(A) + Cardinality(B)
    <3>1. Cardinality(A \cup B) = Cardinality(A) + Cardinality(B)
      BY <2>5, <2>6
    <3> QED BY <2>3, <3>1, Zenon
  <2> QED BY <2>6, <2>7 DEF A, B
<1>5. \A X \in SUBSET N : Up(f, X, 0) = {} /\ Up(f, X, m) = X
  BY <1>1, <1>3
<1> HIDE DEF Up
<1> DEFINE T == {i \in 0 .. m : den * Cardinality(Up(f, H, i)) <= num * Cardinality(Up(f, N, i))}
<1>6. 0 \in T
  <2>1. Cardinality(Up(f, H, 0)) = 0 /\ Cardinality(Up(f, N, 0)) = 0
    BY <1>5, FS_EmptySet
  <2> QED BY <1>1, <2>1
<1>7. ASSUME NEW i \in 0 .. m - 1, i \in T PROVE i + 1 \in T
  <2> DEFINE a == Cardinality(Up(f, H, i))
             b == Cardinality(In(k, H, f[i + 1]))
             c == Cardinality(Up(f, N, i))
             d == Cardinality(In(k, N, f[i + 1]))
  <2>1. /\ Cardinality(Up(f, H, i + 1)) = a + b /\ Cardinality(Up(f, N, i + 1)) = c + d
        /\ a \in Nat /\ b \in Nat /\ c \in Nat /\ d \in Nat
    BY <1>4
  <2>2. den * b <= num * d
    BY <1>1, <1>3 DEF AtMost
  <2>3. den * a <= num * c
    BY <1>7
  <2>4. i + 1 \in 0 .. m
    BY <1>1
  <2> HIDE DEF a, b, c, d
  <2>5. den * (a + b) <= num * (c + d)
    <3>1. den * (a + b) = den * a + den * b /\ num * (c + d) = num * c + num * d
      BY <2>1
    <3>2. den * a \in Int /\ den * b \in Int /\ num * c \in Int /\ num * d \in Int
      BY <2>1
    <3> QED BY <2>2, <2>3, <3>1, <3>2
  <2> QED BY <2>1, <2>4, <2>5
<1>8. m \in T
  <2> HIDE DEF T
  <2>1. 0 .. m \subseteq T
    BY <1>1, <1>6, <1>7, Induction
  <2> QED BY <1>1, <2>1
<1>9. Up(f, H, m) = H /\ Up(f, N, m) = N
  BY <1>5
<1> QED BY <1>8, <1>9 DEF AtMost
=============================================================================
