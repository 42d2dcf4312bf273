----------------------------- MODULE PPOStep_proofs -----------------------------
(***************************************************************************)
(* Proofs about PPOStep, for every number of rows and ranks, all groups,   *)
(* sizes of micro-batches and lengths: the columns of a batch stay aligned *)
(* through every dispatch and balancing, the segments of a response cover  *)
(* it, the steps that are to be profiled are, and the work is dealt out    *)
(* evenly and completely.  The first parts are about sequences and         *)
(* SeqlenBalancing: a partition deals out every row once; the later ones   *)
(* count tokens: partitions and micro-batches even in rows and in load.    *)
(***************************************************************************)
EXTENDS PPOStep, FiniteSetTheorems, SequenceTheorems, WellFoundedInduction, TLAPS

-----------------------------------------------------------------------------
(* Induction and recursion over natural numbers *)

(* Natural numbers are well-founded, so a set that holds 0 and the         *)
(* successors of its members holds all of them.                            *)
LEMMA LeastNumber ==
  ASSUME NEW T, T \subseteq Nat, T # {}
  PROVE  \E n \in T : \A m \in T : ~(m < n)
<1> DEFINE R == OpToRel(<, Nat)
<1>1. IsWellFoundedOn(R, Nat)
  BY NatLessThanWellFounded
<1> HIDE DEF R
<1>2. PICK n \in T : \A m \in T : ~(<<m, n>> \in R)
  BY <1>1, WFMin
<1>3. \A m \in T : m < n => <<m, n>> \in R
  BY DEF R, OpToRel
<1> QED BY <1>2, <1>3

LEMMA Induction ==
  ASSUME NEW T, 0 \in T, \A n \in Nat : n \in T => n + 1 \in T
  PROVE  Nat \subseteq T
<1> SUFFICES ASSUME Nat \ T # {} PROVE FALSE
  OBVIOUS
<1>1. PICK n \in Nat \ T : \A m \in Nat \ T : ~(m < n)
  BY LeastNumber
<1>2. n # 0 /\ n - 1 \in Nat /\ n - 1 < n
  BY <1>1
<1>3. n - 1 \in T
  BY <1>1, <1>2
<1> QED BY <1>1, <1>2, <1>3

(* Steps S[1] to S[n] lead from set to set, from D[0] to D[n]: there is a  *)
(* sequence of values that takes them, from any value of D[0].             *)
Walk(f, S, b, n) == f[0] = b /\ \A k \in 1..n : f[k] = S[k][f[k - 1]]

LEMMA Stays ==
  ASSUME NEW n \in Nat, NEW D, NEW f, f[0] \in D[0],
         \A k \in 1..n : f[k - 1] \in D[k - 1] => f[k] \in D[k]
  PROVE  \A k \in 0..n : f[k] \in D[k]
<1> DEFINE T == {k \in Nat : k <= n => f[k] \in D[k]}
<1>1. 0 \in T
  OBVIOUS
<1>2. ASSUME NEW k \in Nat, k \in T
      PROVE  k + 1 \in T
  <2> SUFFICES ASSUME k + 1 <= n PROVE f[k + 1] \in D[k + 1]
    OBVIOUS
  <2>1. k + 1 \in 1..n /\ (k + 1) - 1 = k /\ f[k] \in D[k]
    BY <1>2
  <2> QED BY <2>1
<1> HIDE DEF T
<1>3. Nat \subseteq T
  BY <1>1, <1>2, Induction
<1> QED BY <1>3 DEF T

LEMMA WalkExists ==
  ASSUME NEW S, NEW b
  PROVE  \A n \in Nat : \E f : f = [k \in 0..n |-> f[k]] /\ Walk(f, S, b, n)
<1> DEFINE T == {n \in Nat : \E f : f = [k \in 0..n |-> f[k]] /\ Walk(f, S, b, n)}
<1>1. 0 \in T
  <2> DEFINE f == [k \in 0..0 |-> b]
  <2>1. f = [k \in 0..0 |-> f[k]] /\ Walk(f, S, b, 0)
    BY DEF Walk
  <2> HIDE DEF f
  <2> QED BY <2>1
<1>2. ASSUME NEW n \in Nat, n \in T
      PROVE  n + 1 \in T
  <2>1. PICK f : f = [k \in 0..n |-> f[k]] /\ Walk(f, S, b, n)
    BY <1>2
  <2> DEFINE g == [k \in 0..(n + 1) |-> IF k = n + 1 THEN S[n + 1][f[n]] ELSE f[k]]
  <2>2. g = [k \in 0..(n + 1) |-> g[k]]
    OBVIOUS
  <2>3. /\ g[0] = f[0] /\ g[n + 1] = S[n + 1][f[n]] /\ g[n] = f[n]
        /\ \A k \in 1..n : g[k] = f[k] /\ g[k - 1] = f[k - 1]
    OBVIOUS
  <2> HIDE DEF g
  <2>4. Walk(g, S, b, n + 1)
    <3> SUFFICES ASSUME NEW k \in 1..(n + 1) PROVE g[k] = S[k][g[k - 1]]
      BY <2>1, <2>3 DEF Walk
    <3>1. CASE k = n + 1
      BY <2>3, <3>1
    <3>2. CASE k \in 1..n
      BY <2>1, <2>3, <3>2 DEF Walk
    <3> QED BY <3>1, <3>2
  <2>5. n + 1 \in Nat
    OBVIOUS
  <2> QED BY <2>2, <2>4, <2>5
<1> HIDE DEF T
<1>3. Nat \subseteq T
  BY <1>1, <1>2, Induction
<1> QED BY <1>3 DEF T

LEMMA WalkTaken ==
  ASSUME NEW n \in Nat, NEW D, NEW S, \A k \in 1..n : S[k] \in [D[k - 1] -> D[k]],
         NEW b \in D[0]
  PROVE  \E f : /\ f = [k \in 0..n |-> f[k]]
               /\ Walk(f, S, b, n)
               /\ \A k \in 0..n : f[k] \in D[k]
<1>1. PICK f : f = [k \in 0..n |-> f[k]] /\ Walk(f, S, b, n)
  BY WalkExists
<1>2. f[0] \in D[0] /\ \A k \in 1..n : f[k - 1] \in D[k - 1] => f[k] \in D[k]
  BY <1>1 DEF Walk
<1>3. \A k \in 0..n : f[k] \in D[k]
  BY <1>2, Stays
<1> QED BY <1>1, <1>3

-----------------------------------------------------------------------------
(* Sequences that list a set *)

Covers(s, n, R) == \A r \in R : \E i \in 1..n : s[i] = r
Differ(s, n) == \A i, j \in 1..n : s[i] = s[j] => i = j

(* s lists the members of R, each once.                                    *)
Lists(s, R) == s \in Seq(R) /\ Covers(s, Len(s), R) /\ Differ(s, Len(s))

LEMMA SeqIsFunction ==
  ASSUME NEW S, NEW s \in Seq(S), NEW n, Len(s) = n
  PROVE  n \in Nat /\ s \in [1..n -> S] /\ s = [i \in 1..n |-> s[i]]
OBVIOUS

LEMMA ListsFacts ==
  ASSUME NEW R, NEW s, Lists(s, R)
  PROVE  /\ Len(s) \in Nat /\ s \in [1..Len(s) -> R] /\ DOMAIN s = 1..Len(s) /\ s \in Seq(R)
         /\ Covers(s, Len(s), R) /\ Differ(s, Len(s))
BY DEF Lists

(* For sequences given by an expression.                                   *)
LEMMA ListsIntro ==
  ASSUME NEW R, NEW n \in Nat, NEW s, s \in [1..n -> R], Covers(s, n, R), Differ(s, n)
  PROVE  Lists(s, R) /\ Len(s) = n
<1>1. s \in Seq(R) /\ Len(s) = n
  OBVIOUS
<1> QED BY <1>1 DEF Lists

LEMMA ListsEmpty == Lists(<< >>, {})
BY DEF Lists, Covers, Differ

LEMMA ListsOne == ASSUME NEW x PROVE Lists(<<x>>, {x})
BY DEF Lists, Covers, Differ

LEMMA ListsConcat ==
  ASSUME NEW A, NEW B, A \cap B = {}, NEW s, Lists(s, A), NEW t, Lists(t, B)
  PROVE  Lists(s \o t, A \cup B)
<1> DEFINE u == s \o t
           a == Len(s)
           b == Len(t)
           n == a + b
<1>1. /\ s \in Seq(A) /\ t \in Seq(B) /\ a \in Nat /\ b \in Nat
      /\ Covers(s, a, A) /\ Differ(s, a) /\ Covers(t, b, B) /\ Differ(t, b)
  BY ListsFacts
<1>2. s \in Seq(A \cup B) /\ t \in Seq(A \cup B) /\ n \in Nat
  BY <1>1
<1>3. /\ u \in Seq(A \cup B) /\ Len(u) = n
      /\ \A i \in 1..n : u[i] = IF i <= a THEN s[i] ELSE t[i - a]
  BY <1>1, <1>2, ConcatProperties
<1>4. u \in [1..n -> A \cup B]
  BY <1>3, SeqIsFunction
<1> HIDE DEF u
<1>5. \A i \in 1..a : s[i] \in A /\ u[i] = s[i] /\ i \in 1..n
  BY <1>1, <1>3
<1>6. \A i \in 1..b : t[i] \in B /\ u[i + a] = t[i] /\ i + a \in 1..n
  BY <1>1, <1>3
<1>7. \A i \in 1..n : i \in 1..a \/ (i - a \in 1..b /\ u[i] = t[i - a] /\ t[i - a] \in B)
  BY <1>1, <1>3
<1> HIDE DEF n, a, b
<1>8. Covers(u, n, A \cup B)
  <2> SUFFICES ASSUME NEW r \in A \cup B PROVE \E i \in 1..n : u[i] = r
    BY DEF Covers
  <2>1. CASE r \in A
    BY <1>1, <1>5, <2>1 DEF Covers
  <2>2. CASE r \in B
    <3>1. PICK i \in 1..b : t[i] = r
      BY <1>1, <2>2 DEF Covers
    <3> QED BY <1>6, <3>1
  <2> QED BY <2>1, <2>2
<1>9. Differ(u, n)
  <2> SUFFICES ASSUME NEW i \in 1..n, NEW j \in 1..n, u[i] = u[j]
               PROVE  i = j
    BY DEF Differ
  <2>1. CASE i \in 1..a /\ j \in 1..a
    BY <1>1, <1>5, <2>1 DEF Differ
  <2>2. CASE i \notin 1..a /\ j \notin 1..a
    <3>1. i - a \in 1..b /\ j - a \in 1..b /\ t[i - a] = t[j - a]
      BY <1>7, <2>2
    <3>2. i - a = j - a
      BY <1>1, <3>1 DEF Differ
    <3> QED BY <1>1, <3>2
  <2>3. CASE i \in 1..a /\ j \notin 1..a
    BY <1>5, <1>7, <2>3
  <2>4. CASE i \notin 1..a /\ j \in 1..a
    BY <1>5, <1>7, <2>4
  <2> QED BY <2>1, <2>2, <2>3, <2>4
<1>10. Lists(u, A \cup B)
  BY <1>2, <1>4, <1>8, <1>9, ListsIntro
<1> QED BY <1>10 DEF u

LEMMA ListsLength ==
  ASSUME NEW n \in Nat, NEW s, Lists(s, 1..n)
  PROVE  Len(s) = n
<1> DEFINE m == Len(s)
<1>1. m \in Nat /\ s \in [1..m -> 1..n] /\ Covers(s, m, 1..n) /\ Differ(s, m)
  BY ListsFacts
<1> HIDE DEF m
<1>2. s \in Bijection(1..m, 1..n)
  <2>1. s \in Injection(1..m, 1..n)
    BY <1>1 DEF Injection, IsInjective, Differ
  <2>2. s \in Surjection(1..m, 1..n)
    BY <1>1 DEF Surjection, Covers
  <2> QED BY <2>1, <2>2 DEF Bijection
<1>3. ExistsBijection(1..m, 1..n)
  BY <1>2 DEF ExistsBijection
<1>4. IsFiniteSet(1..m) /\ Cardinality(1..m) = m
  BY <1>1, FS_Interval
<1>5. Cardinality(1..n) = n
  BY FS_Interval
<1>6. Cardinality(1..n) = Cardinality(1..m)
  BY <1>3, <1>4, FS_Bijection
<1> QED BY <1>4, <1>5, <1>6 DEF m

LEMMA ListsReordered ==
  ASSUME NEW R, NEW s, Lists(s, R), NEW p, Lists(p, 1..Len(s))
  PROVE  /\ Lists(Reordered(s, p), R)
         /\ Len(Reordered(s, p)) = Len(s)
         /\ DOMAIN Reordered(s, p) = 1..Len(s)
<1> DEFINE t == Reordered(s, p)
           n == Len(s)
<1>1. n \in Nat /\ s \in [1..n -> R] /\ Covers(s, n, R) /\ Differ(s, n)
  BY ListsFacts
<1>2. Lists(p, 1..n)
  OBVIOUS
<1> HIDE DEF n
<1>3. Len(p) = n
  BY <1>1, <1>2, ListsLength
<1>4. p \in [1..n -> 1..n] /\ DOMAIN p = 1..n /\ Covers(p, n, 1..n) /\ Differ(p, n)
  BY <1>2, <1>3, ListsFacts
<1>5. t \in [1..n -> R] /\ DOMAIN t = 1..n /\ \A i \in 1..n : t[i] = s[p[i]]
  BY <1>1, <1>4 DEF Reordered
<1> HIDE DEF t
<1>6. Covers(t, n, R)
  <2> SUFFICES ASSUME NEW r \in R PROVE \E i \in 1..n : t[i] = r
    BY DEF Covers
  <2>1. PICK j \in 1..n : s[j] = r
    BY <1>1 DEF Covers
  <2>2. PICK i \in 1..n : p[i] = j
    BY <1>4 DEF Covers
  <2> QED BY <1>5, <2>1, <2>2
<1>7. Differ(t, n)
  <2> SUFFICES ASSUME NEW i \in 1..n, NEW j \in 1..n, t[i] = t[j]
               PROVE  i = j
    BY DEF Differ
  <2>1. p[i] \in 1..n /\ p[j] \in 1..n /\ s[p[i]] = s[p[j]]
    BY <1>4, <1>5
  <2>2. p[i] = p[j]
    BY <1>1, <2>1 DEF Differ
  <2> QED BY <1>4, <2>2 DEF Differ
<1>8. Lists(t, R) /\ Len(t) = n
  BY <1>1, <1>5, <1>6, <1>7, ListsIntro
<1> QED BY <1>5, <1>8 DEF t, n

(* A new member can be put anywhere.                                       *)
LEMMA ListsInserted ==
  ASSUME NEW n \in Nat, NEW s, Lists(s, 1..n), NEW p \in 1..(n + 1)
  PROVE  Lists(InsertAt(s, p, n + 1), 1..(n + 1))
<1>1. Len(s) = n
  BY ListsLength
<1>2. s \in Seq(1..n) /\ s \in [1..n -> 1..n] /\ Covers(s, n, 1..n) /\ Differ(s, n)
  BY <1>1, ListsFacts
<1> DEFINE a == SubSeq(s, 1, p - 1)
           c == SubSeq(s, p, n)
           A == {s[i] : i \in 1..(p - 1)}
           C == {s[i] : i \in p..n}
           m == n + 1 - p
           l == p - 1
<1>3. Lists(a, A)
  <2>1. a \in Seq(1..n) /\ Len(a) = l /\ l \in Nat /\ \A i \in 1..l : a[i] = s[i]
    BY <1>1, <1>2, SubSeqProperties
  <2>2. a \in [1..l -> A]
    <3>1. a = [i \in 1..l |-> a[i]] /\ \A i \in 1..l : a[i] \in A
      BY <2>1, SeqIsFunction
    <3> HIDE DEF a, A, l
    <3> QED BY <3>1
  <2>3. Covers(a, l, A)
    BY <2>1 DEF Covers
  <2>4. Differ(a, l)
    BY <1>2, <2>1 DEF Differ
  <2> HIDE DEF a, A, l
  <2> QED BY <2>1, <2>2, <2>3, <2>4, ListsIntro
<1>4. Lists(c, C)
  <2>1. c \in Seq(1..n) /\ m \in Nat /\ Len(c) = m /\ \A i \in 1..m : c[i] = s[p + i - 1]
    BY <1>1, <1>2, SubSeqProperties
  <2>2. \A i \in 1..m : p + i - 1 \in p..n /\ p + i - 1 \in 1..n
    OBVIOUS
  <2>3. \A i \in 1..m : c[i] \in C
    BY <2>1, <2>2
  <2>4. c = [i \in 1..m |-> c[i]]
    BY <2>1
  <2>5. c \in [1..m -> C]
    <3> HIDE DEF c, C, m
    <3> QED BY <2>3, <2>4
  <2>6. Covers(c, m, C)
    <3> SUFFICES ASSUME NEW r \in C PROVE \E i \in 1..m : c[i] = r
      BY DEF Covers
    <3>1. PICK j \in p..n : r = s[j]
      OBVIOUS
    <3>2. j + 1 - p \in 1..m /\ p + (j + 1 - p) - 1 = j
      OBVIOUS
    <3> HIDE DEF c, C, m
    <3> QED BY <2>1, <3>1, <3>2
  <2>7. Differ(c, m)
    <3> SUFFICES ASSUME NEW i \in 1..m, NEW j \in 1..m, c[i] = c[j]
                 PROVE  i = j
      BY DEF Differ
    <3> HIDE DEF c
    <3>1. s[p + i - 1] = s[p + j - 1]
      BY <2>1
    <3>2. p + i - 1 = p + j - 1
      BY <1>2, <2>2, <3>1 DEF Differ
    <3> QED BY <3>2
  <2> HIDE DEF c, C, m
  <2> QED BY <2>1, <2>5, <2>6, <2>7, ListsIntro
<1>5. A \cap C = {} /\ n + 1 \notin A /\ n + 1 \notin C
  BY <1>2 DEF Differ
<1>6. A \cup {n + 1} \cup C = 1..(n + 1)
  <2>1. \A i \in 1..n : s[i] \in 1..n /\ (i \in 1..(p - 1) \/ i \in p..n)
    BY <1>2
  <2>2. A \cup C \subseteq 1..n
    BY <1>2
  <2>3. ASSUME NEW r \in 1..n PROVE r \in A \cup C
    <3>1. PICK i \in 1..n : s[i] = r
      BY <1>2 DEF Covers
    <3> QED BY <2>1, <3>1
  <2>4. 1..(n + 1) = 1..n \cup {n + 1}
    OBVIOUS
  <2> HIDE DEF A, C
  <2> QED BY <2>2, <2>3, <2>4
<1> HIDE DEF a, c, A, C
<1>7. Lists(<<n + 1>>, {n + 1})
  BY ListsOne
<1>8. Lists(a \o <<n + 1>>, A \cup {n + 1})
  BY <1>3, <1>5, <1>7, ListsConcat
<1>9. Lists((a \o <<n + 1>>) \o c, A \cup {n + 1} \cup C)
  BY <1>4, <1>5, <1>8, ListsConcat
<1> QED BY <1>1, <1>6, <1>9 DEF InsertAt, a, c

(* Sorting only rearranges, whatever the order is.                         *)
LEMMA PutInLists ==
  ASSUME NEW n \in Nat, NEW s, Lists(s, 1..n), NEW before
  PROVE  Lists(PutIn(s, n + 1, before), 1..(n + 1))
<1> DEFINE B == {k \in DOMAIN s : <<n + 1, s[k]>> \notin before}
<1>1. DOMAIN s = 1..n
  BY ListsFacts, ListsLength
<1>2. IsFiniteSet(1..n) /\ Cardinality(1..n) = n
  BY FS_Interval
<1>3. B \subseteq 1..n
  BY <1>1
<1> HIDE DEF B
<1>4. Cardinality(B) \in Nat /\ Cardinality(B) <= n
  BY <1>2, <1>3, FS_Subset, FS_CardinalityType
<1>5. 1 + Cardinality(B) \in 1..(n + 1)
  BY <1>4
<1>6. PutIn(s, n + 1, before) = InsertAt(s, 1 + Cardinality(B), n + 1)
  BY DEF PutIn, B
<1> QED BY <1>5, <1>6, ListsInserted

(* What each insertion leads to, the arrangement has in the end.           *)
LEMMA ArrangementTaken ==
  ASSUME NEW n \in Nat, NEW before, NEW D, << >> \in D[0],
         \A k \in 1..n : \A s \in D[k - 1] : PutIn(s, k, before) \in D[k]
  PROVE  Arrangement(n, before) \in D[n]
<1> DEFINE S == [k \in 1..n |-> [s \in D[k - 1] |-> PutIn(s, k, before)]]
           placed[m \in 0..n] == IF m = 0 THEN << >> ELSE PutIn(placed[m - 1], m, before)
<1>1. ASSUME NEW k \in 1..n
      PROVE  S[k] \in [D[k - 1] -> D[k]] /\ \A s \in D[k - 1] : S[k][s] = PutIn(s, k, before)
  <2>1. S[k] = [s \in D[k - 1] |-> PutIn(s, k, before)]
    OBVIOUS
  <2>2. \A s \in D[k - 1] : PutIn(s, k, before) \in D[k]
    OBVIOUS
  <2> HIDE DEF S
  <2> QED BY <2>1, <2>2
<1> HIDE DEF S
<1>2. PICK f : /\ f = [k \in 0..n |-> f[k]]
              /\ Walk(f, S, << >>, n)
              /\ \A k \in 0..n : f[k] \in D[k]
  BY <1>1, WalkTaken
<1>3. f = [k \in 0..n |-> IF k = 0 THEN << >> ELSE PutIn(f[k - 1], k, before)]
  <2>1. ASSUME NEW k \in 0..n
        PROVE  f[k] = IF k = 0 THEN << >> ELSE PutIn(f[k - 1], k, before)
    <3>1. CASE k = 0
      BY <1>2, <3>1 DEF Walk
    <3>2. CASE k # 0
      <4>1. k \in 1..n /\ k - 1 \in 0..n
        BY <3>2
      <4>2. f[k] = S[k][f[k - 1]] /\ f[k - 1] \in D[k - 1]
        BY <1>2, <4>1 DEF Walk
      <4> QED BY <1>1, <3>2, <4>1, <4>2
    <3> QED BY <3>1, <3>2
  <2> QED BY <1>2, <2>1, Zenon
<1>4. placed = [k \in 0..n |-> IF k = 0 THEN << >> ELSE PutIn(placed[k - 1], k, before)]
  BY <1>3, Zenon
<1>5. Arrangement(n, before) = placed[n]
  BY Zenon DEF Arrangement
<1> HIDE DEF placed
<1>6. placed[0] = << >> /\ \A k \in 1..n : placed[k] = PutIn(placed[k - 1], k, before)
  <2> DEFINE g == [k \in 0..n |-> IF k = 0 THEN << >> ELSE PutIn(placed[k - 1], k, before)]
  <2>1. g[0] = << >> /\ \A k \in 1..n : g[k] = PutIn(placed[k - 1], k, before)
    OBVIOUS
  <2> HIDE DEF g
  <2> QED BY <1>4, <2>1, Zenon DEF g
<1>7. placed[0] \in D[0] /\ \A k \in 1..n : placed[k - 1] \in D[k - 1] => placed[k] \in D[k]
  BY <1>6
<1>8. \A k \in 0..n : placed[k] \in D[k]
  BY <1>7, Stays
<1> QED BY <1>5, <1>8

LEMMA ArrangementLists ==
  ASSUME NEW n \in Nat, NEW before
  PROVE  Lists(Arrangement(n, before), 1..n)
<1> DEFINE D == [k \in 0..n |-> {s \in Seq(Nat) : Lists(s, 1..k)}]
<1>1. \A k \in 0..n : D[k] = {s \in Seq(Nat) : Lists(s, 1..k)}
  OBVIOUS
<1>2. << >> \in D[0]
  <2>1. 1..0 = {}
    OBVIOUS
  <2>2. Lists(<< >>, 1..0)
    BY <2>1, ListsEmpty
  <2> QED BY <2>2
<1> HIDE DEF D
<1>3. ASSUME NEW k \in 1..n, NEW s \in D[k - 1]
      PROVE  PutIn(s, k, before) \in D[k]
  <2> DEFINE j == k - 1
  <2>1. j \in Nat /\ k = j + 1 /\ j \in 0..n /\ k \in 0..n
    OBVIOUS
  <2>2. s \in D[j]
    OBVIOUS
  <2> HIDE DEF j
  <2>3. Lists(s, 1..j)
    BY <1>1, <2>1, <2>2
  <2>4. Lists(PutIn(s, k, before), 1..k)
    BY <2>1, <2>3, PutInLists
  <2>5. PutIn(s, k, before) \in Seq(1..k)
    BY <2>4 DEF Lists
  <2>6. PutIn(s, k, before) \in Seq(Nat)
    BY <2>5
  <2> QED BY <1>1, <2>1, <2>4, <2>6
<1>4. Arrangement(n, before) \in D[n]
  BY <1>2, <1>3, ArrangementTaken
<1> QED BY <1>1, <1>4

(* Flattening, as the concatenation of one part after the other.           *)
Joins(h, parts, n) == h[0] = << >> /\ \A k \in 1..n : h[k] = h[k - 1] \o parts[k]

LEMMA FlattenWalk ==
  ASSUME NEW n \in Nat, NEW R, NEW parts, parts \in [1..n -> Seq(R)]
  PROVE  \E h : Joins(h, parts, n) /\ Concatenated(parts) = h[n]
<1>1. Len(parts) = n
  OBVIOUS
<1>2. CASE n = 0
  <2>1. parts = << >>
    BY <1>2
  <2>2. Concatenated(parts) = << >>
    BY <1>1, <1>2, <2>1 DEF Concatenated, FlattenSeq
  <2> DEFINE h == [k \in 0..0 |-> << >>]
  <2>3. h[0] = << >>
    OBVIOUS
  <2> HIDE DEF h
  <2> QED BY <1>2, <2>2, <2>3 DEF Joins
<1>3. CASE n # 0
  <2> DEFINE D == [k \in 0..n |-> Seq(R)]
             S == [k \in 1..n |-> [s \in Seq(R) |-> s \o parts[k]]]
             flatten[i \in 1..n] == IF i = 1 THEN parts[i] ELSE flatten[i - 1] \o parts[i]
  <2>1. ASSUME NEW k \in 1..n
        PROVE  S[k] \in [D[k - 1] -> D[k]] /\ \A s \in Seq(R) : S[k][s] = s \o parts[k]
    <3>1. S[k] = [s \in Seq(R) |-> s \o parts[k]]
      OBVIOUS
    <3>2. \A s \in Seq(R) : s \o parts[k] \in Seq(R)
      BY ConcatProperties
    <3>3. k - 1 \in 0..n /\ D[k - 1] = Seq(R) /\ D[k] = Seq(R)
      OBVIOUS
    <3> HIDE DEF S, D
    <3> QED BY <3>1, <3>2, <3>3
  <2>2. << >> \in D[0]
    OBVIOUS
  <2>3. \A k \in 0..n : D[k] = Seq(R)
    OBVIOUS
  <2> HIDE DEF S, D
  <2>4. PICK f : /\ f = [k \in 0..n |-> f[k]]
                /\ Walk(f, S, << >>, n)
                /\ \A k \in 0..n : f[k] \in D[k]
    BY <2>1, <2>2, WalkTaken
  <2>5. f[0] = << >> /\ \A k \in 1..n : f[k] = f[k - 1] \o parts[k]
    <3>1. f[0] = << >> /\ \A k \in 1..n : f[k] = S[k][f[k - 1]]
      BY <2>4 DEF Walk
    <3>2. \A k \in 1..n : k - 1 \in 0..n /\ f[k - 1] \in Seq(R)
      BY <2>3, <2>4
    <3> QED BY <2>1, <3>1, <3>2
  <2> DEFINE g == [i \in 1..n |-> f[i]]
  <2>6. g = [i \in 1..n |-> IF i = 1 THEN parts[i] ELSE g[i - 1] \o parts[i]]
    <3>1. ASSUME NEW i \in 1..n
          PROVE  g[i] = IF i = 1 THEN parts[i] ELSE g[i - 1] \o parts[i]
      <4>1. CASE i = 1
        <5>0. 1 \in 1..n /\ 1 - 1 = 0
          BY <1>3
        <5>1. f[1] = << >> \o parts[1] /\ g[1] = f[1]
          BY <2>5, <5>0
        <5>2. parts[i] \in Seq(R)
          OBVIOUS
        <5> HIDE DEF g
        <5> QED BY <4>1, <5>1, <5>2, ConcatEmptySeq
      <4>2. CASE i # 1
        <5>1. i - 1 \in 1..n
          BY <4>2
        <5>2. g[i] = f[i] /\ g[i - 1] = f[i - 1]
          BY <5>1
        <5> HIDE DEF g
        <5> QED BY <2>5, <4>2, <5>2
      <4> QED BY <4>1, <4>2
    <3>2. g = [i \in 1..n |-> g[i]]
      OBVIOUS
    <3> HIDE DEF g
    <3> QED BY <3>1, <3>2, Zenon
  <2>7. flatten = [i \in 1..n |-> IF i = 1 THEN parts[i] ELSE flatten[i - 1] \o parts[i]]
    <3> HIDE DEF g
    <3> QED BY <2>6, Zenon
  <2>8. Concatenated(parts) = flatten[n]
    <3> DEFINE m == Len(parts)
               flatten2[i \in 1..m] == IF i = 1 THEN parts[i] ELSE flatten2[i - 1] \o parts[i]
    <3>1. Concatenated(parts) = IF m = 0 THEN parts ELSE flatten2[m]
      BY Zenon DEF Concatenated, FlattenSeq
    <3> QED BY <1>1, <1>3, <3>1, Zenon
  <2> HIDE DEF flatten
  <2> DEFINE h == [k \in 0..n |-> IF k = 0 THEN << >> ELSE flatten[k]]
  <2>9. flatten[1] = parts[1] /\ \A i \in 2..n : flatten[i] = flatten[i - 1] \o parts[i]
    <3> DEFINE e == [i \in 1..n |-> IF i = 1 THEN parts[i] ELSE flatten[i - 1] \o parts[i]]
    <3>0. 1 \in 1..n /\ \A i \in 2..n : i \in 1..n /\ i # 1
      BY <1>3
    <3>1. e[1] = parts[1] /\ \A i \in 2..n : e[i] = flatten[i - 1] \o parts[i]
      BY <3>0
    <3> HIDE DEF e
    <3> QED BY <2>7, <3>1, Zenon DEF e
  <2>10. h[0] = << >> /\ h[n] = flatten[n]
    BY <1>3
  <2>11. ASSUME NEW k \in 1..n
         PROVE  h[k] = h[k - 1] \o parts[k]
    <3>1. CASE k = 1
      <4>1. h[1] = parts[1] /\ h[0] = << >> /\ parts[1] \in Seq(R)
        BY <2>9, <3>1
      <4>2. h[1] = h[0] \o parts[1]
        BY <4>1, ConcatEmptySeq
      <4> QED BY <3>1, <4>2
    <3>2. CASE k # 1
      <4>1. k \in 2..n /\ k - 1 # 0 /\ k - 1 \in 0..n /\ k \in 0..n /\ k # 0
        BY <3>2
      <4>2. h[k] = flatten[k] /\ h[k - 1] = flatten[k - 1]
        BY <4>1
      <4> HIDE DEF h
      <4> QED BY <2>9, <4>1, <4>2
    <3> QED BY <3>1, <3>2
  <2> HIDE DEF h
  <2> QED BY <2>8, <2>10, <2>11 DEF Joins
<1> QED BY <1>2, <1>3
-----------------------------------------------------------------------------
(* Sets dealt out to places *)

(* The sets B[1] to B[k] have the members of A, and no two have one in     *)
(* common.                                                                 *)
Deals(B, k, A) ==
  /\ \A i \in 1..k : B[i] \subseteq A
  /\ \A a \in A : \E i \in 1..k : a \in B[i]
  /\ \A i, j \in 1..k : i # j => B[i] \cap B[j] = {}

LEMMA DealsReordered ==
  ASSUME NEW k \in Nat, NEW A, NEW B, Deals(B, k, A), NEW p, Lists(p, 1..k)
  PROVE  Deals(Reordered(B, p), k, A)
<1> DEFINE C == Reordered(B, p)
<1>1. p \in [1..k -> 1..k] /\ DOMAIN p = 1..k /\ Covers(p, k, 1..k) /\ Differ(p, k)
  BY ListsLength, ListsFacts
<1>2. \A i \in 1..k : C[i] = B[p[i]] /\ p[i] \in 1..k
  BY <1>1 DEF Reordered
<1> HIDE DEF C
<1>3. \A i \in 1..k : C[i] \subseteq A
  BY <1>2 DEF Deals
<1>4. ASSUME NEW a \in A PROVE \E i \in 1..k : a \in C[i]
  <2>1. PICK j \in 1..k : a \in B[j]
    BY DEF Deals
  <2>2. PICK i \in 1..k : p[i] = j
    BY <1>1 DEF Covers
  <2> QED BY <1>2, <2>1, <2>2
<1>5. ASSUME NEW i \in 1..k, NEW j \in 1..k, i # j PROVE C[i] \cap C[j] = {}
  <2>1. p[i] # p[j]
    BY <1>1, <1>5 DEF Differ
  <2> QED BY <1>2, <2>1 DEF Deals
<1>6. Deals(C, k, A)
  BY <1>3, <1>4, <1>5 DEF Deals
<1> QED BY <1>6 DEF C

(* Lists of what is dealt out, one after the other, list all of it.        *)
LEMMA FlattenLists ==
  ASSUME NEW k \in Nat, NEW A, NEW B, Deals(B, k, A),
         NEW parts, parts = [i \in 1..k |-> parts[i]], \A i \in 1..k : Lists(parts[i], B[i])
  PROVE  Lists(Concatenated(parts), A)
<1>1. \A i \in 1..k : parts[i] \in Seq(A)
  BY DEF Lists, Deals
<1>2. parts \in [1..k -> Seq(A)]
  BY <1>1
<1>3. PICK h : Joins(h, parts, k) /\ Concatenated(parts) = h[k]
  BY <1>2, FlattenWalk
<1> DEFINE Dealt(m) == {a \in A : \E i \in 1..m : a \in B[i]}
           D == [m \in 0..k |-> {s \in Seq(A) : Lists(s, Dealt(m))}]
<1>4. \A m \in 0..k : D[m] = {s \in Seq(A) : Lists(s, Dealt(m))}
  OBVIOUS
<1> HIDE DEF D
<1>5. h[0] \in D[0]
  <2>1. Dealt(0) = {}
    OBVIOUS
  <2> HIDE DEF Dealt
  <2>2. h[0] = << >> /\ h[0] \in Seq(A) /\ 0 \in 0..k
    BY <1>3 DEF Joins
  <2>3. Lists(h[0], Dealt(0))
    BY <2>1, <2>2, ListsEmpty
  <2> QED BY <1>4, <2>2, <2>3
<1>6. ASSUME NEW m \in 1..k, h[m - 1] \in D[m - 1]
      PROVE  h[m] \in D[m]
  <2> DEFINE j == m - 1
  <2>1. j \in 0..k /\ m \in 0..k /\ j \in Nat
    OBVIOUS
  <2>2. \A i \in 1..m : i \in 1..k /\ (i \in 1..j \/ i = m) 
    OBVIOUS
  <2>3. \A i \in 1..j : i \in 1..m /\ i \in 1..k /\ i # m
    OBVIOUS
  <2>4. h[j] \in D[j] /\ h[m] = h[j] \o parts[m]
    BY <1>3, <1>6 DEF Joins
  <2> HIDE DEF j
  <2>5. Lists(h[j], Dealt(j)) /\ h[j] \in Seq(A)
    BY <1>4, <2>1, <2>4
  <2>6. Dealt(j) \cap B[m] = {}
    BY <2>3 DEF Deals
  <2>7. Dealt(j) \cup B[m] = Dealt(m)
    BY <2>2, <2>3 DEF Deals
  <2> HIDE DEF Dealt
  <2>8. Lists(h[m], Dealt(m))
    BY <2>4, <2>5, <2>6, <2>7, ListsConcat
  <2>9. h[m] \in Seq(A)
    BY <1>1, <2>4, <2>5
  <2> QED BY <1>4, <2>1, <2>8, <2>9
<1>7. h[k] \in D[k]
  BY <1>5, <1>6, Stays
<1>8. Dealt(k) = A
  BY DEF Deals
<1> HIDE DEF Dealt
<1>9. k \in 0..k
  OBVIOUS
<1> QED BY <1>3, <1>4, <1>7, <1>8, <1>9

-----------------------------------------------------------------------------
(* Karmarkar and Karp's method keeps the rows it is given *)

Groups == [sum : Int, rows : Seq(Nat)]

(* A state of k groups that list what is dealt out to them of A.           *)
Holds(s, k, A) ==
  /\ s \in [1..k -> Groups]
  /\ \E B : Deals(B, k, A) /\ \A i \in 1..k : Lists(s[i].rows, B[i])

LEMMA RowsOfGroup ==
  ASSUME NEW g, NEW n, NEW rows, g = [sum |-> n, rows |-> rows]
  PROVE  g.rows = rows
OBVIOUS

LEMMA HoldsOrdered ==
  ASSUME NEW k \in Nat, NEW A, NEW s, Holds(s, k, A)
  PROVE  Holds(Ordered(s), k, A)
<1>1. s \in [1..k -> Groups] /\ Len(s) = k
  BY DEF Holds
<1>2. PICK p : Lists(p, 1..k) /\ Ordered(s) = Reordered(s, p)
  BY <1>1, ArrangementLists DEF Ordered
<1>3. PICK B : Deals(B, k, A) /\ \A i \in 1..k : Lists(s[i].rows, B[i])
  BY DEF Holds
<1>4. Deals(Reordered(B, p), k, A)
  BY <1>2, <1>3, DealsReordered
<1>5. p \in [1..k -> 1..k]
  BY <1>2, ListsFacts, ListsLength
<1> DEFINE t == Reordered(s, p)
           C == Reordered(B, p)
<1>6. t \in [1..k -> Groups] /\ \A i \in 1..k : t[i] = s[p[i]] /\ C[i] = B[p[i]] /\ p[i] \in 1..k
  BY <1>1, <1>5 DEF Reordered
<1> HIDE DEF t, C
<1>7. \A i \in 1..k : Lists(t[i].rows, C[i])
  BY <1>3, <1>6
<1>8. Holds(t, k, A)
  BY <1>4, <1>6, <1>7 DEF Holds, C
<1> QED BY <1>2, <1>8 DEF t

LEMMA HoldsMerged ==
  ASSUME NEW k \in Nat, NEW A, NEW C, A \cap C = {},
         NEW s, Holds(s, k, A), NEW t, Holds(t, k, C)
  PROVE  Holds(MergedStates(s, t), k, A \cup C)
<1>1. s \in [1..k -> Groups] /\ t \in [1..k -> Groups] /\ Len(s) = k
  BY DEF Holds
<1>2. PICK B : Deals(B, k, A) /\ \A i \in 1..k : Lists(s[i].rows, B[i])
  BY DEF Holds
<1>3. PICK E : Deals(E, k, C) /\ \A i \in 1..k : Lists(t[i].rows, E[i])
  BY DEF Holds
<1> DEFINE back(i) == k + 1 - i
           u == [i \in 1..k |-> [sum |-> s[i].sum + t[back(i)].sum,
                                 rows |-> s[i].rows \o t[back(i)].rows]]
           F == [i \in 1..k |-> B[i] \cup E[back(i)]]
<1>4. \A i \in 1..k : back(i) \in 1..k /\ back(back(i)) = i
  OBVIOUS
<1>5. \A i, j \in 1..k : i # j => back(i) # back(j)
  OBVIOUS
<1> HIDE DEF back
<1>6. MergedStates(s, t) = Ordered(u)
  BY <1>1 DEF MergedStates, back
<1>7. /\ \A i \in 1..k : u[i] = [sum |-> s[i].sum + t[back(i)].sum,
                                 rows |-> s[i].rows \o t[back(i)].rows]
      /\ \A i \in 1..k : F[i] = B[i] \cup E[back(i)]
  OBVIOUS
<1>8. u \in [1..k -> Groups]
  <2>1. ASSUME NEW i \in 1..k PROVE u[i] \in Groups
    <3>1. s[i] \in Groups /\ t[back(i)] \in Groups
      BY <1>1, <1>4
    <3>2. s[i].rows \o t[back(i)].rows \in Seq(Nat)
      BY <3>1 DEF Groups
    <3> QED BY <1>7, <3>1, <3>2 DEF Groups
  <2>2. u = [i \in 1..k |-> u[i]]
    OBVIOUS
  <2> HIDE DEF u
  <2> QED BY <2>1, <2>2
<1> HIDE DEF u, F
<1>9. ASSUME NEW i \in 1..k PROVE Lists(u[i].rows, F[i])
  <2>0. u[i] = [sum |-> s[i].sum + t[back(i)].sum, rows |-> s[i].rows \o t[back(i)].rows]
    BY <1>7
  <2>1. u[i].rows = s[i].rows \o t[back(i)].rows
    BY ONLY <2>0, RowsOfGroup, ZenonT(30)
  <2>2. B[i] \cap E[back(i)] = {}
    BY <1>2, <1>3, <1>4 DEF Deals
  <2>3. Lists(s[i].rows, B[i]) /\ Lists(t[back(i)].rows, E[back(i)])
    BY <1>2, <1>3, <1>4
  <2>4. F[i] = B[i] \cup E[back(i)]
    BY <1>7
  <2>5. Lists(s[i].rows \o t[back(i)].rows, B[i] \cup E[back(i)])
    BY ONLY <2>2, <2>3, ListsConcat
  <2> QED BY ONLY <2>1, <2>4, <2>5
<1>10. Deals(F, k, A \cup C)
  <2>0. \A i \in 1..k : F[i] = B[i] \cup E[back(i)]
    BY <1>7
  <2>1. ASSUME NEW i \in 1..k PROVE F[i] \subseteq A \cup C
    <3>1. B[i] \subseteq A /\ E[back(i)] \subseteq C
      BY <1>2, <1>3, <1>4 DEF Deals
    <3> QED BY <2>0, <3>1
  <2>2. ASSUME NEW a \in A PROVE \E i \in 1..k : a \in F[i]
    BY <1>2, <1>7 DEF Deals
  <2>3. ASSUME NEW c \in C PROVE \E i \in 1..k : c \in F[i]
    <3>1. PICK j \in 1..k : c \in E[j]
      BY <1>3 DEF Deals
    <3> QED BY <1>4, <1>7, <3>1
  <2>4. ASSUME NEW i \in 1..k, NEW j \in 1..k, i # j PROVE F[i] \cap F[j] = {}
    <3>1. B[i] \cap B[j] = {} /\ E[back(i)] \cap E[back(j)] = {}
      BY <1>2, <1>3, <1>4, <1>5, <2>4 DEF Deals
    <3>2. B[i] \cap E[back(j)] = {} /\ B[j] \cap E[back(i)] = {}
      BY <1>2, <1>3, <1>4 DEF Deals
    <3> QED BY <1>7, <3>1, <3>2
  <2> QED BY <2>1, <2>2, <2>3, <2>4 DEF Deals
<1>11. Holds(u, k, A \cup C)
  BY <1>8, <1>9, <1>10 DEF Holds
<1> QED BY <1>6, <1>11, HoldsOrdered

-----------------------------------------------------------------------------
(* Division by a number of any size.                                       *)
LEMMA Quotient ==
  ASSUME NEW k \in Nat, k # 0, NEW c \in Nat, NEW i \in 0..(k - 1)
  PROVE  (c * k + i) \div k = c /\ (c * k + i) % k = i
<1>1. c * k \in Nat
  OBVIOUS
<1> QED BY <1>1

LEMMA Division ==
  ASSUME NEW k \in Nat, k # 0, NEW x \in Nat
  PROVE  /\ x \div k \in Nat /\ x % k \in 0..(k - 1)
         /\ (x \div k) * k \in Nat /\ x = (x \div k) * k + (x % k)
<1>1. x \div k \in Nat /\ x % k \in 0..(k - 1)
  OBVIOUS
<1>2. (x \div k) * k \in Nat
  BY <1>1
<1>3. x = (x \div k) * k + (x % k)
  OBVIOUS
<1> QED BY <1>1, <1>2, <1>3

(* A multiple, divided.                                                    *)
LEMMA Multiple ==
  ASSUME NEW k \in Nat, k # 0, NEW c \in Nat
  PROVE  c * k \in Nat /\ (c * k) \div k = c /\ (c * k) % k = 0
<1>1. c * k \in Nat /\ c * k + 0 = c * k /\ 0 \in 0..(k - 1)
  OBVIOUS
<1> QED BY <1>1, Quotient

LEMMA Growing ==
  ASSUME NEW a \in Nat, NEW b \in Nat, NEW k \in Nat, a <= b
  PROVE  a * k \in Nat /\ b * k \in Nat /\ a * k <= b * k
<1>1. b - a \in Nat /\ b = a + (b - a)
  OBVIOUS
<1>2. b * k = a * k + (b - a) * k
  BY <1>1
<1>3. a * k \in Nat /\ b * k \in Nat /\ (b - a) * k \in Nat
  BY <1>1
<1> QED BY <1>2, <1>3

LEMMA OneMore ==
  ASSUME NEW a \in Int, NEW k \in Nat
  PROVE  (a + 1) * k = a * k + k /\ (a - 1) * k = a * k - k /\ a * k \in Int
OBVIOUS

(* The places (n - 1) * k + i of a grid with m rows of k are 1 to m * k.    *)
LEMMA Grid ==
  ASSUME NEW k \in Nat, k # 0, NEW m \in Nat
  PROVE  /\ \A n \in 1..m, i \in 1..k : (n - 1) * k + i \in 1..(m * k)
         /\ \A n, o \in 1..m, i, j \in 1..k :
              (n - 1) * k + i = (o - 1) * k + j => n = o /\ i = j
         /\ \A x \in 1..(m * k) : \E n \in 1..m, i \in 1..k : x = (n - 1) * k + i
<1>1. ASSUME NEW n \in 1..m, NEW i \in 1..k
      PROVE  (n - 1) * k + i \in 1..(m * k)
  <2>1. n - 1 \in Nat /\ n \in Nat /\ n <= m
    OBVIOUS
  <2>2. n * k <= m * k /\ n * k \in Nat /\ m * k \in Nat /\ (n - 1) * k \in Nat
    BY <2>1, Growing
  <2>3. (n - 1) * k = n * k - k
    BY <2>1, OneMore
  <2> QED BY <2>2, <2>3
<1>2. ASSUME NEW n \in 1..m, NEW o \in 1..m, NEW i \in 1..k, NEW j \in 1..k,
             (n - 1) * k + i = (o - 1) * k + j
      PROVE  n = o /\ i = j
  <2> DEFINE a == n - 1
             b == o - 1
  <2>1. a \in Nat /\ b \in Nat /\ i - 1 \in 0..(k - 1) /\ j - 1 \in 0..(k - 1)
    OBVIOUS
  <2>2. a * k \in Nat /\ b * k \in Nat
    BY <2>1
  <2>3. a * k + (i - 1) = b * k + (j - 1)
    BY <1>2, <2>2
  <2> HIDE DEF a, b
  <2>4. /\ (a * k + (i - 1)) \div k = a /\ (a * k + (i - 1)) % k = i - 1
        /\ (b * k + (j - 1)) \div k = b /\ (b * k + (j - 1)) % k = j - 1
    BY <2>1, Quotient
  <2>5. a = b /\ i - 1 = j - 1
    BY <2>3, <2>4
  <2> QED BY <2>5 DEF a, b
<1>3. ASSUME NEW x \in 1..(m * k)
      PROVE  \E n \in 1..m, i \in 1..k : x = (n - 1) * k + i
  <2> DEFINE q == (x - 1) \div k
             w == (x - 1) % k
  <2>1. m * k \in Nat /\ x - 1 \in Nat
    OBVIOUS
  <2>2. q \in Nat /\ w \in 0..(k - 1) /\ q * k \in Nat /\ x - 1 = q * k + w
    BY <2>1, Division
  <2> HIDE DEF q, w
  <2>3. q < m
    <3> SUFFICES ASSUME m <= q PROVE FALSE
      BY <2>2
    <3>1. m * k <= q * k
      BY <2>2, Growing
    <3> QED BY <2>1, <2>2, <3>1
  <2>4. q + 1 \in 1..m /\ w + 1 \in 1..k /\ (q + 1) - 1 = q
    BY <2>2, <2>3
  <2>5. x = ((q + 1) - 1) * k + (w + 1)
    BY <2>2, <2>4
  <2> QED BY <2>4, <2>5
<1> QED BY <1>1, <1>2, <1>3

-----------------------------------------------------------------------------
(* The queue of states *)

(* m states of k groups, which together list A.                            *)
Queue(q, m, k, A) ==
  /\ q \in [1..m -> Seq(Groups)]
  /\ \E Q : Deals(Q, m, A) /\ \A j \in 1..m : Holds(q[j], k, Q[j])

LEMMA QueuePopped ==
  ASSUME NEW m \in Nat, NEW k \in Nat, NEW A, NEW q, Queue(q, m, k, A)
  PROVE  Queue(Popped(q), m, k, A)
<1>1. q \in [1..m -> Seq(Groups)] /\ Len(q) = m
  BY DEF Queue
<1>2. PICK p : Lists(p, 1..m) /\ Popped(q) = Reordered(q, p)
  BY <1>1, ArrangementLists DEF Popped
<1>3. PICK Q : Deals(Q, m, A) /\ \A j \in 1..m : Holds(q[j], k, Q[j])
  BY DEF Queue
<1>4. Deals(Reordered(Q, p), m, A)
  BY <1>2, <1>3, DealsReordered
<1>5. p \in [1..m -> 1..m]
  BY <1>2, ListsFacts, ListsLength
<1> DEFINE t == Reordered(q, p)
           C == Reordered(Q, p)
<1>6. /\ t \in [1..m -> Seq(Groups)]
      /\ \A j \in 1..m : t[j] = q[p[j]] /\ C[j] = Q[p[j]] /\ p[j] \in 1..m
  BY <1>1, <1>5 DEF Reordered
<1> HIDE DEF t, C
<1>7. \A j \in 1..m : Holds(t[j], k, C[j])
  BY <1>3, <1>6
<1>8. Queue(t, m, k, A)
  BY <1>4, <1>6, <1>7 DEF Queue, C
<1> QED BY <1>2, <1>8 DEF t

LEMMA QueueMerged ==
  ASSUME NEW m \in Nat, m >= 1, NEW k \in Nat, NEW A, NEW q, Queue(q, m + 1, k, A)
  PROVE  Queue(MergeTwo(q), m, k, A)
<1> DEFINE n == m + 1
           l == m - 1
           t == SubSeq(q, 3, n)
           w == MergedStates(q[1], q[2])
           u == Append(t, w)
<1>1. q \in [1..n -> Seq(Groups)] /\ Len(q) = n /\ q \in Seq(Seq(Groups))
  BY DEF Queue
<1>2. PICK Q : Deals(Q, n, A) /\ \A j \in 1..n : Holds(q[j], k, Q[j])
  BY DEF Queue
<1>3. 1 \in 1..n /\ 2 \in 1..n /\ l \in Nat
  OBVIOUS
<1>4. Holds(w, k, Q[1] \cup Q[2])
  <2>1. Q[1] \cap Q[2] = {}
    BY <1>2, <1>3 DEF Deals
  <2>2. Holds(q[1], k, Q[1]) /\ Holds(q[2], k, Q[2])
    BY <1>2, <1>3
  <2> QED BY <2>1, <2>2, HoldsMerged
<1>5. w \in Seq(Groups)
  BY <1>4 DEF Holds
<1>6. t \in Seq(Seq(Groups)) /\ Len(t) = l /\ \A j \in 1..l : t[j] = q[j + 2]
  BY <1>1, <1>3, SubSeqProperties
<1> HIDE DEF t, w
<1>7. /\ u \in Seq(Seq(Groups)) /\ Len(u) = m
      /\ u[m] = w /\ \A j \in 1..l : u[j] = q[j + 2]
  <2>1. Len(u) = l + 1 /\ u \in Seq(Seq(Groups)) /\ u[l + 1] = w /\ \A j \in 1..l : u[j] = t[j]
    BY <1>5, <1>6, AppendProperties
  <2> QED BY <1>6, <2>1
<1>8. u \in [1..m -> Seq(Groups)]
  BY <1>7, SeqIsFunction
<1>9. MergeTwo(q) = u
  BY <1>1 DEF MergeTwo, t, w
<1> HIDE DEF u
<1> DEFINE F == [j \in 1..m |-> IF j = m THEN Q[1] \cup Q[2] ELSE Q[j + 2]]
<1>10. F[m] = Q[1] \cup Q[2] /\ \A j \in 1..l : F[j] = Q[j + 2]
  OBVIOUS
<1> HIDE DEF F
<1>11. \A j \in 1..m : j = m \/ (j \in 1..l /\ j # m)
  OBVIOUS
<1>12. \A j \in 1..l : j + 2 \in 1..n /\ j \in 1..m /\ j # m /\ j + 2 # 1 /\ j + 2 # 2
  OBVIOUS
<1>13. ASSUME NEW j \in 1..m PROVE Holds(u[j], k, F[j])
  <2>1. CASE j = m
    BY <1>4, <1>7, <1>10, <2>1
  <2>2. CASE j \in 1..l
    BY <1>2, <1>7, <1>10, <1>12, <2>2
  <2> QED BY <1>11, <2>1, <2>2
<1>14. Deals(F, m, A)
  <2>1. ASSUME NEW j \in 1..m PROVE F[j] \subseteq A
    <3>1. CASE j = m
      BY <1>2, <1>3, <1>10, <3>1 DEF Deals
    <3>2. CASE j \in 1..l
      BY <1>2, <1>10, <1>12, <3>2 DEF Deals
    <3> QED BY <1>11, <3>1, <3>2
  <2>2. ASSUME NEW a \in A PROVE \E j \in 1..m : a \in F[j]
    <3>1. PICK i \in 1..n : a \in Q[i]
      BY <1>2 DEF Deals
    <3>2. CASE i = 1 \/ i = 2
      <4>1. m \in 1..m
        OBVIOUS
      <4> QED BY <1>10, <3>1, <3>2, <4>1
    <3>3. CASE i # 1 /\ i # 2
      <4>1. i - 2 \in 1..l /\ (i - 2) + 2 = i
        BY <3>3
      <4> QED BY <1>10, <1>12, <3>1, <4>1
    <3> QED BY <3>2, <3>3
  <2>3. ASSUME NEW i \in 1..l, NEW j \in 1..l, i # j PROVE F[i] \cap F[j] = {}
    <3>1. i + 2 # j + 2
      BY <2>3
    <3> QED BY <1>2, <1>10, <1>12, <3>1 DEF Deals
  <2>4. ASSUME NEW i \in 1..l PROVE F[i] \cap F[m] = {}
    <3>1. Q[i + 2] \cap Q[1] = {} /\ Q[i + 2] \cap Q[2] = {}
      BY <1>2, <1>3, <1>12 DEF Deals
    <3> QED BY <1>10, <3>1
  <2>5. ASSUME NEW i \in 1..m, NEW j \in 1..m, i # j PROVE F[i] \cap F[j] = {}
    BY <1>11, <2>3, <2>4, <2>5
  <2> QED BY <2>1, <2>2, <2>5 DEF Deals
<1>15. Queue(u, m, k, A)
  BY <1>8, <1>13, <1>14 DEF Queue
<1> QED BY <1>9, <1>15

(* What each merge of two states leads to, the last state has.             *)
LEMMA DifferencedTaken ==
  ASSUME NEW l \in Nat, NEW q, Len(q) = l + 1, NEW D, q \in D[0],
         \A j \in 1..l : \A s \in D[j - 1] : MergeTwo(Popped(s)) \in D[j]
  PROVE  \E s \in D[l] : Differenced(q) = s[1]
<1> DEFINE S == [j \in 1..l |-> [s \in D[j - 1] |-> MergeTwo(Popped(s))]]
           merged[m \in 0..l] == IF m = 0 THEN q ELSE MergeTwo(Popped(merged[m - 1]))
<1>1. ASSUME NEW j \in 1..l
      PROVE  S[j] \in [D[j - 1] -> D[j]] /\ \A s \in D[j - 1] : S[j][s] = MergeTwo(Popped(s))
  <2>1. S[j] = [s \in D[j - 1] |-> MergeTwo(Popped(s))]
    OBVIOUS
  <2>2. \A s \in D[j - 1] : MergeTwo(Popped(s)) \in D[j]
    OBVIOUS
  <2> HIDE DEF S
  <2> QED BY <2>1, <2>2
<1> HIDE DEF S
<1>2. PICK f : /\ f = [j \in 0..l |-> f[j]]
              /\ Walk(f, S, q, l)
              /\ \A j \in 0..l : f[j] \in D[j]
  BY <1>1, WalkTaken
<1>3. f = [j \in 0..l |-> IF j = 0 THEN q ELSE MergeTwo(Popped(f[j - 1]))]
  <2>1. ASSUME NEW j \in 0..l
        PROVE  f[j] = IF j = 0 THEN q ELSE MergeTwo(Popped(f[j - 1]))
    <3>1. CASE j = 0
      BY <1>2, <3>1 DEF Walk
    <3>2. CASE j # 0
      <4>1. j \in 1..l /\ j - 1 \in 0..l
        BY <3>2
      <4>2. f[j] = S[j][f[j - 1]] /\ f[j - 1] \in D[j - 1]
        BY <1>2, <4>1 DEF Walk
      <4> QED BY <1>1, <3>2, <4>1, <4>2
    <3> QED BY <3>1, <3>2
  <2> QED BY <1>2, <2>1, Zenon
<1>4. merged = [j \in 0..l |-> IF j = 0 THEN q ELSE MergeTwo(Popped(merged[j - 1]))]
  BY <1>3, Zenon
<1>5. Differenced(q) = merged[l][1]
  <2> DEFINE d == Len(q) - 1
             all[m \in 0..d] == IF m = 0 THEN q ELSE MergeTwo(Popped(all[m - 1]))
  <2>1. Differenced(q) = all[d][1]
    BY Zenon DEF Differenced
  <2>2. d = l
    OBVIOUS
  <2> QED BY <2>1, <2>2, Zenon
<1> HIDE DEF merged
<1>6. merged[0] = q /\ \A j \in 1..l : merged[j] = MergeTwo(Popped(merged[j - 1]))
  <2> DEFINE g == [j \in 0..l |-> IF j = 0 THEN q ELSE MergeTwo(Popped(merged[j - 1]))]
  <2>1. g[0] = q /\ \A j \in 1..l : g[j] = MergeTwo(Popped(merged[j - 1]))
    OBVIOUS
  <2> HIDE DEF g
  <2> QED BY <1>4, <2>1, Zenon DEF g
<1>7. merged[0] \in D[0] /\ \A j \in 1..l : merged[j - 1] \in D[j - 1] => merged[j] \in D[j]
  BY <1>6
<1>8. \A j \in 0..l : merged[j] \in D[j]
  BY <1>7, Stays
<1> QED BY <1>5, <1>8

(* Two states become one until one is left, which lists it all.            *)
LEMMA DifferencedHolds ==
  ASSUME NEW n \in Nat, n >= 1, NEW k \in Nat, NEW A, NEW q, Queue(q, n, k, A)
  PROVE  Holds(Differenced(q), k, A)
<1> DEFINE l == n - 1
           Queues == Seq(Seq(Groups))
           D == [j \in 0..l |-> {s \in Queues : Queue(s, n - j, k, A)}]
<1>1. l \in Nat /\ Len(q) = l + 1 /\ n - l = 1
  BY DEF Queue
<1>2. \A j \in 0..l : D[j] = {s \in Queues : Queue(s, n - j, k, A)}
  OBVIOUS
<1>3. \A m \in Nat : \A s : Queue(s, m, k, A) => s \in Queues
  BY DEF Queue
<1> HIDE DEF D, Queues
<1>4. q \in D[0]
  <2>1. 0 \in 0..l /\ n - 0 = n
    BY <1>1
  <2> QED BY <1>2, <1>3, <2>1
<1>5. ASSUME NEW j \in 1..l, NEW s \in D[j - 1]
      PROVE  MergeTwo(Popped(s)) \in D[j]
  <2> DEFINE i == j - 1
             m == n - j
  <2>1. i \in 0..l /\ j \in 0..l /\ m \in Nat /\ m >= 1 /\ n - i = m + 1 /\ m + 1 \in Nat
    BY <1>1
  <2>2. s \in D[i]
    OBVIOUS
  <2>3. D[i] = {x \in Queues : Queue(x, m + 1, k, A)} /\ D[j] = {x \in Queues : Queue(x, m, k, A)}
    BY <1>2, <2>1
  <2> HIDE DEF i, m
  <2>4. Queue(Popped(s), m + 1, k, A)
    BY <2>1, <2>2, <2>3, QueuePopped
  <2>5. Queue(MergeTwo(Popped(s)), m, k, A)
    BY <2>1, <2>4, QueueMerged
  <2> QED BY <1>3, <2>1, <2>3, <2>5
<1> HIDE DEF l
<1>6. PICK s \in D[l] : Differenced(q) = s[1]
  BY <1>1, <1>4, <1>5, DifferencedTaken
<1>7. Queue(s, 1, k, A)
  BY <1>1, <1>2
<1>8. PICK Q : Deals(Q, 1, A) /\ \A j \in 1..1 : Holds(s[j], k, Q[j])
  BY <1>7 DEF Queue
<1>9. 1 \in 1..1 /\ \A j \in 1..1 : j = 1
  OBVIOUS
<1>10. Q[1] = A
  BY <1>8, <1>9 DEF Deals
<1> QED BY <1>6, <1>8, <1>9, <1>10

(* The rows of the first states: neighbours in length, or one alone.       *)
LEMMA FirstStatesHold ==
  ASSUME NEW k \in Nat, k >= 1, NEW n \in Nat, n >= 1, NEW lengths \in Seq(Nat),
         NEW equal \in BOOLEAN, Len(lengths) = IF equal THEN n * k ELSE n
  PROVE  Queue(FirstStates(lengths, k, equal), n, k, 1..Len(lengths))
<1> DEFINE order == Arrangement(Len(lengths),
             {p \in (DOMAIN lengths) \X (DOMAIN lengths) : lengths[p[1]] < lengths[p[2]]})
           Alone(row) == [sum |-> lengths[row], rows |-> <<row>>]
           Empty == [sum |-> 0, rows |-> << >>]
           l == Len(lengths)
<1>1. l \in Nat /\ \A i \in 1..l : lengths[i] \in Nat
  OBVIOUS
<1>2. Lists(order, 1..l)
  BY <1>1, ArrangementLists
<1> HIDE DEF l, order
<1>3. /\ order \in [1..l -> 1..l]
      /\ Covers(order, l, 1..l) /\ Differ(order, l)
  BY <1>1, <1>2, ListsFacts, ListsLength
<1>4. ASSUME NEW row \in 1..l PROVE Alone(row) \in Groups /\ Lists(Alone(row).rows, {row})
  <2>1. <<row>> \in Seq(Nat) /\ Alone(row).rows = <<row>>
    BY <1>1
  <2> QED BY <1>1, <2>1, ListsOne DEF Groups
<1>5. Empty \in Groups /\ Lists(Empty.rows, {})
  <2>1. Empty.rows = << >> /\ << >> \in Seq(Nat)
    OBVIOUS
  <2> QED BY <2>1, ListsEmpty DEF Groups
<1> HIDE DEF Alone, Empty
<1>6. CASE equal
  <2>1. l = n * k /\ l \div k = n
    BY <1>6, Multiple DEF l
  <2> DEFINE Place(j, i) == (j - 1) * k + i
             State(j) == [i \in 1..k |-> Alone(order[Place(j, i)])]
             q == [j \in 1..n |-> Ordered(State(j))]
             Q == [j \in 1..n |-> {order[Place(j, i)] : i \in 1..k}]
  <2>2. FirstStates(lengths, k, equal) = q
    BY <1>6, <2>1 DEF FirstStates, order, Alone, l
  <2>3. /\ \A j \in 1..n, i \in 1..k : Place(j, i) \in 1..l
        /\ \A j, o \in 1..n, i, h \in 1..k : Place(j, i) = Place(o, h) => j = o /\ i = h
        /\ \A x \in 1..l : \E j \in 1..n, i \in 1..k : x = Place(j, i)
    <3>1. k # 0
      OBVIOUS
    <3>2. /\ \A j \in 1..n, i \in 1..k : (j - 1) * k + i \in 1..(n * k)
          /\ \A j, o \in 1..n, i, h \in 1..k :
               (j - 1) * k + i = (o - 1) * k + h => j = o /\ i = h
          /\ \A x \in 1..(n * k) : \E j \in 1..n, i \in 1..k : x = (j - 1) * k + i
      BY <3>1, Grid
    <3> QED BY ONLY <2>1, <3>2
  <2> HIDE DEF Place
  <2>4. /\ \A j \in 1..n : q[j] = Ordered(State(j))
        /\ \A j \in 1..n : Q[j] = {order[Place(j, i)] : i \in 1..k}
    OBVIOUS
  <2>5. ASSUME NEW j \in 1..n PROVE Holds(q[j], k, Q[j])
    <3> DEFINE B == [i \in 1..k |-> {order[Place(j, i)]}]
    <3>1. \A i \in 1..k : B[i] = {order[Place(j, i)]}
      OBVIOUS
    <3>2. \A i \in 1..k : State(j)[i] = Alone(order[Place(j, i)]) /\ order[Place(j, i)] \in 1..l
      BY <1>3, <2>3
    <3>3. State(j) \in [1..k -> Groups]
      BY <1>3, <1>4, <2>3
    <3> HIDE DEF State, B, q, Q
    <3>4. \A i \in 1..k : Lists(State(j)[i].rows, B[i])
      BY <1>4, <3>1, <3>2
    <3>5. Deals(B, k, Q[j])
      <4>1. \A i \in 1..k : B[i] \subseteq Q[j]
        BY <2>4, <3>1
      <4>2. ASSUME NEW a \in Q[j] PROVE \E i \in 1..k : a \in B[i]
        <5>1. PICK i \in 1..k : a = order[Place(j, i)]
          BY <2>4
        <5> QED BY <3>1, <5>1
      <4>3. ASSUME NEW i \in 1..k, NEW h \in 1..k, i # h PROVE B[i] \cap B[h] = {}
        <5>1. Place(j, i) # Place(j, h)
          BY <2>3, <4>3
        <5>2. order[Place(j, i)] # order[Place(j, h)]
          BY <1>3, <2>3, <5>1 DEF Differ
        <5> QED BY <3>1, <5>2
      <4> QED BY <4>1, <4>2, <4>3 DEF Deals
    <3>6. Holds(State(j), k, Q[j])
      BY <3>3, <3>4, <3>5 DEF Holds
    <3> QED BY <2>4, <3>6, HoldsOrdered
  <2>6. Deals(Q, n, 1..l)
    <3> HIDE DEF q, Q, State
    <3>1. ASSUME NEW j \in 1..n PROVE Q[j] \subseteq 1..l
      BY <1>3, <2>3, <2>4
    <3>2. ASSUME NEW a \in 1..l PROVE \E j \in 1..n : a \in Q[j]
      <4>1. PICK x \in 1..l : order[x] = a
        BY <1>3 DEF Covers
      <4>2. PICK j \in 1..n, i \in 1..k : x = Place(j, i)
        BY <2>3
      <4>3. a \in {order[Place(j, h)] : h \in 1..k}
        BY <4>1, <4>2
      <4> QED BY <2>4, <4>3
    <3>3. ASSUME NEW i \in 1..n, NEW j \in 1..n, i # j PROVE Q[i] \cap Q[j] = {}
      <4> SUFFICES ASSUME NEW a \in Q[i], a \in Q[j] PROVE FALSE
        OBVIOUS
      <4>0. \A x \in 1..n : \A y \in Q[x] : \E h \in 1..k : y = order[Place(x, h)]
        BY <2>4
      <4>1. PICK h \in 1..k : a = order[Place(i, h)]
        BY <4>0
      <4>2. PICK o \in 1..k : a = order[Place(j, o)]
        BY <4>0
      <4>3. Place(i, h) = Place(j, o)
        BY <1>3, <2>3, <4>1, <4>2 DEF Differ
      <4> QED BY <2>3, <3>3, <4>3
    <3> QED BY <3>1, <3>2, <3>3 DEF Deals
  <2>7. q \in [1..n -> Seq(Groups)]
    <3>1. \A j \in 1..n : q[j] \in Seq(Groups)
      BY <2>5 DEF Holds
    <3>2. q = [j \in 1..n |-> q[j]]
      OBVIOUS
    <3> HIDE DEF q
    <3> QED BY <3>1, <3>2
  <2> HIDE DEF q, Q
  <2> QED BY <2>2, <2>5, <2>6, <2>7 DEF Queue, l
<1>7. CASE ~equal
  <2>1. l = n
    BY <1>7 DEF l
  <2> DEFINE State(j) == [i \in 1..k |-> IF i = 1 THEN Alone(order[j]) ELSE Empty]
             q == [j \in 1..n |-> State(j)]
             Q == [j \in 1..n |-> {order[j]}]
  <2>2. FirstStates(lengths, k, equal) = q
    BY <1>7, <2>1 DEF FirstStates, order, Alone, Empty, l
  <2>3. ASSUME NEW j \in 1..n PROVE Holds(State(j), k, {order[j]})
    <3> DEFINE B == [i \in 1..k |-> IF i = 1 THEN {order[j]} ELSE {}]
    <3>1. order[j] \in 1..l
      BY <1>3, <2>1
    <3>2. State(j) \in [1..k -> Groups]
      BY <1>4, <1>5, <3>1
    <3>3. \A i \in 1..k : Lists(State(j)[i].rows, B[i])
      BY <1>4, <1>5, <3>1
    <3>4. Deals(B, k, {order[j]})
      <4>1. 1 \in 1..k
        OBVIOUS
      <4> QED BY <4>1 DEF Deals
    <3> HIDE DEF State, B
    <3> QED BY <3>2, <3>3, <3>4 DEF Holds
  <2>4. Deals(Q, n, 1..l)
    <3>1. \A j \in 1..n : Q[j] = {order[j]} /\ order[j] \in 1..l
      BY <1>3, <2>1
    <3> HIDE DEF Q
    <3>2. \A a \in 1..l : \E j \in 1..n : a \in Q[j]
      BY <1>3, <2>1, <3>1 DEF Covers
    <3>3. \A i, j \in 1..n : i # j => Q[i] \cap Q[j] = {}
      BY <1>3, <2>1, <3>1 DEF Differ
    <3> QED BY <3>1, <3>2, <3>3 DEF Deals
  <2>5. \A j \in 1..n : q[j] = State(j) /\ Q[j] = {order[j]}
    OBVIOUS
  <2>6. q = [j \in 1..n |-> q[j]]
    OBVIOUS
  <2> HIDE DEF q, Q, State
  <2>7. \A j \in 1..n : Holds(q[j], k, Q[j])
    BY <2>3, <2>5
  <2>8. q \in [1..n -> Seq(Groups)]
    <3>1. \A j \in 1..n : q[j] \in Seq(Groups)
      BY <2>7 DEF Holds
    <3> QED BY <2>6, <3>1
  <2> QED BY <2>2, <2>4, <2>7, <2>8 DEF Queue, l
<1> QED BY <1>6, <1>7

(* The partitions share the rows, whatever their lengths.                  *)
LEMMA PartitionsDeal ==
  ASSUME NEW k \in Nat, k >= 1, NEW n \in Nat, n >= 1, NEW lengths \in Seq(Nat),
         NEW equal \in BOOLEAN, Len(lengths) = IF equal THEN n * k ELSE n
  PROVE  /\ DOMAIN Partitions(lengths, k, equal) = 1..k
         /\ Partitions(lengths, k, equal) = [i \in 1..k |-> Partitions(lengths, k, equal)[i]]
         /\ \E B : /\ Deals(B, k, 1..Len(lengths))
                   /\ \A i \in 1..k : Lists(Partitions(lengths, k, equal)[i], B[i])
<1> DEFINE groups == Differenced(FirstStates(lengths, k, equal))
           parts == [i \in 1..k |-> Ascending(groups[i].rows)]
<1>1. Partitions(lengths, k, equal) = parts
  BY DEF Partitions
<1>2. parts = [i \in 1..k |-> parts[i]] /\ DOMAIN parts = 1..k
      /\ \A i \in 1..k : parts[i] = Ascending(groups[i].rows)
  OBVIOUS
<1>3. Holds(groups, k, 1..Len(lengths))
  <2>1. Queue(FirstStates(lengths, k, equal), n, k, 1..Len(lengths))
    BY FirstStatesHold
  <2> QED BY <2>1, DifferencedHolds
<1> HIDE DEF groups, parts
<1>4. PICK B : Deals(B, k, 1..Len(lengths)) /\ \A i \in 1..k : Lists(groups[i].rows, B[i])
  BY <1>3 DEF Holds
<1>5. ASSUME NEW i \in 1..k PROVE Lists(parts[i], B[i])
  <2> DEFINE rows == groups[i].rows
  <2>1. Lists(rows, B[i])
    BY <1>4
  <2>2. Len(rows) \in Nat
    BY <2>1, ListsFacts
  <2> HIDE DEF rows
  <2>3. PICK p : Lists(p, 1..Len(rows)) /\ Ascending(rows) = Reordered(rows, p)
    BY <2>2, ArrangementLists DEF Ascending
  <2>4. Lists(Ascending(rows), B[i])
    BY <2>1, <2>3, ListsReordered
  <2> QED BY <1>2, <2>4 DEF rows
<1> QED BY <1>1, <1>2, <1>4, <1>5

LEMMA PartitionsList ==
  ASSUME NEW k \in Nat, k >= 1, NEW n \in Nat, n >= 1, NEW lengths \in Seq(Nat),
         NEW equal \in BOOLEAN, Len(lengths) = IF equal THEN n * k ELSE n
  PROVE  Lists(Concatenated(Partitions(lengths, k, equal)), 1..Len(lengths))
<1> DEFINE parts == Partitions(lengths, k, equal)
<1>1. parts = [i \in 1..k |-> parts[i]]
  BY PartitionsDeal
<1>2. PICK B : Deals(B, k, 1..Len(lengths)) /\ \A i \in 1..k : Lists(parts[i], B[i])
  BY PartitionsDeal
<1> HIDE DEF parts
<1>3. Lists(Concatenated(parts), 1..Len(lengths))
  BY <1>1, <1>2, FlattenLists
<1> QED BY <1>3 DEF parts

LEMMA MicroBatchesList ==
  ASSUME NEW count \in Nat, count >= 1, NEW lengths \in Seq(Nat), Len(lengths) >= 1
  PROVE  Lists(Concatenated(MicroBatches(lengths, count)), 1..Len(lengths))
<1> DEFINE parts == Partitions(lengths, count, FALSE)
           l == Len(lengths)
<1>1. l \in Nat /\ l >= 1 /\ l = IF FALSE THEN l * count ELSE l
  OBVIOUS
<1>2. parts = [i \in 1..count |-> parts[i]]
  BY <1>1, PartitionsDeal
<1>3. PICK B : Deals(B, count, 1..l) /\ \A i \in 1..count : Lists(parts[i], B[i])
  BY <1>1, PartitionsDeal
<1>4. PICK p : Lists(p, 1..count) /\ MicroBatches(lengths, count) = Reordered(parts, p)
  BY ArrangementLists DEF MicroBatches
<1> HIDE DEF parts, l
<1>5. Deals(Reordered(B, p), count, 1..l)
  BY <1>3, <1>4, DealsReordered
<1>6. p \in [1..count -> 1..count]
  BY <1>4, ListsFacts, ListsLength
<1> DEFINE t == Reordered(parts, p)
           C == Reordered(B, p)
<1>7. /\ t = [i \in 1..count |-> t[i]]
      /\ \A i \in 1..count : t[i] = parts[p[i]] /\ C[i] = B[p[i]] /\ p[i] \in 1..count
  BY <1>6 DEF Reordered
<1> HIDE DEF t, C
<1>8. \A i \in 1..count : Lists(t[i], C[i])
  BY <1>3, <1>7
<1>9. Lists(Concatenated(t), 1..l)
  BY <1>5, <1>7, <1>8, FlattenLists DEF C
<1> QED BY <1>4, <1>9 DEF t, l

(* get_reverse_idx undoes the reordering.                                  *)
LEMMA ReversedOrder ==
  ASSUME NEW n \in Nat, NEW h, h = [i \in 1..n |-> h[i]], NEW idx, Lists(idx, 1..n)
  PROVE  Reordered(Reordered(h, idx), ReverseIdx(idx)) = h
<1>1. idx \in [1..n -> 1..n] /\ DOMAIN idx = 1..n /\ Covers(idx, n, 1..n) /\ Differ(idx, n)
  BY ListsFacts, ListsLength
<1> DEFINE back == ReverseIdx(idx)
           moved == Reordered(h, idx)
           again == Reordered(moved, back)
<1>2. back = [i \in 1..n |-> CHOOSE k \in 1..n : idx[k] = i]
  BY <1>1 DEF ReverseIdx
<1>3. ASSUME NEW i \in 1..n PROVE back[i] \in 1..n /\ idx[back[i]] = i
  <2>1. \E k \in 1..n : idx[k] = i
    BY <1>1 DEF Covers
  <2> QED BY <1>2, <2>1
<1>4. DOMAIN back = 1..n
  BY <1>2
<1>5. \A i \in 1..n : moved[i] = h[idx[i]]
  BY <1>1 DEF Reordered
<1>6. again = [i \in 1..n |-> moved[back[i]]]
  BY <1>4 DEF Reordered
<1> HIDE DEF back, moved, again
<1>7. \A i \in 1..n : again[i] = h[i]
  BY <1>3, <1>5, <1>6
<1>8. again = [i \in 1..n |-> again[i]]
  BY <1>6
<1>9. again = [i \in 1..n |-> h[i]]
  BY <1>7, <1>8
<1> QED BY <1>9 DEF again, moved, back

-----------------------------------------------------------------------------
(* How many micro-batches are needed: at least one, if there are tokens.   *)

LEMMA TotalPositive ==
  ASSUME NEW n \in Nat, n >= 1, NEW numbers \in Seq(Nat), Len(numbers) = n,
         \A i \in 1..n : numbers[i] >= 1
  PROVE  Total(numbers) \in Nat /\ Total(numbers) >= 1
<1> DEFINE D == [j \in 0..n |-> IF j = 0 THEN {0} ELSE Nat \ {0}]
           S == [j \in 1..n |-> [x \in D[j - 1] |-> x + numbers[j]]]
           sum[j \in 0..n] == IF j = 0 THEN 0 ELSE sum[j - 1] + numbers[j]
<1>1. D[0] = {0} /\ (\A j \in 1..n : D[j] = Nat \ {0}) /\ \A j \in 0..n : D[j] \subseteq Nat
  OBVIOUS
<1> HIDE DEF D
<1>2. 0 \in D[0]
  BY <1>1
<1>3. ASSUME NEW j \in 1..n
      PROVE  S[j] \in [D[j - 1] -> D[j]] /\ \A x \in D[j - 1] : S[j][x] = x + numbers[j]
  <2>1. S[j] = [x \in D[j - 1] |-> x + numbers[j]]
    OBVIOUS
  <2>2. j - 1 \in 0..n /\ numbers[j] \in Nat /\ numbers[j] >= 1
    OBVIOUS
  <2>3. \A x \in D[j - 1] : x + numbers[j] \in D[j]
    BY <1>1, <2>2
  <2> HIDE DEF S
  <2> QED BY <2>1, <2>3
<1> HIDE DEF S
<1>4. PICK f : /\ f = [j \in 0..n |-> f[j]]
              /\ Walk(f, S, 0, n)
              /\ \A j \in 0..n : f[j] \in D[j]
  BY <1>2, <1>3, WalkTaken
<1>5. f = [j \in 0..n |-> IF j = 0 THEN 0 ELSE f[j - 1] + numbers[j]]
  <2>1. ASSUME NEW j \in 0..n
        PROVE  f[j] = IF j = 0 THEN 0 ELSE f[j - 1] + numbers[j]
    <3>1. CASE j = 0
      BY <1>4, <3>1 DEF Walk
    <3>2. CASE j # 0
      <4>1. j \in 1..n /\ j - 1 \in 0..n
        BY <3>2
      <4>2. f[j] = S[j][f[j - 1]] /\ f[j - 1] \in D[j - 1]
        BY <1>4, <4>1 DEF Walk
      <4> QED BY <1>3, <3>2, <4>1, <4>2
    <3> QED BY <3>1, <3>2
  <2> QED BY <1>4, <2>1, Zenon
<1>6. sum = [j \in 0..n |-> IF j = 0 THEN 0 ELSE sum[j - 1] + numbers[j]]
  BY <1>5, Zenon
<1>7. Total(numbers) = sum[n]
  <2> DEFINE m == Len(numbers)
             all[j \in 0..m] == IF j = 0 THEN 0 ELSE all[j - 1] + numbers[j]
  <2>1. Total(numbers) = all[m]
    BY Zenon DEF Total
  <2> QED BY <2>1, Zenon
<1> HIDE DEF sum
<1>8. sum[0] = 0 /\ \A j \in 1..n : sum[j] = sum[j - 1] + numbers[j]
  <2> DEFINE g == [j \in 0..n |-> IF j = 0 THEN 0 ELSE sum[j - 1] + numbers[j]]
  <2>1. g[0] = 0 /\ \A j \in 1..n : g[j] = sum[j - 1] + numbers[j]
    OBVIOUS
  <2> HIDE DEF g
  <2> QED BY <1>6, <2>1, Zenon DEF g
<1>9. ASSUME NEW j \in 1..n, sum[j - 1] \in D[j - 1]
      PROVE  sum[j] \in D[j]
  BY <1>3, <1>8, <1>9
<1>10. \A j \in 0..n : sum[j] \in D[j]
  BY <1>2, <1>8, <1>9, Stays
<1> QED BY <1>1, <1>7, <1>10

LEMMA NeededAtLeastOne ==
  ASSUME NEW lengths \in Seq(Nat), Len(lengths) >= 1,
         \A i \in 1..Len(lengths) : lengths[i] >= 1, NEW room \in Nat, room >= 1
  PROVE  MicroBatchesNeeded(lengths, room) \in 1..Len(lengths)
<1> DEFINE t == Total(lengths)
           q == (t + room - 1) \div room
           l == Len(lengths)
<1>1. t \in Nat /\ t >= 1 /\ l \in Nat /\ l >= 1
  BY TotalPositive
<1> HIDE DEF t
<1>2. q \in Nat /\ q >= 1
  <2> DEFINE x == t + room - 1
  <2>1. x \in Nat /\ x >= room
    BY <1>1
  <2> HIDE DEF x
  <2>2. x \div room \in Nat /\ x \div room >= 1
    BY <2>1
  <2> QED BY <2>2 DEF x
<1>3. MicroBatchesNeeded(lengths, room) = IF q < l THEN q ELSE l
  BY DEF MicroBatchesNeeded, t
<1> HIDE DEF q, l
<1>4. (IF q < l THEN q ELSE l) \in 1..l
  BY <1>1, <1>2
<1> QED BY <1>3, <1>4 DEF l

(* The number all ranks agree on is needed by one of them.                 *)
LEMMA MaxOfBounded ==
  ASSUME NEW b \in Nat, NEW S, S \subseteq 0..b, S # {}
  PROVE  Max(S) \in S /\ \A x \in S : x <= Max(S)
<1> DEFINE T == {m \in Nat : \A x \in S : x <= m}
<1>1. b \in T
  OBVIOUS
<1>2. PICK m \in T : \A n \in T : ~(n < m)
  BY <1>1, LeastNumber
<1>3. m \in S
  <2> SUFFICES ASSUME m \notin S PROVE FALSE
    OBVIOUS
  <2>1. \A x \in S : x \in 0..b /\ x <= m /\ x # m
    BY <1>2
  <2>2. \A x \in S : x <= m - 1
    BY <1>2, <2>1
  <2>3. PICK x : x \in S
    OBVIOUS
  <2>4. x \in Int /\ x >= 0 /\ x <= m - 1
    BY <2>2, <2>3
  <2>5. m - 1 \in Nat /\ m - 1 < m
    BY <1>2, <2>4
  <2> QED BY <1>2, <2>2, <2>5
<1>4. \A x \in S : m >= x
  BY <1>2, <1>3
<1> QED BY <1>3, <1>4 DEF Max

-----------------------------------------------------------------------------
(* Rows that are cut into pieces and put together again                    *)

LEMMA CutOnce ==
  ASSUME NEW R, NEW rows \in Seq(R), NEW a \in 0..Len(rows), NEW b \in a..Len(rows)
  PROVE  SubSeq(rows, 1, a) \o SubSeq(rows, a + 1, b) = SubSeq(rows, 1, b)
<1> DEFINE s == SubSeq(rows, 1, a)
           t == SubSeq(rows, a + 1, b)
           u == SubSeq(rows, 1, b)
           c == b - a
<1>1. a \in Nat /\ b \in Nat /\ c \in Nat /\ a + c = b /\ Len(rows) \in Nat
  OBVIOUS
<1>2. s \in Seq(R) /\ Len(s) = a /\ \A i \in 1..a : s[i] = rows[i]
  BY <1>1, SubSeqProperties
<1>3. t \in Seq(R) /\ Len(t) = c /\ \A i \in 1..c : t[i] = rows[i + a]
  <2>1. t \in Seq(R) /\ Len(t) = c /\ \A i \in 1..c : t[i] = rows[(a + 1) + i - 1]
    BY <1>1, SubSeqProperties
  <2>2. \A i \in 1..c : (a + 1) + i - 1 = i + a
    BY <1>1
  <2> QED BY <2>1, <2>2
<1>4. u \in Seq(R) /\ Len(u) = b /\ \A i \in 1..b : u[i] = rows[i]
  BY <1>1, SubSeqProperties
<1> HIDE DEF s, t, u
<1> DEFINE v == s \o t
<1>5. v \in Seq(R) /\ Len(v) = b /\ \A i \in 1..b : v[i] = IF i <= a THEN s[i] ELSE t[i - a]
  <2>1. /\ v \in Seq(R) /\ Len(v) = Len(s) + Len(t)
        /\ \A i \in 1..(Len(s) + Len(t)) : v[i] = IF i <= Len(s) THEN s[i] ELSE t[i - Len(s)]
    BY <1>2, <1>3, ConcatProperties, SMTT(20)
  <2>2. Len(s) + Len(t) = b
    BY <1>1, <1>2, <1>3
  <2> HIDE DEF v, c
  <2> QED BY <1>2, <2>1, <2>2
<1> HIDE DEF v, c
<1>6. \A i \in 1..b : v[i] = u[i]
  <2> SUFFICES ASSUME NEW i \in 1..b PROVE v[i] = rows[i]
    BY <1>4
  <2>1. CASE i <= a
    BY <1>1, <1>2, <1>5, <2>1
  <2>2. CASE i > a
    <3>1. i - a \in 1..c /\ (i - a) + a = i
      BY <1>1, <2>2
    <3> QED BY <1>1, <1>3, <1>5, <2>2, <3>1
  <2> QED BY <1>1, <2>1, <2>2
<1>7. v = [i \in 1..b |-> v[i]] /\ u = [i \in 1..b |-> u[i]]
  BY <1>4, <1>5, SeqIsFunction
<1>8. v = u
  BY <1>6, <1>7
<1> QED BY <1>8 DEF s, t, u, v

(* Cut at the places c[0] to c[n], the first and the last of them the ends. *)
Places(c, n, l) ==
  /\ c[0] = 0 /\ c[n] = l
  /\ \A k \in 1..n : c[k - 1] \in 0..l /\ c[k] \in c[k - 1]..l

Pieces(parts, rows, c, n) == parts = [k \in 1..n |-> SubSeq(rows, c[k - 1] + 1, c[k])]

LEMMA PiecesJoin ==
  ASSUME NEW R, NEW rows \in Seq(R), NEW n \in Nat, NEW c, Places(c, n, Len(rows)),
         NEW parts, Pieces(parts, rows, c, n)
  PROVE  Concatenated(parts) = rows
<1>0. /\ c[0] = 0 /\ c[n] = Len(rows)
      /\ \A k \in 1..n : c[k - 1] \in 0..Len(rows) /\ c[k] \in c[k - 1]..Len(rows)
  BY DEF Places
<1>1. /\ \A k \in 1..n : parts[k] = SubSeq(rows, c[k - 1] + 1, c[k])
      /\ parts = [k \in 1..n |-> parts[k]]
  BY DEF Pieces
<1>2. ASSUME NEW k \in 1..n PROVE SubSeq(rows, c[k - 1] + 1, c[k]) \in Seq(R)
  <2>1. c[k - 1] \in Nat /\ c[k] \in Nat /\ c[k] <= Len(rows) /\ c[k - 1] <= c[k]
    BY <1>0
  <2> QED BY <2>1, SubSeqProperties
<1>3. parts \in [1..n -> Seq(R)]
  BY <1>1, <1>2
<1>4. PICK h : Joins(h, parts, n) /\ Concatenated(parts) = h[n]
  BY <1>3, FlattenWalk
<1> DEFINE D == [k \in 0..n |-> {SubSeq(rows, 1, c[k])}]
<1>5. \A k \in 0..n : D[k] = {SubSeq(rows, 1, c[k])}
  OBVIOUS
<1> HIDE DEF D
<1>6. h[0] \in D[0]
  <2>1. SubSeq(rows, 1, 0) = << >>
    BY SubSeqProperties
  <2>2. h[0] = << >> /\ 0 \in 0..n
    BY <1>4 DEF Joins
  <2>3. D[0] = {SubSeq(rows, 1, 0)}
    BY <1>0, <1>5, <2>2
  <2> QED BY <2>1, <2>2, <2>3
<1>7. ASSUME NEW k \in 1..n, h[k - 1] \in D[k - 1]
      PROVE  h[k] \in D[k]
  <2>1. k - 1 \in 0..n /\ k \in 0..n
    OBVIOUS
  <2>2. h[k - 1] = SubSeq(rows, 1, c[k - 1]) /\ h[k] = h[k - 1] \o parts[k]
    BY <1>4, <1>5, <1>7, <2>1 DEF Joins
  <2>3. c[k - 1] \in 0..Len(rows) /\ c[k] \in c[k - 1]..Len(rows)
    BY <1>0
  <2>4. SubSeq(rows, 1, c[k - 1]) \o SubSeq(rows, c[k - 1] + 1, c[k]) = SubSeq(rows, 1, c[k])
    BY ONLY <2>3, rows \in Seq(R), CutOnce
  <2> QED BY <1>1, <1>5, <2>1, <2>2, <2>4
<1>8. \A k \in 0..n : h[k] \in D[k]
  BY <1>6, <1>7, Stays
<1>9. SubSeq(rows, 1, Len(rows)) = rows
  OBVIOUS
<1>10. n \in 0..n
  OBVIOUS
<1>11. h[n] = SubSeq(rows, 1, c[n])
  BY <1>5, <1>8, <1>10
<1> QED BY <1>0, <1>4, <1>9, <1>11

LEMMA ChunksJoin ==
  ASSUME NEW R, NEW rows \in Seq(R), NEW n \in Nat, n >= 1, NEW size \in Nat,
         Len(rows) = size * n
  PROVE  Concatenated([d \in 1..n |-> Chunk(rows, n, d - 1)]) = rows
<1> DEFINE c == [d \in 0..n |-> d * size]
           parts == [d \in 1..n |-> SubSeq(rows, c[d - 1] + 1, c[d])]
<1>1. Len(rows) \div n = size
  BY Multiple
<1>2. \A d \in 0..n : c[d] = d * size
  OBVIOUS
<1>3. ASSUME NEW d \in 1..n
      PROVE  Chunk(rows, n, d - 1) = SubSeq(rows, c[d - 1] + 1, c[d])
  <2>1. d - 1 \in 0..n /\ d \in 0..n /\ (d - 1) + 1 = d
    OBVIOUS
  <2> QED BY <1>1, <1>2, <2>1 DEF Chunk
<1>4. [d \in 1..n |-> Chunk(rows, n, d - 1)] = parts
  BY <1>3
<1>5. \A d \in 1..n : c[d - 1] \in 0..Len(rows) /\ c[d] \in c[d - 1]..Len(rows)
  <2> SUFFICES ASSUME NEW d \in 1..n
               PROVE  c[d - 1] \in 0..Len(rows) /\ c[d] \in c[d - 1]..Len(rows)
    OBVIOUS
  <2>1. d - 1 \in Nat /\ d \in Nat /\ d - 1 <= d /\ d <= n /\ d - 1 \in 0..n /\ d \in 0..n
    OBVIOUS
  <2>2. (d - 1) * size <= d * size /\ d * size <= n * size /\ (d - 1) * size \in Nat
        /\ d * size \in Nat /\ n * size \in Nat
    BY <2>1, Growing
  <2>3. n * size = Len(rows)
    OBVIOUS
  <2>4. c[d - 1] = (d - 1) * size /\ c[d] = d * size
    BY <1>2, <2>1
  <2> HIDE DEF c
  <2> QED BY <2>2, <2>3, <2>4
<1>6. c[0] = 0 /\ c[n] = Len(rows)
  OBVIOUS
<1>7. Pieces(parts, rows, c, n)
  BY Zenon DEF Pieces
<1> HIDE DEF c, parts
<1>8. Places(c, n, Len(rows))
  BY <1>5, <1>6 DEF Places
<1>9. Concatenated(parts) = rows
  BY <1>7, <1>8, PiecesJoin
<1> QED BY <1>4, <1>9

(* Where split cuts depends on the number of rows only.                    *)
NumSplits(l, size) == (l + size - 1) \div size
CutPlaces(l, size) == [k \in 0..NumSplits(l, size) |-> IF k * size > l THEN l ELSE k * size]

LEMMA SplitPlaces ==
  ASSUME NEW l \in Nat, NEW size \in Nat, size >= 1
  PROVE  /\ NumSplits(l, size) \in Nat
         /\ Places(CutPlaces(l, size), NumSplits(l, size), l)
         /\ \A k \in 1..NumSplits(l, size) :
              /\ CutPlaces(l, size)[k - 1] = (k - 1) * size
              /\ CutPlaces(l, size)[k] = IF k * size > l THEN l ELSE k * size
              /\ CutPlaces(l, size)[k - 1] < CutPlaces(l, size)[k]
<1> DEFINE n == NumSplits(l, size)
           c == CutPlaces(l, size)
<1>1. n \in Nat /\ n * size \in Nat /\ n * size >= l /\ n * size < l + size
  <2> DEFINE x == l + size - 1
  <2>1. x \in Nat /\ size # 0
    OBVIOUS
  <2> HIDE DEF x
  <2>2. /\ x \div size \in Nat /\ x % size \in 0..(size - 1)
        /\ (x \div size) * size \in Nat /\ x = (x \div size) * size + (x % size)
    BY <2>1, Division
  <2>3. n = x \div size
    BY DEF x, NumSplits
  <2> HIDE DEF n
  <2>4. x = l + size - 1
    BY DEF x
  <2> QED BY <2>1, <2>2, <2>3, <2>4
<1>2. ASSUME NEW k \in 0..n
      PROVE  c[k] = IF k * size > l THEN l ELSE k * size
  BY DEF CutPlaces
<1> HIDE DEF n, c
<1>3. ASSUME NEW k \in 1..n
      PROVE  (k - 1) * size \in Nat /\ (k - 1) * size < l /\ k * size = (k - 1) * size + size
  <2>1. k - 1 \in Nat /\ n - 1 \in Nat /\ k - 1 <= n - 1
    BY <1>1
  <2>2. (k - 1) * size <= (n - 1) * size /\ (k - 1) * size \in Nat
    BY <2>1, Growing
  <2>3. (n - 1) * size = n * size - size
    BY <1>1, OneMore
  <2>4. (k - 1) * size = k * size - size /\ k * size \in Int
    BY <1>1, OneMore
  <2> QED BY <1>1, <2>2, <2>3, <2>4
<1>4. ASSUME NEW k \in 1..n
      PROVE  c[k - 1] = (k - 1) * size
  <2>1. k - 1 \in 0..n
    BY <1>1
  <2> QED BY <1>1, <1>2, <1>3, <2>1
<1>5. c[0] = 0 /\ c[n] = l
  BY <1>1, <1>2
<1>6. ASSUME NEW k \in 1..n
      PROVE  /\ c[k - 1] \in 0..l /\ c[k] \in c[k - 1]..l /\ c[k - 1] < c[k]
             /\ c[k] = IF k * size > l THEN l ELSE k * size
  <2>1. k \in 0..n
    BY <1>1
  <2>2. c[k] = IF k * size > l THEN l ELSE k * size
    BY <1>2, <2>1
  <2> QED BY <1>1, <1>3, <1>4, <2>2
<1>7. Places(c, n, l)
  BY <1>5, <1>6 DEF Places
<1> QED BY <1>1, <1>4, <1>6, <1>7 DEF n, c

LEMMA SplitPieces ==
  ASSUME NEW R, NEW rows \in Seq(R), NEW l, Len(rows) = l, NEW size \in Nat, size >= 1
  PROVE  Pieces(Split(rows, size), rows, CutPlaces(l, size), NumSplits(l, size))
<1> DEFINE n == NumSplits(l, size)
           c == CutPlaces(l, size)
           parts == [k \in 1..n |-> SubSeq(rows, c[k - 1] + 1, c[k])]
<1>1. l \in Nat
  OBVIOUS
<1>2. \A k \in 1..n : c[k - 1] = (k - 1) * size /\ c[k] = IF k * size > l THEN l ELSE k * size
  BY <1>1, SplitPlaces
<1>3. Split(rows, size) = [k \in 1..n |->
           SubSeq(rows, (k - 1) * size + 1, IF k * size > l THEN l ELSE k * size)]
  BY DEF Split, NumSplits
<1> HIDE DEF c, n
<1>4. Split(rows, size) = parts
  BY <1>2, <1>3
<1>5. Pieces(parts, rows, c, n)
  BY Zenon DEF Pieces
<1> QED BY <1>4, <1>5 DEF c, n

LEMMA SplitJoins ==
  ASSUME NEW R, NEW rows \in Seq(R), NEW size \in Nat, size >= 1
  PROVE  Concatenated(Split(rows, size)) = rows
<1> DEFINE l == Len(rows)
           n == NumSplits(l, size)
           c == CutPlaces(l, size)
<1>1. l \in Nat
  OBVIOUS
<1>2. n \in Nat /\ Places(c, n, l)
  BY <1>1, SplitPlaces
<1>3. Pieces(Split(rows, size), rows, c, n)
  BY SplitPieces
<1> HIDE DEF n, c
<1> QED BY <1>2, <1>3, PiecesJoin

-----------------------------------------------------------------------------
(* The rows of the generation: sample s of a prompt is its s-th copy       *)

AllPrompts(prompts, n) == Interleaved([p \in 1..prompts |-> p], n)
Copies(column) ==
  [i \in DOMAIN column |-> <<column[i], Cardinality({j \in 1..i : column[j] = column[i]})>>]

LEMMA PromptPlaces ==
  ASSUME NEW prompts \in Nat, NEW n \in Nat, n # 0
  PROVE  /\ DOMAIN AllPrompts(prompts, n) = 1..(prompts * n)
         /\ \A p \in 1..prompts, s \in 1..n : AllPrompts(prompts, n)[(p - 1) * n + s] = p
<1> DEFINE column == AllPrompts(prompts, n)
           rows == [p \in 1..prompts |-> p]
<1>1. Len(rows) = prompts /\ n * prompts = prompts * n
  OBVIOUS
<1>2. column = [i \in 1..(prompts * n) |-> rows[(i - 1) \div n + 1]]
  BY <1>1 DEF AllPrompts, Interleaved
<1>3. ASSUME NEW p \in 1..prompts, NEW s \in 1..n
      PROVE  column[(p - 1) * n + s] = p
  <2> DEFINE i == (p - 1) * n + s
  <2>1. i \in 1..(prompts * n)
    BY Grid
  <2>2. p - 1 \in Nat /\ s - 1 \in 0..(n - 1) /\ (p - 1) * n \in Nat
    OBVIOUS
  <2>3. ((p - 1) * n + (s - 1)) \div n = p - 1
    BY <2>2, Quotient
  <2>4. i - 1 = (p - 1) * n + (s - 1)
    BY <2>2
  <2>5. (i - 1) \div n + 1 = p
    BY <2>3, <2>4
  <2> HIDE DEF i, column
  <2>6. column[i] = rows[p]
    BY <1>2, <2>1, <2>5
  <2> QED BY <2>6 DEF i
<1> QED BY <1>2, <1>3

LEMMA CopiesList ==
  ASSUME NEW prompts \in Nat, NEW n \in Nat, n # 0
  PROVE  LET column == AllPrompts(prompts, n)
         IN  /\ Lists(Copies(column), (1..prompts) \X (1..n))
             /\ Len(Copies(column)) = prompts * n
             /\ DOMAIN Copies(column) = 1..(prompts * n)
             /\ \A i \in 1..(prompts * n) : Copies(column)[i][1] = column[i]
<1> DEFINE column == AllPrompts(prompts, n)
           copies == Copies(column)
           l == prompts * n
           Place(p, s) == (p - 1) * n + s
<1>1. l \in Nat
  OBVIOUS
<1>2. /\ \A p \in 1..prompts, s \in 1..n : Place(p, s) \in 1..l
      /\ \A p, o \in 1..prompts, s, h \in 1..n : Place(p, s) = Place(o, h) => p = o /\ s = h
      /\ \A x \in 1..l : \E p \in 1..prompts, s \in 1..n : x = Place(p, s)
  BY Grid
<1>3. DOMAIN column = 1..l /\ \A p \in 1..prompts, s \in 1..n : column[Place(p, s)] = p
  BY PromptPlaces
<1>4. ASSUME NEW p \in 1..prompts, NEW s \in 1..n
      PROVE  {j \in 1..Place(p, s) : column[j] = column[Place(p, s)]} = (Place(p, 1))..Place(p, s)
  <2> DEFINE i == Place(p, s)
             same == {j \in 1..i : column[j] = column[i]}
             first == Place(p, 1)
  <2>0. 1 \in 1..n /\ (p - 1) * n \in Nat /\ i = (p - 1) * n + s /\ first = (p - 1) * n + 1
    OBVIOUS
  <2>1. i \in 1..l /\ column[i] = p /\ first \in 1..l /\ (p - 1) * n \in Nat
        /\ i = (p - 1) * n + s /\ first = (p - 1) * n + 1
    <3> HIDE DEF Place, column
    <3> QED BY <1>2, <1>3, <2>0
  <2>2. ASSUME NEW j \in first..i PROVE j \in same
    <3>1. j - (p - 1) * n \in 1..n /\ j = Place(p, j - (p - 1) * n) /\ j \in 1..i
      BY <2>1
    <3>2. column[j] = p
      BY <1>3, <3>1
    <3> QED BY <2>1, <3>1, <3>2
  <2>3. ASSUME NEW j \in same PROVE j \in first..i
    <3>1. j \in 1..l /\ j <= i /\ column[j] = p /\ j \in Nat
      BY <1>1, <2>1
    <3>2. PICK o \in 1..prompts, h \in 1..n : j = Place(o, h)
      BY <1>2, <3>1
    <3>3. o = p
      BY <1>3, <3>1, <3>2
    <3>4. j = (p - 1) * n + h
      BY <3>2, <3>3
    <3> QED BY <2>1, <3>1, <3>4
  <2> HIDE DEF same, first, i
  <2>4. same \subseteq first..i
    BY <2>3
  <2>5. first..i \subseteq same
    BY <2>2
  <2>6. same = first..i
    BY <2>4, <2>5
  <2> QED BY <2>6 DEF same, first, i
<1>5. ASSUME NEW p \in 1..prompts, NEW s \in 1..n
      PROVE  Cardinality({j \in 1..Place(p, s) : column[j] = column[Place(p, s)]}) = s
  <2> DEFINE a == Place(p, 1)
             b == Place(p, s)
  <2>1. a \in Int /\ b \in Int /\ b - a + 1 = s /\ a <= b
    <3>1. (p - 1) * n \in Nat
      OBVIOUS
    <3> QED BY <3>1
  <2> HIDE DEF a, b
  <2>2. Cardinality(a..b) = s
    BY <2>1, FS_Interval
  <2> QED BY <1>4, <2>2 DEF a, b
<1> HIDE DEF column, Place
<1>6. copies = [i \in 1..l |-> <<column[i], Cardinality({j \in 1..i : column[j] = column[i]})>>]
  BY <1>3 DEF Copies
<1> HIDE DEF copies, l
<1>7. ASSUME NEW p \in 1..prompts, NEW s \in 1..n
      PROVE  copies[Place(p, s)] = <<p, s>>
  BY <1>2, <1>3, <1>5, <1>6
<1>8. ASSUME NEW i \in 1..l PROVE copies[i] \in (1..prompts) \X (1..n) /\ copies[i][1] = column[i]
  <2>1. PICK p \in 1..prompts, s \in 1..n : i = Place(p, s)
    BY <1>2
  <2>2. copies[i] = <<p, s>> /\ column[i] = p
    BY <1>3, <1>7, <2>1
  <2> QED BY <2>2
<1>9. copies = [i \in 1..l |-> copies[i]]
  BY <1>6
<1>10. copies \in [1..l -> (1..prompts) \X (1..n)]
  BY <1>8, <1>9
<1>11. Covers(copies, l, (1..prompts) \X (1..n))
  <2> SUFFICES ASSUME NEW r \in (1..prompts) \X (1..n)
               PROVE  \E i \in 1..l : copies[i] = r
    BY DEF Covers
  <2>1. PICK p \in 1..prompts, s \in 1..n : r = <<p, s>>
    OBVIOUS
  <2> QED BY <1>2, <1>7, <2>1
<1>12. Differ(copies, l)
  <2> SUFFICES ASSUME NEW i \in 1..l, NEW j \in 1..l, copies[i] = copies[j] PROVE i = j
    BY DEF Differ
  <2>1. PICK p \in 1..prompts, s \in 1..n : i = Place(p, s)
    BY <1>2
  <2>2. PICK o \in 1..prompts, h \in 1..n : j = Place(o, h)
    BY <1>2
  <2>3. <<p, s>> = <<o, h>>
    BY <1>7, <2>1, <2>2
  <2> QED BY <2>1, <2>2, <2>3
<1>13. Lists(copies, (1..prompts) \X (1..n)) /\ Len(copies) = l
  BY <1>1, <1>10, <1>11, <1>12, ListsIntro DEF l
<1>14. DOMAIN copies = 1..l /\ \A i \in 1..l : copies[i][1] = column[i]
  BY <1>8, <1>9
<1> QED BY <1>13, <1>14 DEF copies, l, column

-----------------------------------------------------------------------------
(* What the ranks are given *)

LEMMA ListsCardinality ==
  ASSUME NEW R, NEW s, Lists(s, R)
  PROVE  IsFiniteSet(R) /\ Cardinality(R) = Len(s)
<1> DEFINE m == Len(s)
<1>1. m \in Nat /\ s \in [1..m -> R] /\ Covers(s, m, R) /\ Differ(s, m)
  BY ListsFacts
<1> HIDE DEF m
<1>2. s \in Bijection(1..m, R)
  <2>1. s \in Injection(1..m, R)
    BY <1>1 DEF Injection, IsInjective, Differ
  <2>2. s \in Surjection(1..m, R)
    BY <1>1 DEF Surjection, Covers
  <2> QED BY <2>1, <2>2 DEF Bijection
<1>3. ExistsBijection(1..m, R)
  BY <1>2 DEF ExistsBijection
<1>4. IsFiniteSet(1..m) /\ Cardinality(1..m) = m
  BY <1>1, FS_Interval
<1> QED BY <1>3, <1>4, FS_Bijection DEF m

NumRows == cfg.prompts * cfg.n

LEMMA SettingFacts ==
  ASSUME cfg \in Settings
  PROVE  /\ cfg.prompts \in Nat /\ cfg.prompts # 0 /\ cfg.n \in Nat /\ cfg.n # 0
         /\ cfg.world \in Nat /\ cfg.world # 0
         /\ cfg.tp \in Nat /\ cfg.tp # 0 /\ cfg.sp \in Nat /\ cfg.sp # 0
         /\ cfg.micro \in Nat /\ cfg.micro # 0 /\ cfg.tokens \in Nat /\ cfg.tokens # 0
         /\ cfg.balance \in BOOLEAN /\ cfg.dynamic \in BOOLEAN
         /\ cfg.world % cfg.tp = 0 /\ NumRows % (cfg.world \div cfg.tp) = 0
         /\ cfg.world % cfg.sp = 0 /\ NumRows % (cfg.world \div cfg.sp) = 0
         /\ cfg.balance => NumRows % cfg.world = 0
         /\ Lengths[cfg] \subseteq Nat \ {0}
         /\ NumRows \in Nat /\ NumRows # 0
<1>1. /\ cfg.prompts \in Nat /\ cfg.prompts # 0 /\ cfg.n \in Nat /\ cfg.n # 0
      /\ cfg.world \in Nat /\ cfg.world # 0
      /\ cfg.tp \in Nat /\ cfg.tp # 0 /\ cfg.sp \in Nat /\ cfg.sp # 0
      /\ cfg.micro \in Nat /\ cfg.micro # 0 /\ cfg.tokens \in Nat /\ cfg.tokens # 0
  BY SettingsAssumption
<1>2. /\ cfg.balance \in BOOLEAN /\ cfg.dynamic \in BOOLEAN
      /\ Lengths[cfg] \subseteq Nat \ {0}
  BY SettingsAssumption
<1>3. /\ cfg.world % cfg.tp = 0 /\ NumRows % (cfg.world \div cfg.tp) = 0
      /\ cfg.world % cfg.sp = 0 /\ NumRows % (cfg.world \div cfg.sp) = 0
      /\ cfg.balance => NumRows % cfg.world = 0
  BY SettingsAssumption DEF NumRows
<1>4. NumRows \in Nat /\ NumRows # 0
  <2> DEFINE a == cfg.prompts
             b == cfg.n
  <2>1. a \in Nat /\ a # 0 /\ b \in Nat /\ b # 0
    BY <1>1
  <2> HIDE DEF a, b
  <2>2. a * b \in Nat /\ a * b # 0
    BY <2>1
  <2> QED BY <2>2 DEF NumRows, a, b
<1> QED BY <1>1, <1>2, <1>3, <1>4

LEMMA RowsCounted ==
  ASSUME cfg \in Settings, NEW s, Lists(s, Rows)
  PROVE  Len(s) = NumRows
<1>1. Cardinality(Rows) = Len(s)
  BY ListsCardinality
<1>2. cfg.prompts \in Nat /\ cfg.n \in Nat
  BY SettingFacts
<1> DEFINE a == cfg.prompts
           b == cfg.n
<1>3. a \in Nat /\ b \in Nat /\ Rows = (1..a) \X (1..b) /\ NumRows = a * b
  BY <1>2 DEF Rows, NumRows
<1> HIDE DEF a, b
<1>4. IsFiniteSet(1..a) /\ Cardinality(1..a) = a
  BY <1>3, FS_Interval
<1>5. IsFiniteSet(1..b) /\ Cardinality(1..b) = b
  BY <1>3, FS_Interval
<1>6. Cardinality((1..a) \X (1..b)) = a * b
  <2> DEFINE A == 1..a
             B == 1..b
  <2>1. IsFiniteSet(A) /\ Cardinality(A) = a /\ IsFiniteSet(B) /\ Cardinality(B) = b
    BY <1>4, <1>5
  <2> HIDE DEF A, B
  <2>2. Cardinality(A \X B) = Cardinality(A) * Cardinality(B)
    BY ONLY <2>1, FS_Product
  <2>3. Cardinality(A \X B) = a * b
    BY <2>1, <2>2
  <2> QED BY <2>3 DEF A, B
<1> QED BY <1>1, <1>3, <1>6

(* The shares of the groups of neighbouring ranks.                         *)
LEMMA Shares ==
  ASSUME NEW g \in Nat, g # 0, NEW world \in Nat, world # 0, world % g = 0,
         NEW total \in Nat, total # 0, total % (world \div g) = 0
  PROVE  \E w \in Nat, size \in Nat :
           /\ w >= 1 /\ world = w * g /\ world \div g = w
           /\ size >= 1 /\ total = size * w /\ total \div w = size
           /\ \A r \in 0..(world - 1) : r \div g \in 0..(w - 1)
           /\ \A d \in 1..w : (d - 1) * g \in 0..(world - 1) /\ ((d - 1) * g) \div g = d - 1
<1> DEFINE w == world \div g
           size == total \div w
<1>1. w \in Nat /\ w * g \in Nat /\ world = w * g + (world % g)
  BY Division
<1>2. world = w * g
  BY <1>1
<1> HIDE DEF w
<1>3. w # 0
  BY <1>1, <1>2
<1>4. total % w = 0
  BY DEF w
<1>5. size \in Nat /\ size * w \in Nat /\ total = size * w + (total % w)
  BY <1>1, <1>3, Division
<1>6. total = size * w
  BY <1>4, <1>5
<1> HIDE DEF size
<1>7. size # 0
  BY <1>1, <1>5, <1>6
<1>8. ASSUME NEW r \in 0..(world - 1) PROVE r \div g \in 0..(w - 1)
  <2> DEFINE q == r \div g
  <2>0. r \in Nat /\ r < world
    OBVIOUS
  <2>1. q \in Nat /\ q * g \in Nat /\ r % g \in 0..(g - 1) /\ r = q * g + (r % g)
    BY <2>0, Division
  <2> HIDE DEF q
  <2>2. q < w
    <3> SUFFICES ASSUME w <= q PROVE FALSE
      BY <1>1, <2>1
    <3>1. w * g <= q * g
      BY <1>1, <2>1, Growing
    <3> QED BY <1>1, <1>2, <2>1, <3>1
  <2>3. q \in 0..(w - 1)
    BY <1>1, <2>1, <2>2
  <2> QED BY <2>3 DEF q
<1>9. ASSUME NEW d \in 1..w PROVE (d - 1) * g \in 0..(world - 1) /\ ((d - 1) * g) \div g = d - 1
  <2>1. d - 1 \in Nat /\ d \in Nat /\ d <= w
    BY <1>1
  <2>2. ((d - 1) * g) \div g = d - 1 /\ (d - 1) * g \in Nat
    BY <2>1, Multiple
  <2>3. d * g <= w * g /\ d * g \in Nat /\ (d - 1) * g = d * g - g
    BY <1>1, <2>1, Growing, OneMore
  <2> QED BY <1>2, <2>2, <2>3
<1>10. w >= 1 /\ size >= 1
  BY <1>1, <1>3, <1>5, <1>7
<1>11. world \div g = w /\ total \div w = size
  BY DEF w, size
<1> QED BY <1>1, <1>2, <1>5, <1>6, <1>8, <1>9, <1>10, <1>11

-----------------------------------------------------------------------------
(* The profilers *)

Middle == pc \notin {"start_profile", "done", "failed"}

(* Between steps a profile runs on only from one profiled step to the      *)
(* next; within a step it runs if the step is one to profile.              *)
ProfileInv ==
  /\ cfg \in Settings
  /\ curr \in BOOLEAN /\ prev \in BOOLEAN
  /\ pc = "start_profile" \/ Middle => (curr <=> step \in cfg.profile)
  /\ pc = "start_profile" => profiling = IF cfg.continuous /\ prev /\ curr THEN 1 ELSE 0
  /\ Middle => profiling = IF curr THEN 1 ELSE 0

LEMMA TruthValue ==
  ASSUME NEW x, NEW e, NEW S, x = (e \in S)
  PROVE  x \in BOOLEAN /\ (x <=> e \in S)
<1>1. CASE e \in S
  <2>1. (e \in S) = TRUE
    BY <1>1
  <2>2. x = TRUE
    BY <2>1
  <2> QED BY <1>1, <2>2
<1>2. CASE e \notin S
  <2>1. (e \in S) = FALSE
    BY <1>2
  <2>2. x = FALSE
    BY <2>1
  <2> QED BY <1>2, <2>2
<1> QED BY <1>1, <1>2

LEMMA ProfileInit == Init => ProfileInv
<1> SUFFICES ASSUME Init PROVE ProfileInv
  OBVIOUS
<1>1. cfg \in Settings /\ pc = "start_profile" /\ ~prev /\ prev \in BOOLEAN /\ profiling = 0
  BY DEF Init
<1>2. curr = (step \in cfg.profile)
  BY DEF Init
<1>3. curr \in BOOLEAN /\ (curr <=> step \in cfg.profile)
  BY <1>2, TruthValue
<1> QED BY <1>1, <1>3 DEF ProfileInv, Middle

LEMMA AfterCallStays ==
  AfterCall(pc) \in {"ref", "reward", "values", "update", "stop_profile"}
BY DEF AfterCall

LEMMA ProfileStep ==
  ASSUME ProfileInv, [Next]_vars
  PROVE  ProfileInv'
<1> USE DEF ProfileInv, Middle
<1>0. cfg.continuous \in BOOLEAN
  BY SettingsAssumption
<1>1. CASE Fetch
  BY <1>0, <1>1 DEF Fetch
<1>2. CASE UnionGenerated
  BY <1>2 DEF UnionGenerated
<1>3. CASE Balance
  BY <1>3 DEF Balance
<1>4. CASE UnionComputed
  BY <1>4, AfterCallStays DEF UnionComputed
<1>5. CASE AfterUpdate
  BY <1>5, AfterCallStays DEF AfterUpdate
<1>6. CASE Segment
  BY <1>6 DEF Segment
<1>7. CASE RewardRetried
  BY <1>7 DEF RewardRetried
<1>8. CASE Judge
  BY <1>8, AfterCallStays DEF Judge
<1>9. CASE StopProfile
  <2> DEFINE next == step + 1 \in cfg.profile
  <2>0. curr' = next
    BY <1>9 DEF StopProfile
  <2>1. /\ pc = "stop_profile" /\ prev' = curr
        /\ pc' = IF step >= cfg.total THEN "done" ELSE "start_profile"
        /\ step' = IF step >= cfg.total THEN step ELSE step + 1
        /\ profiling' = profiling - (IF IF cfg.continuous THEN curr /\ ~next ELSE curr THEN 1 ELSE 0)
        /\ cfg' = cfg
    BY <1>9 DEF StopProfile
  <2>5. curr' \in BOOLEAN /\ (curr' <=> next)
    BY <2>0, TruthValue
  <2>2. curr \in BOOLEAN /\ profiling = IF curr THEN 1 ELSE 0
    BY <2>1
  <2>3. pc' = "start_profile" => (curr' <=> step' \in cfg'.profile)
    BY <2>1, <2>5
  <2>4. pc' = "start_profile" =>
          profiling' = IF cfg'.continuous /\ prev' /\ curr' THEN 1 ELSE 0
    BY <1>0, <2>1, <2>2, <2>5
  <2> QED BY <2>1, <2>3, <2>4, <2>5
<1>10. CASE \E r \in Ranks : RankStep(r)
  BY <1>10 DEF RankStep, Generate, Forward, Update
<1>11. CASE UNCHANGED vars
  BY <1>11 DEF vars
<1> QED
  BY <1>1, <1>2, <1>3, <1>4, <1>5, <1>6, <1>7, <1>8, <1>9, <1>10, <1>11
  DEF Next, DriverStep, Terminated

(* Every step named by global_profiler is profiled, once, and no other:    *)
(* for every list of steps, with profiles that go on over neighbouring     *)
(* steps or without, and from whatever step a start or resume begins.      *)
THEOREM StepsAreProfiled == Spec => []StepsProfiled
<1>1. ProfileInv => StepsProfiled
  BY DEF ProfileInv, Middle, StepsProfiled
<1> QED BY <1>1, ProfileInit, ProfileStep, PTL DEF Spec

-----------------------------------------------------------------------------
(* What the ranks hold and return *)

LEMMA GroupFacts ==
  ASSUME cfg \in Settings, NEW call
  PROVE  /\ Group(call) \in Nat /\ Group(call) # 0
         /\ cfg.world % Group(call) = 0 /\ NumRows % (cfg.world \div Group(call)) = 0
<1>1. CASE call = "generate"
  <2>1. Group(call) = cfg.tp
    BY <1>1 DEF Group
  <2> QED BY <2>1, SettingFacts
<1>2. CASE call # "generate"
  <2>1. Group(call) = cfg.sp
    BY <1>2 DEF Group
  <2> QED BY <2>1, SettingFacts
<1> QED BY <1>1, <1>2

(* The results of the first rank of each group, in the order of the ranks, *)
(* are the column the parts were cut from.                                 *)
LEMMA CollectedParts ==
  ASSUME cfg \in Settings, NEW R, NEW rows \in Seq(R), Len(rows) = NumRows, NEW call,
         \A r \in Ranks : out[r] = Part(rows, call, r)
  PROVE  Collected(call) = rows
<1> DEFINE g == Group(call)
<1>1. g \in Nat /\ g # 0 /\ cfg.world % g = 0 /\ NumRows % (cfg.world \div g) = 0
  BY GroupFacts
<1>2. cfg.world \in Nat /\ cfg.world # 0 /\ NumRows \in Nat /\ NumRows # 0
  BY SettingFacts
<1> HIDE DEF g
<1>3. PICK w \in Nat, size \in Nat :
        /\ w >= 1 /\ cfg.world = w * g /\ cfg.world \div g = w
        /\ size >= 1 /\ NumRows = size * w /\ NumRows \div w = size
        /\ \A r \in 0..(cfg.world - 1) : r \div g \in 0..(w - 1)
        /\ \A d \in 1..w : (d - 1) * g \in 0..(cfg.world - 1) /\ ((d - 1) * g) \div g = d - 1
  BY <1>1, <1>2, Shares
<1>4. ASSUME NEW d \in 1..w
      PROVE  out[(d - 1) * g] = Chunk(rows, w, d - 1)
  <2>1. (d - 1) * g \in Ranks /\ ((d - 1) * g) \div g = d - 1
    BY <1>3 DEF Ranks
  <2>2. out[(d - 1) * g] = Chunk(rows, cfg.world \div g, ((d - 1) * g) \div g)
    BY <2>1 DEF Part, g
  <2> QED BY <1>3, <2>1, <2>2
<1>5. Collected(call) = Concatenated([d \in 1..(cfg.world \div g) |-> out[(d - 1) * g]])
  BY DEF Collected, g
<1>6. [d \in 1..(cfg.world \div g) |-> out[(d - 1) * g]] = [d \in 1..w |-> Chunk(rows, w, d - 1)]
  BY <1>3, <1>4
<1>7. Concatenated([d \in 1..w |-> Chunk(rows, w, d - 1)]) = rows
  BY <1>3, ChunksJoin
<1> QED BY <1>5, <1>6, <1>7

LEMMA PieceFacts ==
  ASSUME NEW R, NEW rows \in Seq(R), NEW a \in 0..Len(rows), NEW b \in a..Len(rows)
  PROVE  /\ SubSeq(rows, a + 1, b) \in Seq(R)
         /\ Len(SubSeq(rows, a + 1, b)) = b - a
         /\ \A x \in 1..(b - a) : SubSeq(rows, a + 1, b)[x] = rows[a + x]
  OBVIOUS

(* The groups of a call and the rows of each: w groups of g ranks, size    *)
(* rows to a group, from the place after from(r).                          *)
Shared(call, g, w, size) ==
  /\ w \in Nat /\ w >= 1 /\ size \in Nat /\ size >= 1
  /\ g \in Nat /\ g >= 1 /\ Group(call) = g
  /\ cfg.world = w * g /\ cfg.world \div g = w /\ NumRows = size * w
  /\ \A r \in Ranks : r \div g \in 0..(w - 1)
  /\ \A d \in 0..(w - 1) : d * g \in Ranks /\ (d * g) \div g = d

LEMMA SharedRows ==
  ASSUME cfg \in Settings, NEW call
  PROVE  \E g, w, size \in Nat : Shared(call, g, w, size)
<1> DEFINE g == Group(call)
<1>1. g \in Nat /\ g # 0 /\ cfg.world % g = 0 /\ NumRows % (cfg.world \div g) = 0
  BY GroupFacts
<1>2. cfg.world \in Nat /\ cfg.world # 0 /\ NumRows \in Nat /\ NumRows # 0
  BY SettingFacts
<1>3. g = Group(call)
  OBVIOUS
<1> HIDE DEF g
<1> DEFINE world == cfg.world
           total == NumRows
<1> HIDE DEF world, total
<1>4. PICK w \in Nat, size \in Nat :
        /\ w >= 1 /\ world = w * g /\ world \div g = w
        /\ size >= 1 /\ total = size * w /\ total \div w = size
        /\ \A r \in 0..(world - 1) : r \div g \in 0..(w - 1)
        /\ \A d \in 1..w : (d - 1) * g \in 0..(world - 1) /\ ((d - 1) * g) \div g = d - 1
  <2>1. /\ g \in Nat /\ g # 0 /\ world % g = 0 /\ total % (world \div g) = 0
        /\ world \in Nat /\ world # 0 /\ total \in Nat /\ total # 0
    BY <1>1, <1>2 DEF world, total
  <2> QED BY ONLY <2>1, Shares, ZenonT(30)
<1> USE DEF world, total
<1>5. ASSUME NEW d \in 0..(w - 1) PROVE d * g \in Ranks /\ (d * g) \div g = d
  <2> DEFINE e == d + 1
  <2>1. e \in 1..w /\ e - 1 = d
    BY <1>4
  <2> HIDE DEF e
  <2>2. (e - 1) * g \in 0..(cfg.world - 1) /\ ((e - 1) * g) \div g = e - 1
    BY <1>4, <2>1
  <2> QED BY <2>1, <2>2 DEF Ranks
<1>6. \A r \in Ranks : r \div g \in 0..(w - 1)
  BY <1>4 DEF Ranks
<1>7. g >= 1
  BY <1>1
<1> QED BY <1>1, <1>3, <1>4, <1>5, <1>6, <1>7 DEF Shared

PartAt(rows, call, r, a, size) ==
  /\ a \in 0..Len(rows) /\ a + size \in a..Len(rows)
  /\ Part(rows, call, r) = SubSeq(rows, a + 1, a + size)

LEMMA PartPlace ==
  ASSUME cfg \in Settings, NEW R, NEW rows \in Seq(R), Len(rows) = NumRows, NEW call,
         NEW g \in Nat, NEW w \in Nat, NEW size \in Nat, Shared(call, g, w, size), NEW r \in Ranks
  PROVE  PartAt(rows, call, r, (r \div g) * size, size)
<1> DEFINE c == r \div g
<1>1. /\ w >= 1 /\ Group(call) = g /\ size >= 1 /\ NumRows = size * w /\ cfg.world \div g = w
      /\ c \in 0..(w - 1)
  BY DEF Shared
<1>2. Part(rows, call, r) = Chunk(rows, w, c)
  BY <1>1 DEF Part
<1> HIDE DEF c
<1>3. NumRows \div w = size
  <2>1. w # 0
    BY <1>1
  <2> QED BY <1>1, <2>1, Multiple
<1>4. Chunk(rows, w, c) = SubSeq(rows, c * size + 1, (c + 1) * size)
  BY <1>3 DEF Chunk
<1>5. /\ c * size \in Nat /\ (c + 1) * size \in Nat /\ (c + 1) * size = c * size + size
      /\ (c + 1) * size <= w * size
  BY <1>1, Growing, OneMore
<1>6. w * size = size * w
  BY <1>1
<1> DEFINE a == c * size
           b == (c + 1) * size
<1>7. a \in Nat /\ b = a + size /\ b <= Len(rows) /\ Len(rows) \in Nat
  BY <1>1, <1>5, <1>6
<1>8. Part(rows, call, r) = SubSeq(rows, a + 1, b)
  BY <1>2, <1>4
<1> HIDE DEF a, b
<1>9. a \in 0..Len(rows) /\ a + size \in a..Len(rows)
  BY <1>7
<1>10. PartAt(rows, call, r, a, size)
  BY <1>7, <1>8, <1>9 DEF PartAt
<1> QED BY <1>10 DEF a, c

(* All parts have the same size, and none is empty.                        *)
LEMMA PartsEqual ==
  ASSUME cfg \in Settings, NEW R, NEW rows \in Seq(R), Len(rows) = NumRows, NEW call
  PROVE  \E size \in Nat :
           /\ size >= 1
           /\ \A r \in Ranks : Part(rows, call, r) \in Seq(R) /\ Len(Part(rows, call, r)) = size
<1>1. PICK g \in Nat, w \in Nat, size \in Nat : Shared(call, g, w, size)
  BY SharedRows
<1>2. ASSUME NEW r \in Ranks
      PROVE  Part(rows, call, r) \in Seq(R) /\ Len(Part(rows, call, r)) = size
  <2> DEFINE a == (r \div g) * size
  <2>0. PartAt(rows, call, r, a, size)
    BY <1>1, PartPlace
  <2> HIDE DEF a
  <2>1. /\ a \in 0..Len(rows) /\ a + size \in a..Len(rows)
        /\ Part(rows, call, r) = SubSeq(rows, a + 1, a + size)
    BY <2>0 DEF PartAt
  <2>2. /\ SubSeq(rows, a + 1, a + size) \in Seq(R)
        /\ Len(SubSeq(rows, a + 1, a + size)) = (a + size) - a
    BY <2>1, PieceFacts
  <2>3. (a + size) - a = size
    BY <2>1
  <2> QED BY <2>1, <2>2, <2>3
<1>3. size >= 1
  BY <1>1 DEF Shared
<1> QED BY <1>2, <1>3

LEMMA TokensFacts ==
  ASSUME cfg \in Settings, lens \in [Rows -> Lengths[cfg]], NEW rows \in Seq(Rows)
  PROVE  /\ Tokens(rows) \in Seq(Nat) /\ Len(Tokens(rows)) = Len(rows)
         /\ \A i \in 1..Len(rows) : Tokens(rows)[i] >= 1
<1>1. ASSUME NEW i \in 1..Len(rows)
      PROVE  PromptTokens + lens[rows[i]] \in Nat /\ PromptTokens + lens[rows[i]] >= 1
  <2>1. lens[rows[i]] \in Lengths[cfg]
    OBVIOUS
  <2>2. lens[rows[i]] \in Nat
    BY <2>1, SettingFacts
  <2> QED BY <2>2, PPOAssumption
<1> DEFINE n == Len(rows)
           t == [i \in 1..n |-> PromptTokens + lens[rows[i]]]
<1>2. n \in Nat /\ DOMAIN rows = 1..n
  OBVIOUS
<1>3. Tokens(rows) = t
  BY <1>2 DEF Tokens
<1>4. t \in [1..n -> Nat] /\ \A i \in 1..n : t[i] >= 1
  BY <1>1
<1> HIDE DEF n, t
<1>5. t \in Seq(Nat) /\ Len(t) = n
  BY <1>2, <1>4
<1> QED BY <1>3, <1>4, <1>5 DEF n

(* rearrange_micro_batches has something to deal out to at least one.      *)
LEMMA RoomPositive ==
  ASSUME cfg \in Settings
  PROVE  Room \in Nat /\ Room >= 1
<1> DEFINE a == cfg.tokens
           b == cfg.sp
<1>1. a \in Nat /\ a # 0 /\ b \in Nat /\ b # 0
  BY SettingFacts
<1> HIDE DEF a, b
<1>2. a * b \in Nat /\ a * b >= 1
  BY <1>1
<1> QED BY <1>2 DEF Room, a, b

(* The number of micro-batches is the same on all ranks, as many as each   *)
(* of them needs and none of them has rows too few for.                    *)
LEMMA RanksAgree ==
  ASSUME cfg \in Settings, lens \in [Rows -> Lengths[cfg]],
         NEW size \in Nat, size >= 1, NEW held,
         \A k \in Ranks : held[k] \in Seq(Rows) /\ Len(held[k]) = size,
         NEW r \in Ranks
  PROVE  \E count \in 1..size :
           /\ MicroBatchesNeeded(Tokens(held[r]), Room) \in 1..count
           /\ Dynamic(held, r) = MicroBatches(Tokens(held[r]), count)
<1> DEFINE S == {MicroBatchesNeeded(Tokens(held[k]), Room) : k \in Ranks}
           need(k) == MicroBatchesNeeded(Tokens(held[k]), Room)
<1>1. ASSUME NEW k \in Ranks
      PROVE  need(k) \in 1..size
  <2>1. held[k] \in Seq(Rows) /\ Len(held[k]) = size
    OBVIOUS
  <2>2. /\ Tokens(held[k]) \in Seq(Nat) /\ Len(Tokens(held[k])) = size
        /\ \A i \in 1..size : Tokens(held[k])[i] >= 1
    BY <2>1, TokensFacts
  <2> QED BY <2>2, RoomPositive, NeededAtLeastOne
<1>2. S \subseteq 1..size
  BY <1>1
<1>3. need(r) \in S
  OBVIOUS
<1>4. Dynamic(held, r) = MicroBatches(Tokens(held[r]), Max(S))
  BY DEF Dynamic
<1> HIDE DEF S
<1>8. S \subseteq 0..size
  BY <1>2
<1>5. Max(S) \in S /\ \A x \in S : x <= Max(S)
  BY <1>3, <1>8, MaxOfBounded
<1>6. Max(S) \in 1..size /\ need(r) \in 1..size /\ need(r) <= Max(S)
  BY <1>2, <1>3, <1>5
<1> HIDE DEF need
<1>7. need(r) \in 1..Max(S)
  BY <1>6
<1> QED BY <1>4, <1>6, <1>7 DEF need

LEMMA DynamicLists ==
  ASSUME cfg \in Settings, lens \in [Rows -> Lengths[cfg]],
         NEW size \in Nat, size >= 1, NEW held,
         \A k \in Ranks : held[k] \in Seq(Rows) /\ Len(held[k]) = size,
         NEW r \in Ranks
  PROVE  Lists(Concatenated(Dynamic(held, r)), 1..size)
<1> DEFINE t == Tokens(held[r])
<1>1. PICK count \in 1..size : Dynamic(held, r) = MicroBatches(t, count)
  BY RanksAgree
<1>2. t \in Seq(Nat) /\ Len(t) = size
  BY TokensFacts
<1> HIDE DEF t
<1>3. Lists(Concatenated(MicroBatches(t, count)), 1..Len(t))
  BY <1>2, MicroBatchesList
<1> QED BY <1>1, <1>2, <1>3

(* A rank returns its rows in the order it got them.                       *)
LEMMA ComputedInOrder ==
  ASSUME cfg \in Settings, lens \in [Rows -> Lengths[cfg]],
         NEW size \in Nat, size >= 1, NEW held,
         \A k \in Ranks : held[k] \in Seq(Rows) /\ Len(held[k]) = size,
         NEW r \in Ranks
  PROVE  Computed(held, r) = held[r]
<1>1. held[r] \in Seq(Rows) /\ Len(held[r]) = size
  OBVIOUS
<1>2. CASE ~cfg.dynamic
  <2>1. Concatenated(Split(held[r], cfg.micro)) = held[r]
    BY <1>1, SettingFacts, SplitJoins
  <2> QED BY <1>2, <2>1 DEF Computed
<1>3. CASE cfg.dynamic
  <2> DEFINE idx == Concatenated(Dynamic(held, r))
             h == held[r]
  <2>1. Lists(idx, 1..size)
    BY DynamicLists
  <2>2. Computed(held, r) = Reordered(Reordered(h, idx), ReverseIdx(idx))
    BY <1>3 DEF Computed
  <2> HIDE DEF idx, h
  <2>3. h = [i \in 1..size |-> h[i]]
    BY <1>1, SeqIsFunction DEF h
  <2>4. Reordered(Reordered(h, idx), ReverseIdx(idx)) = h
    BY <2>1, <2>3, ReversedOrder
  <2> QED BY <2>2, <2>4 DEF h
<1> QED BY <1>2, <1>3

-----------------------------------------------------------------------------
(* The columns of the batch *)

Columns == {"log_prob", "ref", "values", "advantages"}

(* The responses are all rows, each once; every column says in every place *)
(* what belongs to the response there.                                     *)
Aligned(b) ==
  /\ "prompt" \in DOMAIN b /\ "response" \in DOMAIN b
  /\ Lists(b["response"], Rows)
  /\ \A i \in 1..NumRows : b["prompt"][i] = b["response"][i][1]
  /\ \A key \in DOMAIN b \cap Columns : b[key] = b["response"]

Afterwards == {"balance", "log_prob", "ref", "reward", "values", "update",
                   "stop_profile", "failed"}

BatchInv ==
  /\ cfg \in Settings
  /\ pc \in {"start_profile", "generate", "done"} \cup Afterwards
  /\ pc \in {"start_profile", "done"} => batch = << >>
  /\ pc \notin {"start_profile", "done"} => lens \in [Rows -> Lengths[cfg]]
  /\ pc = "generate" => batch = [prompt |-> AllPrompts(cfg.prompts, cfg.n)]
  /\ pc = "balance" => cfg.balance
  /\ pc \in Afterwards => Aligned(batch)

(* A rank that has returned has returned its part of the column.           *)
Answers(rows, call) == \A r \in Ranks : out[r] = Pending \/ out[r] = Part(rows, call, r)
OutInv ==
  /\ out = [r \in Ranks |-> out[r]]
  /\ pc \notin {"generate", "log_prob", "ref", "values", "update"} => out = NoneOut
  /\ pc = "generate" => Answers(Copies(batch["prompt"]), pc)
  /\ pc \in {"log_prob", "ref", "values"} => Answers(batch["response"], pc)

LEMMA AlignedFacts ==
  ASSUME cfg \in Settings, NEW b, Aligned(b)
  PROVE  /\ b["response"] \in Seq(Rows) /\ Len(b["response"]) = NumRows /\ NumRows \in Nat
         /\ Lists(b["response"], Rows)
         /\ DOMAIN b["response"] = 1..NumRows
<1>1. Lists(b["response"], Rows)
  BY DEF Aligned
<1>2. Len(b["response"]) = NumRows
  BY <1>1, RowsCounted
<1> QED BY <1>1, <1>2, ListsFacts, SettingFacts

LEMMA GeneratedPart ==
  ASSUME BatchInv, OutInv, NEW r \in Ranks, Generate(r)
  PROVE  BatchInv' /\ OutInv'
<1>1. /\ pc = "generate" /\ UNCHANGED <<cfg, pc, lens, batch>>
      /\ out' = [out EXCEPT ![r] = Part(Copies(batch["prompt"]), "generate", r)]
  BY DEF Generate, Copies
<1>2. BatchInv'
  BY <1>1 DEF BatchInv, Aligned, Rows, NumRows
<1>3. Ranks' = Ranks
  BY <1>1 DEF Ranks
<1>4. out' = [k \in Ranks |-> out'[k]]
  BY <1>1 DEF OutInv
<1>5. ASSUME NEW k \in Ranks
      PROVE  out'[k] = Pending \/ out'[k] = Part(Copies(batch["prompt"]), "generate", k)
  BY <1>1 DEF OutInv, Answers
<1>6. Answers(Copies(batch["prompt"]), "generate")'
  BY <1>1, <1>3, <1>5 DEF Answers, Part, Group, Pending
<1> QED BY <1>1, <1>2, <1>3, <1>4, <1>6 DEF OutInv

LEMMA ForwardPart ==
  ASSUME BatchInv, OutInv, NEW r \in Ranks, Forward(r)
  PROVE  BatchInv' /\ OutInv'
<1> DEFINE held == [k \in Ranks |-> Part(batch["response"], pc, k)]
<1>1. /\ pc \in {"log_prob", "ref", "values"} /\ UNCHANGED <<cfg, pc, lens, batch>>
      /\ out' = [out EXCEPT ![r] = Computed(held, r)]
  BY DEF Forward
<1>2. BatchInv'
  BY <1>1 DEF BatchInv, Aligned, Rows, NumRows
<1>3. Ranks' = Ranks
  BY <1>1 DEF Ranks
<1>4. cfg \in Settings /\ Aligned(batch) /\ lens \in [Rows -> Lengths[cfg]]
  BY <1>1 DEF BatchInv, Afterwards
<1>5. batch["response"] \in Seq(Rows) /\ Len(batch["response"]) = NumRows
  BY <1>4, AlignedFacts
<1>6. PICK size \in Nat :
        /\ size >= 1
        /\ \A k \in Ranks : /\ Part(batch["response"], pc, k) \in Seq(Rows)
                            /\ Len(Part(batch["response"], pc, k)) = size
  BY <1>4, <1>5, PartsEqual
<1>7. \A k \in Ranks : held[k] \in Seq(Rows) /\ Len(held[k]) = size
  BY <1>6
<1>8. held[r] = Part(batch["response"], pc, r)
  OBVIOUS
<1> HIDE DEF held
<1>9. Computed(held, r) = held[r]
  BY <1>4, <1>6, <1>7, ComputedInOrder
<1>10. out' = [k \in Ranks |-> out'[k]]
  BY <1>1 DEF OutInv
<1>11. ASSUME NEW k \in Ranks
       PROVE  out'[k] = Pending \/ out'[k] = Part(batch["response"], pc, k)
  BY <1>1, <1>8, <1>9 DEF OutInv, Answers
<1>12. Answers(batch["response"], pc)'
  BY <1>1, <1>3, <1>11 DEF Answers, Part, Group, Pending
<1> QED BY <1>1, <1>2, <1>3, <1>10, <1>12 DEF OutInv

LEMMA UpdatePart ==
  ASSUME BatchInv, OutInv, NEW r \in Ranks, Update(r)
  PROVE  BatchInv' /\ OutInv'
<1>1. /\ pc = "update" /\ UNCHANGED <<cfg, pc, lens, batch>>
      /\ out' = [out EXCEPT ![r] = <<"metrics">>]
  BY DEF Update
<1>2. BatchInv'
  BY <1>1 DEF BatchInv, Aligned, Rows, NumRows
<1>3. Ranks' = Ranks
  BY <1>1 DEF Ranks
<1>4. out' = [k \in Ranks |-> out'[k]]
  BY <1>1 DEF OutInv
<1> QED BY <1>1, <1>2, <1>3, <1>4 DEF OutInv

LEMMA FetchedPrompts ==
  ASSUME BatchInv, OutInv, Fetch
  PROVE  BatchInv' /\ OutInv'
<1>1. /\ pc = "start_profile" /\ pc' = "generate" /\ UNCHANGED <<cfg, out>>
      /\ lens' \in [Rows -> Lengths[cfg]]
      /\ batch' = [prompt |-> AllPrompts(cfg.prompts, cfg.n)]
  BY DEF Fetch, AllPrompts
<1>2. BatchInv'
  BY <1>1 DEF BatchInv, Rows, Afterwards
<1>3. Ranks' = Ranks /\ out = NoneOut
  BY <1>1 DEF Ranks, OutInv
<1>4. \A k \in Ranks : out'[k] = Pending
  BY <1>1, <1>3 DEF NoneOut
<1>5. Answers(Copies(batch["prompt"]), "generate")'
  BY <1>1, <1>3, <1>4 DEF Answers, Pending
<1>6. out' = [k \in Ranks |-> out'[k]]
  BY <1>1 DEF OutInv
<1> QED BY <1>1, <1>2, <1>3, <1>5, <1>6 DEF OutInv

(* No call is in progress where the driver goes next, or none has answered. *)
LEMMA NoneOutYet ==
  ASSUME UNCHANGED cfg, out' = NoneOut
  PROVE  OutInv'
<1>1. Ranks' = Ranks /\ out' = NoneOut' /\ \A k \in Ranks : out'[k] = Pending
  BY DEF Ranks, NoneOut, Pending
<1>2. out' = [k \in Ranks |-> out'[k]]
  BY DEF NoneOut
<1>3. Answers(Copies(batch["prompt"]), pc)' /\ Answers(batch["response"], pc)'
  BY <1>1 DEF Answers, Pending
<1> QED BY <1>1, <1>2, <1>3 DEF OutInv

LEMMA GeneratedColumn ==
  ASSUME BatchInv, OutInv, UnionGenerated
  PROVE  BatchInv' /\ OutInv'
<1> DEFINE column == AllPrompts(cfg.prompts, cfg.n)
           copies == Copies(column)
<1>1. /\ pc = "generate" /\ UNCHANGED <<cfg, lens>> /\ out' = NoneOut
      /\ \A r \in Ranks : out[r] # Pending
      /\ batch' = [prompt |-> column, response |-> Collected("generate")]
      /\ pc' = IF cfg.balance THEN "balance" ELSE "log_prob"
  BY DEF UnionGenerated, AllPrompts, Returned
<1>2. cfg \in Settings /\ batch["prompt"] = column /\ lens \in [Rows -> Lengths[cfg]]
  BY <1>1 DEF BatchInv
<1>3. \A r \in Ranks : out[r] = Part(copies, "generate", r)
  BY <1>1, <1>2 DEF OutInv, Answers
<1>4. cfg.prompts \in Nat /\ cfg.n \in Nat /\ cfg.n # 0
  BY <1>2, SettingFacts
<1>5. /\ Lists(copies, Rows) /\ Len(copies) = NumRows
      /\ \A i \in 1..NumRows : copies[i][1] = column[i]
  BY <1>4, CopiesList DEF Rows, NumRows
<1> HIDE DEF copies, column
<1>6. copies \in Seq(Rows)
  BY <1>5, ListsFacts
<1>7. Collected("generate") = copies
  BY <1>2, <1>3, <1>5, <1>6, CollectedParts
<1>8. /\ DOMAIN batch' = {"prompt", "response"}
      /\ batch'["prompt"] = column /\ batch'["response"] = copies
  BY <1>1, <1>7
<1>9. Rows' = Rows /\ NumRows' = NumRows
  BY <1>1 DEF Rows, NumRows
<1>10. Aligned(batch)'
  BY <1>5, <1>8, <1>9 DEF Aligned, Columns
<1>11. BatchInv'
  BY <1>1, <1>2, <1>9, <1>10 DEF BatchInv, Afterwards
<1> QED BY <1>1, <1>11, NoneOutYet

(* Balanced rows are the same rows, in another order in every column.      *)
LEMMA AlignedReordered ==
  ASSUME cfg \in Settings, NEW b, Aligned(b), NEW idx, Lists(idx, 1..NumRows)
  PROVE  Aligned([key \in DOMAIN b |-> Reordered(b[key], idx)])
<1> DEFINE a == [key \in DOMAIN b |-> Reordered(b[key], idx)]
           response == b["response"]
<1>1. /\ response \in Seq(Rows) /\ Len(response) = NumRows /\ NumRows \in Nat
      /\ Lists(response, Rows)
  BY AlignedFacts
<1>2. Lists(Reordered(response, idx), Rows)
  BY <1>1, ListsReordered
<1>3. /\ DOMAIN a = DOMAIN b /\ "prompt" \in DOMAIN a /\ "response" \in DOMAIN a
      /\ \A key \in DOMAIN b : a[key] = Reordered(b[key], idx)
  BY DEF Aligned
<1>4. Len(idx) = NumRows
  BY <1>1, ListsLength
<1>5. DOMAIN idx = 1..NumRows /\ \A i \in 1..NumRows : idx[i] \in 1..NumRows
  BY <1>4, ListsFacts
<1>6. ASSUME NEW i \in 1..NumRows
      PROVE  a["prompt"][i] = a["response"][i][1]
  <2>1. a["prompt"] = Reordered(b["prompt"], idx) /\ a["response"] = Reordered(response, idx)
    BY <1>3
  <2>2. a["prompt"][i] = b["prompt"][idx[i]] /\ a["response"][i] = response[idx[i]]
    BY <1>5, <2>1 DEF Reordered
  <2>3. b["prompt"][idx[i]] = response[idx[i]][1]
    BY <1>5 DEF Aligned
  <2> QED BY <2>2, <2>3
<1>7. \A key \in DOMAIN a \cap Columns : a[key] = a["response"]
  BY <1>3 DEF Aligned
<1> HIDE DEF a
<1>8. Lists(a["response"], Rows)
  BY <1>2, <1>3
<1>9. Aligned(a)
  BY <1>3, <1>6, <1>7, <1>8 DEF Aligned
<1> QED BY <1>9 DEF a

LEMMA BalancedColumns ==
  ASSUME BatchInv, OutInv, Balance
  PROVE  BatchInv' /\ OutInv'
<1> DEFINE tokens == Tokens(batch["response"])
           idx == Concatenated(Partitions(tokens, cfg.world, TRUE))
<1>1. /\ pc = "balance" /\ UNCHANGED <<cfg, lens, out>> /\ pc' = "log_prob"
      /\ batch' = [key \in DOMAIN batch |-> Reordered(batch[key], idx)]
  BY DEF Balance
<1>2. /\ cfg \in Settings /\ Aligned(batch) /\ lens \in [Rows -> Lengths[cfg]]
      /\ cfg.balance /\ out = NoneOut
  BY <1>1 DEF BatchInv, Afterwards, OutInv
<1>3. batch["response"] \in Seq(Rows) /\ Len(batch["response"]) = NumRows
  BY <1>2, AlignedFacts
<1>4. tokens \in Seq(Nat) /\ Len(tokens) = NumRows
  BY <1>2, <1>3, TokensFacts
<1>5. /\ cfg.world \in Nat /\ cfg.world # 0 /\ NumRows \in Nat /\ NumRows # 0
      /\ NumRows % cfg.world = 0
  BY <1>2, SettingFacts
<1> DEFINE k == cfg.world
           n == NumRows \div k
<1>6. n \in Nat /\ n * k \in Nat /\ NumRows = n * k + (NumRows % k)
  BY <1>5, Division
<1>7. k \in Nat /\ k # 0 /\ NumRows = n * k
  BY <1>5, <1>6
<1> HIDE DEF n, k, tokens
<1>8. n >= 1 /\ k >= 1
  BY <1>5, <1>6, <1>7
<1>9. Lists(Concatenated(Partitions(tokens, k, TRUE)), 1..Len(tokens))
  BY <1>4, <1>6, <1>7, <1>8, PartitionsList
<1>10. Lists(idx, 1..NumRows)
  BY <1>4, <1>9 DEF k
<1> HIDE DEF idx
<1>11. Aligned(batch')
  BY <1>1, <1>2, <1>10, AlignedReordered
<1>12. Rows' = Rows /\ NumRows' = NumRows
  BY <1>1 DEF Rows, NumRows
<1>13. Aligned(batch)'
  BY <1>11, <1>12 DEF Aligned, Columns
<1>14. BatchInv'
  BY <1>1, <1>2, <1>12, <1>13 DEF BatchInv, Afterwards
<1> QED BY <1>1, <1>2, <1>14, NoneOutYet

(* A column that equals the responses, beside the others.                  *)
LEMMA AlignedExtended ==
  ASSUME NEW b, Aligned(b), NEW keys, keys \subseteq Columns \cup {"judged_by"}, NEW c,
         DOMAIN c = DOMAIN b \cup keys,
         \A key \in DOMAIN b \ keys : c[key] = b[key],
         \A key \in keys \cap Columns : c[key] = b["response"]
  PROVE  Aligned(c)
<1>1. c["prompt"] = b["prompt"] /\ c["response"] = b["response"]
  BY DEF Aligned, Columns
<1>2. \A key \in DOMAIN c \cap Columns : c[key] = c["response"]
  BY <1>1 DEF Aligned
<1> QED BY <1>1, <1>2 DEF Aligned

LEMMA ComputedColumn ==
  ASSUME BatchInv, OutInv, UnionComputed
  PROVE  BatchInv' /\ OutInv'
<1> DEFINE response == batch["response"]
<1>1. /\ pc \in {"log_prob", "ref", "values"} /\ UNCHANGED <<cfg, lens>> /\ out' = NoneOut
      /\ \A r \in Ranks : out[r] # Pending
      /\ batch' = [key \in DOMAIN batch \cup {pc} |->
                     IF key = pc THEN Collected(pc) ELSE batch[key]]
      /\ pc' = AfterCall(pc)
  BY DEF UnionComputed, Returned
<1>2. cfg \in Settings /\ Aligned(batch) /\ lens \in [Rows -> Lengths[cfg]]
  BY <1>1 DEF BatchInv, Afterwards
<1>3. response \in Seq(Rows) /\ Len(response) = NumRows
  BY <1>2, AlignedFacts
<1>4. \A r \in Ranks : out[r] = Part(response, pc, r)
  BY <1>1 DEF OutInv, Answers
<1>5. Collected(pc) = response
  BY <1>2, <1>3, <1>4, CollectedParts
<1>6. /\ DOMAIN batch' = DOMAIN batch \cup {pc} /\ {pc} \subseteq Columns \cup {"judged_by"}
      /\ \A key \in DOMAIN batch \ {pc} : batch'[key] = batch[key]
      /\ \A key \in {pc} \cap Columns : batch'[key] = batch["response"]
  BY <1>1, <1>5 DEF Columns
<1>7. Aligned(batch')
  BY <1>2, <1>6, AlignedExtended
<1>8. Rows' = Rows /\ NumRows' = NumRows
  BY <1>1 DEF Rows, NumRows
<1>9. Aligned(batch)'
  BY <1>7, <1>8 DEF Aligned, Columns
<1>10. BatchInv'
  BY <1>1, <1>2, <1>8, <1>9, AfterCallStays DEF BatchInv, Afterwards
<1> QED BY <1>1, <1>10, NoneOutYet

LEMMA JudgedColumn ==
  ASSUME BatchInv, OutInv, Judge
  PROVE  BatchInv' /\ OutInv'
<1> DEFINE keys == {"advantages", "judged_by"}
<1>1. /\ pc = "reward" /\ UNCHANGED <<cfg, lens, out>> /\ pc' = AfterCall(pc)
      /\ batch' = [key \in DOMAIN batch \cup keys |->
                     CASE key = "advantages" -> batch["response"]
                       [] key = "judged_by"  -> truth
                       [] OTHER -> batch[key]]
  BY DEF Judge
<1>2. /\ cfg \in Settings /\ Aligned(batch) /\ lens \in [Rows -> Lengths[cfg]]
      /\ out = NoneOut
  BY <1>1 DEF BatchInv, Afterwards, OutInv
<1>3. /\ DOMAIN batch' = DOMAIN batch \cup keys /\ keys \subseteq Columns \cup {"judged_by"}
      /\ \A key \in DOMAIN batch \ keys : batch'[key] = batch[key]
      /\ \A key \in keys \cap Columns : batch'[key] = batch["response"]
  BY <1>1 DEF Columns
<1>4. Aligned(batch')
  BY <1>2, <1>3, AlignedExtended
<1>5. Rows' = Rows /\ NumRows' = NumRows
  BY <1>1 DEF Rows, NumRows
<1>6. Aligned(batch)'
  BY <1>4, <1>5 DEF Aligned, Columns
<1>7. BatchInv'
  BY <1>1, <1>2, <1>5, <1>6, AfterCallStays DEF BatchInv, Afterwards
<1> QED BY <1>1, <1>2, <1>7, NoneOutYet

LEMMA SameColumns ==
  ASSUME BatchInv, OutInv, AfterUpdate \/ Segment \/ RewardRetried \/ UNCHANGED vars
  PROVE  BatchInv' /\ OutInv'
<1>1. /\ UNCHANGED <<cfg, lens, batch>>
      /\ UNCHANGED pc \/ {pc, pc'} \subseteq Afterwards \ {"balance"}
      /\ UNCHANGED <<pc, out>> \/ out' = NoneOut
  <2>1. CASE AfterUpdate
    BY <2>1, AfterCallStays DEF AfterUpdate, Afterwards
  <2>2. CASE Segment \/ RewardRetried
    BY <2>2 DEF Segment, RewardRetried, Afterwards, OutInv
  <2>3. CASE UNCHANGED vars
    BY <2>3 DEF vars
  <2> QED BY <2>1, <2>2, <2>3
<1>2. Rows' = Rows /\ NumRows' = NumRows
  BY <1>1 DEF Rows, NumRows
<1>3. BatchInv'
  BY <1>1, <1>2 DEF BatchInv, Afterwards, Aligned, Columns
<1>4. OutInv'
  <2>1. CASE out' = NoneOut
    BY <1>1, <2>1, NoneOutYet
  <2>2. CASE UNCHANGED <<pc, out>>
    BY <1>1, <2>2 DEF OutInv, Answers, Ranks, NoneOut, Pending, Part, Group
  <2> QED BY <1>1, <2>1, <2>2
<1> QED BY <1>3, <1>4

LEMMA NoColumns ==
  ASSUME BatchInv, OutInv, StopProfile
  PROVE  BatchInv' /\ OutInv'
<1>1. /\ pc = "stop_profile" /\ pc' \in {"start_profile", "done"} /\ UNCHANGED <<cfg, out>>
      /\ batch' = << >>
  BY DEF StopProfile
<1>2. out = NoneOut
  BY <1>1 DEF OutInv
<1>3. BatchInv'
  BY <1>1 DEF BatchInv, Afterwards
<1> QED BY <1>1, <1>2, <1>3, NoneOutYet

LEMMA ColumnsInit == Init => BatchInv /\ OutInv
BY DEF Init, BatchInv, OutInv, Afterwards, NoneOut

LEMMA ColumnsStep ==
  ASSUME BatchInv, OutInv, [Next]_vars
  PROVE  BatchInv' /\ OutInv'
BY FetchedPrompts, GeneratedPart, ForwardPart, UpdatePart, GeneratedColumn, BalancedColumns,
   ComputedColumn, JudgedColumn, SameColumns, NoColumns
DEF Next, DriverStep, RankStep, Terminated

(* Every column of the batch has in every row what belongs to the response *)
(* there, and all responses are in it: for every number of prompts and of  *)
(* responses to one, any groups of ranks that divide them, any order the   *)
(* balancing takes and any micro-batches.                                  *)
THEOREM ColumnsAligned == Spec => []AlignedColumns
<1>1. BatchInv => AlignedColumns
  <2> SUFFICES ASSUME BatchInv, "response" \in DOMAIN batch
               PROVE  /\ Len(batch["response"]) = Cardinality(Rows)
                      /\ ToSet(batch["response"]) = Rows
                      /\ \A i \in DOMAIN batch["response"] :
                           batch["prompt"][i] = batch["response"][i][1]
                      /\ \A key \in DOMAIN batch \cap Columns : batch[key] = batch["response"]
    BY DEF AlignedColumns, Columns
  <2>1. cfg \in Settings /\ Aligned(batch)
    BY DEF BatchInv, Afterwards
  <2> DEFINE s == batch["response"]
  <2>2. /\ s \in Seq(Rows) /\ Len(s) = NumRows /\ Lists(s, Rows) /\ DOMAIN s = 1..NumRows
    BY <2>1, AlignedFacts
  <2>3. Cardinality(Rows) = Len(s)
    BY <2>2, ListsCardinality
  <2>4. ToSet(s) = Rows
    BY <2>2 DEF Lists, Covers, ToSet
  <2>5. \A i \in DOMAIN s : batch["prompt"][i] = s[i][1]
    BY <2>1, <2>2 DEF Aligned
  <2>6. \A key \in DOMAIN batch \cap Columns : batch[key] = s
    BY <2>1 DEF Aligned
  <2> QED BY <2>3, <2>4, <2>5, <2>6
<1> QED BY <1>1, ColumnsInit, ColumnsStep, PTL DEF Spec

-----------------------------------------------------------------------------
(* The segments of a response *)

LEMMA KeptAnchors ==
  ASSUME NEW n \in Nat, NEW anchors \in Anchors(n)
  PROVE  Kept(anchors) \in Seq(0..(n - 1))
<1> DEFINE R == 0..(n - 1)
           m == MaxBranches - 1
           Far(i) == {j \in (i + 1)..Len(anchors) : anchors[j] - anchors[i] > MinGap}
           Nearest(i) == CHOOSE j \in Far(i) : \A k \in Far(i) : j <= k
           Of(i) == CASE i + 1 \in Far(i) -> <<anchors[i]>>
                      [] i + 1 \notin Far(i) /\ Far(i) # {} -> <<anchors[Nearest(i)]>>
                      [] OTHER -> << >>
           parts == [i \in 1..m |-> Of(i)]
<1>1. /\ anchors \in [1..MaxBranches -> R] /\ MaxBranches \in Nat /\ MaxBranches # 0
      /\ MinGap \in Nat
  BY BranchAssumption DEF Anchors
<1>2. Len(anchors) = MaxBranches /\ m \in Nat
  BY <1>1
<1>3. Kept(anchors) = Concatenated(parts)
  BY <1>2 DEF Kept, Concatenated
<1>4. ASSUME NEW i \in 1..m
      PROVE  Of(i) \in Seq(R)
  <2>1. i \in 1..MaxBranches /\ anchors[i] \in R
    BY <1>1
  <2>2. \A j \in Far(i) : j \in Nat /\ anchors[j] \in R
    BY <1>1, <1>2, <2>1
  <2>3. Far(i) # {} => Nearest(i) \in Far(i)
    <3> SUFFICES ASSUME Far(i) # {} PROVE Nearest(i) \in Far(i)
      OBVIOUS
    <3> DEFINE F == Far(i)
    <3>1. F \subseteq Nat /\ F # {}
      BY <2>2
    <3> HIDE DEF F, Far
    <3>2. PICK j \in F : \A k \in F : ~(k < j)
      BY <3>1, LeastNumber
    <3>3. \A k \in F : j <= k
      BY <3>1, <3>2
    <3>4. \E j_1 \in F : \A k \in F : j_1 <= k
      BY <3>3
    <3> QED BY <3>4 DEF F
  <2> HIDE DEF Far, Nearest
  <2>4. CASE i + 1 \in Far(i)
    <3>1. Of(i) = <<anchors[i]>>
      BY <2>4
    <3> DEFINE a == anchors[i]
    <3>2. a \in R
      BY <2>1
    <3> HIDE DEF a, R
    <3>3. <<a>> \in Seq(R)
      BY ONLY <3>2
    <3> QED BY <3>1, <3>3 DEF a
  <2>5. CASE i + 1 \notin Far(i) /\ Far(i) # {}
    BY <2>2, <2>3, <2>5
  <2>6. CASE Far(i) = {}
    BY <2>6
  <2> QED BY <2>4, <2>5, <2>6
<1> HIDE DEF Of, R
<1>5. parts \in [1..m -> Seq(R)]
  BY <1>4
<1> HIDE DEF parts, m
<1>6. PICK h : Joins(h, parts, m) /\ Concatenated(parts) = h[m]
  BY <1>2, <1>5, FlattenWalk
<1> DEFINE D == [k \in 0..m |-> Seq(R)]
<1>7. \A k \in 0..m : D[k] = Seq(R)
  OBVIOUS
<1> HIDE DEF D
<1>11. h[0] = << >> /\ \A k \in 1..m : h[k] = h[k - 1] \o parts[k]
  BY <1>6 DEF Joins
<1>8. h[0] \in D[0]
  <2>1. 0 \in 0..m
    BY <1>2
  <2>2. << >> \in Seq(R)
    OBVIOUS
  <2> QED BY ONLY <1>7, <1>11, <2>1, <2>2
<1>9. ASSUME NEW k \in 1..m, h[k - 1] \in D[k - 1]
      PROVE  h[k] \in D[k]
  <2>0. k - 1 \in 0..m
    BY <1>2
  <2>1. h[k - 1] \in Seq(R) /\ parts[k] \in Seq(R) /\ h[k] = h[k - 1] \o parts[k]
    BY ONLY <1>5, <1>7, <1>9, <1>11, <2>0
  <2>2. h[k] \in Seq(R)
    BY <2>1, ConcatProperties
  <2> QED BY <1>2, <1>7, <2>2
<1>10. h[m] \in D[m]
  <2>1. \A k \in 0..m : h[k] \in D[k]
    BY <1>2, <1>8, <1>9, Stays
  <2> QED BY <1>2, <2>1
<1> QED BY <1>2, <1>3, <1>6, <1>7, <1>10 DEF R

(* Cuts are at least MinGap apart, and the first is as far from the start. *)
Spaced(c, n) ==
  /\ c \in Seq(0..(n - 1))
  /\ c # << >> => c[1] >= MinGap
  /\ \A i \in 1..(Len(c) - 1) : c[i + 1] - c[i] >= MinGap

LEMMA SpacedNext ==
  ASSUME NEW n \in Nat, NEW c, Spaced(c, n), NEW a \in 0..(n - 1)
  PROVE  Spaced(NextCut(c, a), n)
<1> DEFINE b == IF c = << >> THEN 0 ELSE c[Len(c)]
           d == Append(c, a)
           l == Len(c)
<1>1. c \in Seq(0..(n - 1)) /\ l \in Nat /\ MinGap \in Nat
  BY BranchAssumption DEF Spaced
<1>2. NextCut(c, a) = IF a - b >= MinGap THEN d ELSE c
  BY DEF NextCut, Last
<1>3. CASE a - b >= MinGap
  <2>1. /\ d \in Seq(0..(n - 1)) /\ Len(d) = l + 1 /\ d[l + 1] = a /\ d # << >>
        /\ \A i \in 1..l : d[i] = c[i]
    BY <1>1
  <2>2. d[1] >= MinGap
    <3>1. CASE c = << >>
      BY <1>3, <2>1, <3>1
    <3>2. CASE c # << >>
      BY <1>1, <2>1, <3>2 DEF Spaced
    <3> QED BY <3>1, <3>2
  <2>3. ASSUME NEW i \in 1..l
        PROVE  d[i + 1] - d[i] >= MinGap
    <3>1. CASE i = l
      BY <1>1, <1>3, <2>1, <3>1
    <3>2. CASE i # l
      BY <1>1, <2>1, <3>2 DEF Spaced
    <3> QED BY <3>1, <3>2
  <2> HIDE DEF d, b
  <2>4. Spaced(d, n)
    BY <1>1, <2>1, <2>2, <2>3 DEF Spaced
  <2> QED BY <1>2, <1>3, <2>4
<1>4. CASE ~(a - b >= MinGap)
  BY <1>2, <1>4
<1> QED BY <1>3, <1>4

LEMMA CutsSpaced ==
  ASSUME NEW n \in Nat, NEW anchors \in Seq(0..(n - 1))
  PROVE  Spaced(Cuts(anchors), n)
<1> DEFINE l == Len(anchors)
           T == {c \in Seq(0..(n - 1)) : Spaced(c, n)}
           D == [i \in 0..l |-> T]
           S == [i \in 1..l |-> [c \in T |-> NextCut(c, anchors[i])]]
           cuts[i \in 0..l] == IF i = 0 THEN << >> ELSE NextCut(cuts[i - 1], anchors[i])
<1>1. l \in Nat /\ \A i \in 1..l : anchors[i] \in 0..(n - 1)
  OBVIOUS
<1>2. \A c : c \in T <=> Spaced(c, n)
  BY DEF Spaced
<1>3. << >> \in T
  BY DEF Spaced
<1> HIDE DEF T
<1>4. \A i \in 0..l : D[i] = T
  OBVIOUS
<1>5. ASSUME NEW i \in 1..l
      PROVE  S[i] \in [D[i - 1] -> D[i]] /\ \A c \in T : S[i][c] = NextCut(c, anchors[i])
  <2>1. S[i] = [c \in T |-> NextCut(c, anchors[i])]
    OBVIOUS
  <2>2. i - 1 \in 0..l /\ i \in 0..l
    BY <1>1
  <2>3. \A c \in T : NextCut(c, anchors[i]) \in T
    BY <1>1, <1>2, SpacedNext
  <2> HIDE DEF S, D
  <2> QED BY <1>4, <2>1, <2>2, <2>3
<1> HIDE DEF D, S
<1>6. << >> \in D[0]
  BY <1>1, <1>3, <1>4
<1>7. PICK f : /\ f = [i \in 0..l |-> f[i]]
              /\ Walk(f, S, << >>, l)
              /\ \A i \in 0..l : f[i] \in D[i]
  BY <1>1, <1>5, <1>6, WalkTaken
<1>8. f = [i \in 0..l |-> IF i = 0 THEN << >> ELSE NextCut(f[i - 1], anchors[i])]
  <2>1. ASSUME NEW i \in 0..l
        PROVE  f[i] = IF i = 0 THEN << >> ELSE NextCut(f[i - 1], anchors[i])
    <3>1. CASE i = 0
      BY <1>7, <3>1 DEF Walk
    <3>2. CASE i # 0
      <4>1. i \in 1..l /\ i - 1 \in 0..l
        BY <1>1, <3>2
      <4>2. f[i] = S[i][f[i - 1]] /\ f[i - 1] \in T
        BY <1>4, <1>7, <4>1 DEF Walk
      <4> QED BY <1>5, <3>2, <4>1, <4>2
    <3> QED BY <3>1, <3>2
  <2> QED BY <1>7, <2>1, Zenon
<1>9. cuts = [i \in 0..l |-> IF i = 0 THEN << >> ELSE NextCut(cuts[i - 1], anchors[i])]
  BY <1>8, Zenon
<1>10. Cuts(anchors) = cuts[l]
  BY Zenon DEF Cuts
<1> HIDE DEF cuts
<1>11. cuts[0] = << >> /\ \A i \in 1..l : cuts[i] = NextCut(cuts[i - 1], anchors[i])
  <2> DEFINE g == [i \in 0..l |-> IF i = 0 THEN << >> ELSE NextCut(cuts[i - 1], anchors[i])]
  <2>1. g[0] = << >> /\ \A i \in 1..l : g[i] = NextCut(cuts[i - 1], anchors[i])
    BY <1>1
  <2> HIDE DEF g
  <2> QED BY <1>9, <2>1, Zenon DEF g
<1>12. ASSUME NEW i \in 1..l, cuts[i - 1] \in D[i - 1]
      PROVE  cuts[i] \in D[i]
  <2>1. i - 1 \in 0..l /\ i \in 0..l
    BY <1>1
  <2> QED BY <1>4, <1>5, <1>11, <1>12, <2>1
<1>13. \A i \in 0..l : cuts[i] \in D[i]
  BY <1>1, <1>6, <1>11, <1>12, Stays
<1>14. cuts[l] \in T
  BY <1>1, <1>4, <1>13
<1> QED BY <1>2, <1>10, <1>14

(* Segments one after the other from 0 to m, none of them empty, and all   *)
(* but perhaps the last of some length.                                    *)
Chain(d, m) ==
  /\ d \in Seq(Nat \X Nat)
  /\ End(d) = m
  /\ d # << >> => d[1][1] = 0
  /\ \A k \in 1..Len(d) : d[k][1] < d[k][2]
  /\ \A k \in 1..(Len(d) - 1) : d[k][2] = d[k + 1][1] /\ d[k][2] - d[k][1] >= MinGap
Long(d) == \A k \in 1..Len(d) : d[k][2] - d[k][1] >= MinGap

LEMMA ChainFilled ==
  ASSUME NEW a \in Nat, NEW b \in Nat, a <= b, NEW d, Chain(d, a), Long(d)
  PROVE  /\ Chain(Fill(d, <<a, b>>), b)
         /\ b - a >= MinGap => Long(Fill(d, <<a, b>>))
         /\ a < b => Fill(d, <<a, b>>) # << >>
<1> DEFINE seg == <<a, b>>
           e == Append(d, seg)
           l == Len(d)
<1>1. seg[1] = a /\ seg[2] = b /\ seg \in Nat \X Nat
  OBVIOUS
<1>2. d \in Seq(Nat \X Nat) /\ End(d) = a /\ l \in Nat
  BY DEF Chain
<1> HIDE DEF seg
<1>3. CASE a = b
  <2>1. Fill(d, seg) = d
    BY <1>1, <1>3 DEF Fill
  <2> QED BY <1>3, <2>1 DEF seg
<1>4. CASE a # b
  <2>1. a < b
    BY <1>4
  <2>2. Fill(d, seg) = e
    BY <1>1, <1>2, <2>1 DEF Fill
  <2>3. /\ e \in Seq(Nat \X Nat) /\ Len(e) = l + 1 /\ e[l + 1] = seg /\ e # << >>
        /\ \A k \in 1..l : e[k] = d[k]
    <3> DEFINE P == Nat \X Nat
    <3>1. d \in Seq(P) /\ seg \in P
      BY <1>1, <1>2
    <3> HIDE DEF P
    <3>2. /\ e \in Seq(P) /\ Len(e) = l + 1 /\ e[l + 1] = seg
          /\ \A k \in 1..l : e[k] = d[k]
      BY ONLY <3>1
    <3>3. e # << >>
      BY <1>2, <3>2
    <3> QED BY <3>2, <3>3 DEF P
  <2> HIDE DEF e
  <2>4. End(e) = b
    BY <1>1, <2>3 DEF End, Last
  <2>5. l > 0 => d[l][2] = a
    BY <1>2 DEF End, Last
  <2>6. e[1][1] = 0
    <3>1. CASE l = 0
      <4>1. d = << >>
        BY <1>2, <3>1
      <4>2. a = 0
        BY <1>2, <4>1 DEF End
      <4> QED BY <1>1, <2>3, <3>1, <4>2
    <3>2. CASE l # 0
      <4>1. d # << >> /\ 1 \in 1..l
        BY <1>2, <3>2
      <4> QED BY <2>3, <4>1 DEF Chain
    <3> QED BY <3>1, <3>2
  <2>7. ASSUME NEW k \in 1..(l + 1)
        PROVE  /\ e[k][1] < e[k][2]
               /\ b - a >= MinGap => e[k][2] - e[k][1] >= MinGap
    <3>1. CASE k = l + 1
      BY <1>1, <2>1, <2>3, <3>1
    <3>2. CASE k # l + 1
      <4>1. k \in 1..l
        BY <1>2, <3>2
      <4> QED BY <2>3, <4>1 DEF Chain, Long
    <3> QED BY <3>1, <3>2
  <2>8. ASSUME NEW k \in 1..l
        PROVE  e[k][2] = e[k + 1][1] /\ e[k][2] - e[k][1] >= MinGap
    <3>1. e[k] = d[k] /\ d[k][2] - d[k][1] >= MinGap
      BY <2>3 DEF Long
    <3>2. CASE k = l
      BY <1>1, <1>2, <2>3, <2>5, <3>1, <3>2
    <3>3. CASE k # l
      <4>1. k \in 1..(l - 1) /\ k + 1 \in 1..l
        BY <1>2, <3>3
      <4>2. d[k][2] = d[k + 1][1]
        BY <4>1 DEF Chain
      <4> QED BY <2>3, <3>1, <4>1, <4>2
    <3> QED BY <3>2, <3>3
  <2>9. Len(e) - 1 = l
    BY <1>2, <2>3
  <2>10. Chain(e, b)
    BY <2>3, <2>4, <2>6, <2>7, <2>8, <2>9 DEF Chain
  <2>11. b - a >= MinGap => Long(e)
    BY <2>3, <2>7 DEF Long
  <2> QED BY <2>2, <2>3, <2>10, <2>11 DEF seg
<1> QED BY <1>3, <1>4

(* Cuts from 0 to n: the segments between them.                            *)
Between(e, m, n) ==
  /\ \A i \in 1..(m + 1) : e[i] \in Nat
  /\ e[1] = 0 /\ e[m + 1] = n /\ e[m] < n
  /\ \A i \in 1..(m - 1) : e[i + 1] - e[i] >= MinGap

LEMMA SanitizedChain ==
  ASSUME NEW n \in Nat, NEW m \in Nat, m >= 1, NEW e, Between(e, m, n),
         NEW segs, segs = [i \in 1..m |-> <<e[i], e[i + 1]>>]
  PROVE  Chain(Sanitized(segs, n), n) /\ Sanitized(segs, n) # << >>
<1> DEFINE Pairs == Seq(Nat \X Nat)
           T(i) == {d \in Pairs : /\ Chain(d, e[i + 1])
                                  /\ i < m => Long(d)
                                  /\ i = m => d # << >>}
           D == [i \in 0..m |-> T(i)]
           S == [i \in 1..m |-> [d \in T(i - 1) |-> Fill(d, segs[i])]]
           done[i \in 0..m] == IF i = 0 THEN << >> ELSE Fill(done[i - 1], segs[i])
<1>1. /\ \A i \in 1..(m + 1) : e[i] \in Nat
      /\ e[1] = 0 /\ e[m + 1] = n /\ e[m] < n
      /\ \A i \in 1..(m - 1) : e[i + 1] - e[i] >= MinGap
      /\ MinGap \in Nat
  BY BranchAssumption DEF Between
<1>2. \A i \in 0..m : D[i] = T(i)
  OBVIOUS
<1>3. \A i, d : d \in T(i) <=> Chain(d, e[i + 1]) /\ (i < m => Long(d)) /\ (i = m => d # << >>)
  BY DEF Chain
<1> HIDE DEF T
<1>4. << >> \in T(0)
  <2>1. End(<< >>) = 0
    BY DEF End
  <2>2. Chain(<< >>, 0) /\ Long(<< >>)
    BY <2>1 DEF Chain, Long
  <2>3. e[0 + 1] = 0 /\ 0 # m
    BY <1>1
  <2> QED BY <1>3, <2>2, <2>3
<1>5. ASSUME NEW i \in 1..m
      PROVE  S[i] \in [D[i - 1] -> D[i]] /\ \A d \in T(i - 1) : S[i][d] = Fill(d, segs[i])
  <2>1. S[i] = [d \in T(i - 1) |-> Fill(d, segs[i])]
    OBVIOUS
  <2>2. i - 1 \in 0..m /\ i \in 0..m
    OBVIOUS
  <2>3. ASSUME NEW d \in T(i - 1)
        PROVE  Fill(d, segs[i]) \in T(i)
    <3> DEFINE a == e[i]
               b == e[i + 1]
    <3>1. segs[i] = <<a, b>>
      OBVIOUS
    <3>2. a \in Nat /\ b \in Nat
      <4>1. i \in 1..(m + 1) /\ i + 1 \in 1..(m + 1)
        OBVIOUS
      <4> QED BY <1>1, <4>1
    <3>3. a <= b /\ (i < m => b - a >= MinGap) /\ (i = m => a < b)
      <4>1. CASE i = m
        BY <1>1, <3>2, <4>1
      <4>2. CASE i # m
        <5>1. i \in 1..(m - 1)
          BY <4>2
        <5>2. b - a >= MinGap
          BY <1>1, <5>1
        <5> QED BY <1>1, <3>2, <4>2, <5>2
      <4> QED BY <4>1, <4>2
    <3>4. Chain(d, a) /\ Long(d)
      <4>1. (i - 1) + 1 = i /\ i - 1 < m
        OBVIOUS
      <4> QED BY <1>3, <2>3, <4>1
    <3> HIDE DEF a, b
    <3>5. /\ Chain(Fill(d, <<a, b>>), b)
          /\ b - a >= MinGap => Long(Fill(d, <<a, b>>))
          /\ a < b => Fill(d, <<a, b>>) # << >>
      BY <3>2, <3>3, <3>4, ChainFilled
    <3>6. /\ Chain(Fill(d, segs[i]), e[i + 1])
          /\ i < m => Long(Fill(d, segs[i]))
          /\ i = m => Fill(d, segs[i]) # << >>
      BY <3>1, <3>3, <3>5 DEF b
    <3> QED BY <1>3, <3>6
  <2> HIDE DEF S, D
  <2> QED BY <1>2, <2>1, <2>2, <2>3
<1> HIDE DEF D, S
<1>6. << >> \in D[0]
  BY <1>2, <1>4
<1>7. PICK f : /\ f = [i \in 0..m |-> f[i]]
              /\ Walk(f, S, << >>, m)
              /\ \A i \in 0..m : f[i] \in D[i]
  BY <1>5, <1>6, WalkTaken
<1>8. f = [i \in 0..m |-> IF i = 0 THEN << >> ELSE Fill(f[i - 1], segs[i])]
  <2>1. ASSUME NEW i \in 0..m
        PROVE  f[i] = IF i = 0 THEN << >> ELSE Fill(f[i - 1], segs[i])
    <3>1. CASE i = 0
      BY <1>7, <3>1 DEF Walk
    <3>2. CASE i # 0
      <4>1. i \in 1..m /\ i - 1 \in 0..m
        BY <3>2
      <4>2. f[i] = S[i][f[i - 1]] /\ f[i - 1] \in T(i - 1)
        BY <1>2, <1>7, <4>1 DEF Walk
      <4> QED BY <1>5, <3>2, <4>1, <4>2
    <3> QED BY <3>1, <3>2
  <2> QED BY <1>7, <2>1, Zenon
<1>9. done = [i \in 0..m |-> IF i = 0 THEN << >> ELSE Fill(done[i - 1], segs[i])]
  BY <1>8, Zenon
<1>10. Len(segs) = m
  OBVIOUS
<1>11. Sanitized(segs, n) = IF End(done[m]) < n THEN Append(done[m], <<End(done[m]), n>>) ELSE done[m]
  <2> DEFINE l == Len(segs)
             all[i \in 0..l] == IF i = 0 THEN << >> ELSE Fill(all[i - 1], segs[i])
  <2>1. Sanitized(segs, n) = IF End(all[l]) < n THEN Append(all[l], <<End(all[l]), n>>) ELSE all[l]
    BY Zenon DEF Sanitized
  <2> QED BY <1>10, <2>1, Zenon
<1> HIDE DEF done
<1>12. done[0] = << >> /\ \A i \in 1..m : done[i] = Fill(done[i - 1], segs[i])
  <2> DEFINE g == [i \in 0..m |-> IF i = 0 THEN << >> ELSE Fill(done[i - 1], segs[i])]
  <2>1. g[0] = << >> /\ \A i \in 1..m : g[i] = Fill(done[i - 1], segs[i])
    OBVIOUS
  <2> HIDE DEF g
  <2> QED BY <1>9, <2>1, Zenon DEF g
<1>13. ASSUME NEW i \in 1..m, done[i - 1] \in D[i - 1]
      PROVE  done[i] \in D[i]
  <2>1. i - 1 \in 0..m /\ i \in 0..m
    OBVIOUS
  <2> QED BY <1>2, <1>5, <1>12, <1>13, <2>1
<1>14. \A i \in 0..m : done[i] \in D[i]
  BY <1>6, <1>12, <1>13, Stays
<1>15. done[m] \in T(m)
  BY <1>2, <1>14
<1>16. Chain(done[m], n) /\ done[m] # << >>
  BY <1>1, <1>3, <1>15
<1>17. End(done[m]) = n
  BY <1>16 DEF Chain
<1>18. Sanitized(segs, n) = done[m]
  BY <1>11, <1>17
<1> QED BY <1>16, <1>18

(* Whatever topk takes for anchors.                                        *)
LEMMA SegmentsChain ==
  ASSUME NEW n \in Nat, n >= 1, NEW anchors, n >= MaxBranches + 1 => anchors \in Anchors(n)
  PROVE  Chain(EntropySegmentation(anchors, n), n) /\ EntropySegmentation(anchors, n) # << >>
<1>1. MaxBranches \in Nat /\ MaxBranches # 0 /\ MinGap \in Nat
  BY BranchAssumption
<1>2. CASE n < MaxBranches + 1
  <2> DEFINE d == << <<0, n>> >>
  <2>1. EntropySegmentation(anchors, n) = d
    BY <1>2 DEF EntropySegmentation
  <2>2. /\ d \in Seq(Nat \X Nat) /\ Len(d) = 1 /\ d[1] = <<0, n>> /\ d # << >>
        /\ d[1][1] = 0 /\ d[1][2] = n
    OBVIOUS
  <2> HIDE DEF d
  <2>3. End(d) = n
    BY <2>2 DEF End, Last
  <2>4. Chain(d, n)
    BY <2>2, <2>3 DEF Chain
  <2> QED BY <2>1, <2>2, <2>4
<1>3. CASE ~(n < MaxBranches + 1)
  <2> DEFINE c == Cuts(Kept(anchors))
             l == Len(c)
             e == <<0>> \o c \o <<n>>
             m == l + 1
             segs == [i \in 1..m |-> <<e[i], e[i + 1]>>]
  <2>1. anchors \in Anchors(n)
    BY <1>1, <1>3
  <2>2. Spaced(c, n)
    BY <2>1, KeptAnchors, CutsSpaced
  <2>3. EntropySegmentation(anchors, n)
          = Sanitized([i \in 1..(Len(e) - 1) |-> <<e[i], e[i + 1]>>], n)
    BY <1>3 DEF EntropySegmentation
  <2> HIDE DEF c
  <2>4. c \in Seq(0..(n - 1)) /\ l \in Nat /\ \A i \in 1..l : c[i] \in 0..(n - 1)
    BY <2>2 DEF Spaced
  <2>5. /\ Len(e) = l + 2 /\ e[1] = 0 /\ e[l + 2] = n
        /\ \A i \in 1..l : e[i + 1] = c[i]
    <3>1. c \in Seq(Nat)
      BY <2>4
    <3> QED BY ONLY <2>4, <3>1, n \in Nat
  <2> HIDE DEF e
  <2>6. ASSUME NEW i \in 1..(m + 1)
        PROVE  e[i] \in Nat
    <3>1. CASE i = 1 \/ i = l + 2
      BY <2>5, <3>1
    <3>2. CASE i # 1 /\ i # l + 2
      <4>1. i - 1 \in 1..l
        BY <2>4, <3>2
      <4>2. e[(i - 1) + 1] = c[i - 1] /\ c[i - 1] \in 0..(n - 1)
        BY <2>4, <2>5, <4>1
      <4> QED BY <2>4, <4>2
    <3> QED BY <3>1, <3>2
  <2>7. e[m] < n
    <3>1. CASE l = 0
      BY <2>5, <3>1
    <3>2. CASE l # 0
      <4>1. l \in 1..l
        BY <2>4, <3>2
      <4>2. e[l + 1] = c[l] /\ c[l] \in 0..(n - 1)
        BY <2>4, <2>5, <4>1
      <4> QED BY <4>2
    <3> QED BY <3>1, <3>2
  <2>8. ASSUME NEW i \in 1..(m - 1)
        PROVE  e[i + 1] - e[i] >= MinGap
    <3>1. i \in 1..l /\ e[i + 1] = c[i]
      BY <2>4, <2>5
    <3>2. CASE i = 1
      <4>1. c # << >> /\ c[1] \in 0..(n - 1)
        BY <2>4, <3>1, <3>2
      <4>2. c[1] >= MinGap
        BY <2>2, <4>1 DEF Spaced
      <4> QED BY <2>5, <3>1, <3>2, <4>1, <4>2
    <3>3. CASE i # 1
      <4>1. i - 1 \in 1..(l - 1) /\ i - 1 \in 1..l
        BY <2>4, <3>1, <3>3
      <4>2. e[(i - 1) + 1] = c[i - 1] /\ c[(i - 1) + 1] - c[i - 1] >= MinGap
        BY <2>2, <2>5, <4>1 DEF Spaced
      <4>3. (i - 1) + 1 = i
        BY <2>4, <3>1
      <4> QED BY <3>1, <4>2, <4>3
    <3> QED BY <3>2, <3>3
  <2>9. m \in Nat /\ m >= 1 /\ Len(e) - 1 = m
    BY <2>4, <2>5
  <2>10. Between(e, m, n)
    BY <2>4, <2>5, <2>6, <2>7, <2>8 DEF Between
  <2>11. segs = [i \in 1..m |-> <<e[i], e[i + 1]>>]
    OBVIOUS
  <2>12. EntropySegmentation(anchors, n) = Sanitized(segs, n)
    BY <2>3, <2>9
  <2> HIDE DEF segs, m
  <2> QED BY <2>9, <2>10, <2>11, <2>12, SanitizedChain
<1> QED BY <1>2, <1>3

(* The segments are of the row judged last.                                *)
SegmentInv ==
  /\ judged \in Nat
  /\ segments # << >> =>
       /\ pc \in {"reward", "values", "update", "stop_profile", "failed"}
       /\ Chain(segments, lens[batch["response"][judged]])

LEMMA SegmentedRow ==
  ASSUME BatchInv, SegmentInv, Segment
  PROVE  SegmentInv'
<1> DEFINE row == batch["response"][judged + 1]
           length == lens[row]
<1>1. /\ pc = "reward" /\ judged < Len(batch["response"]) /\ judged' = judged + 1
      /\ UNCHANGED <<pc, lens, batch>>
  BY DEF Segment
<1>2. cfg \in Settings /\ Aligned(batch) /\ lens \in [Rows -> Lengths[cfg]] /\ judged \in Nat
  BY <1>1 DEF BatchInv, Afterwards, SegmentInv
<1>3. batch["response"] \in Seq(Rows)
  BY <1>2, AlignedFacts
<1>4. row \in Rows
  BY <1>1, <1>2, <1>3
<1>5. length \in Nat /\ length >= 1
  <2>1. length \in Lengths[cfg] /\ Lengths[cfg] \subseteq Nat \ {0}
    BY <1>2, <1>4, SettingFacts
  <2> QED BY <2>1
<1>6. \E anchors : /\ length >= MaxBranches + 1 => anchors \in Anchors(length)
                   /\ segments' = EntropySegmentation(anchors, length)
  <2>1. CASE length < MaxBranches + 1
    BY <1>5, <2>1, BranchAssumption DEF Segment
  <2>2. CASE ~(length < MaxBranches + 1)
    BY <2>2 DEF Segment
  <2> QED BY <2>1, <2>2
<1> HIDE DEF length
<1>7. Chain(segments', length)
  BY <1>5, <1>6, SegmentsChain
<1>8. lens'[batch'["response"][judged']] = length
  BY <1>1 DEF length
<1>9. judged' \in Nat
  BY <1>1, <1>2
<1>10. Chain(segments, lens[batch["response"][judged]])'
  BY <1>7, <1>8 DEF Chain, End
<1> QED BY <1>1, <1>9, <1>10 DEF SegmentInv

LEMMA SegmentStep ==
  ASSUME BatchInv, SegmentInv, [Next]_vars
  PROVE  SegmentInv'
<1>1. CASE Segment
  BY <1>1, SegmentedRow
<1>2. CASE StopProfile
  BY <1>2 DEF StopProfile, SegmentInv
<1>3. CASE Fetch \/ UnionGenerated \/ Balance
  BY <1>3 DEF Fetch, UnionGenerated, Balance, SegmentInv
<1>4. CASE UnionComputed
  <2>1. /\ pc \in {"log_prob", "ref", "values"} /\ UNCHANGED <<lens, judged, segments>>
        /\ batch' = [key \in DOMAIN batch \cup {pc} |->
                       IF key = pc THEN Collected(pc) ELSE batch[key]]
        /\ pc' = AfterCall(pc)
    BY <1>4 DEF UnionComputed
  <2>2. CASE segments = << >>
    BY <2>1, <2>2 DEF SegmentInv
  <2>3. CASE segments # << >>
    <3>1. pc = "values" /\ "response" \in DOMAIN batch
      BY <2>1, <2>3 DEF SegmentInv, BatchInv, Afterwards, Aligned
    <3>2. batch'["response"] = batch["response"]
      BY <2>1, <3>1
    <3>3. pc' \in {"update", "stop_profile"}
      BY <2>1, <3>1 DEF AfterCall
    <3> QED BY <2>1, <3>2, <3>3 DEF SegmentInv, Chain, End
  <2> QED BY <2>2, <2>3
<1>5. CASE Judge
  <2>1. /\ pc = "reward" /\ UNCHANGED <<lens, judged, segments>> /\ pc' = AfterCall(pc)
        /\ "response" \in DOMAIN batch
    BY <1>5 DEF Judge, BatchInv, Afterwards, Aligned
  <2>2. batch'["response"] = batch["response"]
    BY <1>5, <2>1 DEF Judge
  <2>3. pc' \in {"values", "update", "stop_profile"}
    BY <2>1 DEF AfterCall
  <2> QED BY <2>1, <2>2, <2>3 DEF SegmentInv, Chain, End
<1>6. CASE AfterUpdate \/ RewardRetried
  <2>1. /\ UNCHANGED <<lens, batch, judged, segments>>
        /\ pc' \in {"reward", "stop_profile", "failed"}
    BY <1>6 DEF AfterUpdate, RewardRetried, AfterCall
  <2> QED BY <2>1 DEF SegmentInv, Chain, End
<1>7. CASE \E r \in Ranks : RankStep(r)
  <2>1. UNCHANGED <<pc, lens, batch, judged, segments>>
    BY <1>7 DEF RankStep, Generate, Forward, Update
  <2> QED BY <2>1 DEF SegmentInv, Chain, End
<1>8. CASE UNCHANGED vars
  BY <1>8 DEF vars, SegmentInv, Chain, End
<1> QED BY <1>1, <1>2, <1>3, <1>4, <1>5, <1>6, <1>7, <1>8 DEF Next, DriverStep, Terminated

(* The segments of a row cover its response from the first token to the    *)
(* last, one after the other, none of them empty, and none but the last    *)
(* shorter than min_gap: for every max_branches and min_gap, every length  *)
(* and whatever tokens have the highest entropy.                           *)
THEOREM SegmentsCoverResponse == Spec => []SegmentsPartition
<1>1. Init => SegmentInv
  BY DEF Init, SegmentInv
<1>2. SegmentInv => SegmentsPartition
  <2> SUFFICES ASSUME SegmentInv, segments # << >>
               PROVE  /\ segments[1][1] = 0
                      /\ segments[Len(segments)][2] = lens[batch["response"][judged]]
                      /\ \A k \in 1..Len(segments) : segments[k][1] < segments[k][2]
                      /\ \A k \in 1..(Len(segments) - 1) :
                           /\ segments[k][2] = segments[k + 1][1]
                           /\ segments[k][2] - segments[k][1] >= MinGap
    BY DEF SegmentsPartition
  <2>1. Chain(segments, lens[batch["response"][judged]])
    BY DEF SegmentInv
  <2> QED BY <2>1 DEF Chain, End, Last
<1>3. BatchInv /\ SegmentInv /\ [Next]_vars => SegmentInv'
  BY SegmentStep
<1> QED BY <1>1, <1>2, <1>3, ColumnsInit, ColumnsStep, PTL DEF Spec

-----------------------------------------------------------------------------
(* What Total adds up, number by number.                                   *)
Adds(f, numbers, n) == f[0] = 0 /\ \A j \in 1..n : f[j] = f[j - 1] + numbers[j]

LEMMA TotalWalk ==
  ASSUME NEW n \in Nat, NEW numbers \in Seq(Nat), Len(numbers) = n
  PROVE  \E f \in [0..n -> Nat] : Adds(f, numbers, n) /\ Total(numbers) = f[n]
<1> DEFINE D == [j \in 0..n |-> Nat]
           S == [j \in 1..n |-> [x \in Nat |-> x + numbers[j]]]
           sum[j \in 0..n] == IF j = 0 THEN 0 ELSE sum[j - 1] + numbers[j]
<1>1. \A j \in 0..n : D[j] = Nat
  OBVIOUS
<1> HIDE DEF D
<1>2. 0 \in D[0]
  BY <1>1
<1>3. ASSUME NEW j \in 1..n
      PROVE  S[j] \in [D[j - 1] -> D[j]] /\ \A x \in Nat : S[j][x] = x + numbers[j]
  <2>1. S[j] = [x \in Nat |-> x + numbers[j]]
    OBVIOUS
  <2>2. j - 1 \in 0..n /\ j \in 0..n /\ numbers[j] \in Nat
    OBVIOUS
  <2>3. D[j - 1] = Nat /\ D[j] = Nat
    BY <1>1, <2>2
  <2>4. \A x \in Nat : x + numbers[j] \in Nat
    BY <2>2
  <2> HIDE DEF S
  <2> QED BY <2>1, <2>3, <2>4
<1> HIDE DEF S
<1>4. PICK f : /\ f = [j \in 0..n |-> f[j]]
              /\ Walk(f, S, 0, n)
              /\ \A j \in 0..n : f[j] \in D[j]
  BY <1>2, <1>3, WalkTaken
<1>5. f[0] = 0 /\ \A j \in 1..n : f[j] = f[j - 1] + numbers[j]
  <2>1. ASSUME NEW j \in 1..n PROVE f[j] = f[j - 1] + numbers[j]
    <3>1. j - 1 \in 0..n
      OBVIOUS
    <3>2. f[j] = S[j][f[j - 1]] /\ f[j - 1] \in Nat
      BY <1>1, <1>4, <3>1 DEF Walk
    <3> QED BY <1>3, <3>2
  <2> QED BY <1>4, <2>1 DEF Walk
<1>6. f = [j \in 0..n |-> IF j = 0 THEN 0 ELSE f[j - 1] + numbers[j]]
  <2>1. \A j \in 0..n : f[j] = IF j = 0 THEN 0 ELSE f[j - 1] + numbers[j]
    BY <1>5
  <2> QED BY <1>4, <2>1, Zenon
<1>7. sum = [j \in 0..n |-> IF j = 0 THEN 0 ELSE sum[j - 1] + numbers[j]]
  BY <1>6, Zenon
<1>8. Total(numbers) = sum[n]
  <2> DEFINE m == Len(numbers)
             all[j \in 0..m] == IF j = 0 THEN 0 ELSE all[j - 1] + numbers[j]
  <2>1. Total(numbers) = all[m]
    BY Zenon DEF Total
  <2> QED BY <2>1, Zenon
<1> HIDE DEF sum
<1>9. sum[0] = 0 /\ \A j \in 1..n : sum[j] = sum[j - 1] + numbers[j]
  <2> DEFINE g == [j \in 0..n |-> IF j = 0 THEN 0 ELSE sum[j - 1] + numbers[j]]
  <2>1. g[0] = 0 /\ \A j \in 1..n : g[j] = sum[j - 1] + numbers[j]
    OBVIOUS
  <2> HIDE DEF g
  <2> QED BY <1>7, <2>1, Zenon DEF g
<1>10. \A j \in 0..n : sum[j] \in D[j]
  <2>1. ASSUME NEW j \in 1..n, sum[j - 1] \in D[j - 1]
        PROVE  sum[j] \in D[j]
    <3>1. j - 1 \in 0..n /\ j \in 0..n /\ numbers[j] \in Nat
      OBVIOUS
    <3>2. sum[j - 1] \in Nat /\ sum[j] = sum[j - 1] + numbers[j]
      BY <1>1, <1>9, <2>1, <3>1
    <3> QED BY <1>1, <3>1, <3>2
  <2> QED BY <1>2, <1>9, <2>1, Stays
<1>11. sum \in [0..n -> Nat]
  <2>1. \A j \in 0..n : sum[j] \in Nat
    BY <1>1, <1>10
  <2>2. sum = [j \in 0..n |-> sum[j]]
    <3> DEFINE g == [j \in 0..n |-> IF j = 0 THEN 0 ELSE sum[j - 1] + numbers[j]]
    <3>1. g = [j \in 0..n |-> g[j]]
      OBVIOUS
    <3>2. sum = g
      BY <1>7, Zenon
    <3> HIDE DEF g
    <3> QED BY <3>1, <3>2
  <2> QED BY <2>1, <2>2
<1> QED BY <1>8, <1>9, <1>11 DEF Adds

(* Whatever adds up the numbers ends at their total.                       *)
LEMMA TotalUnique ==
  ASSUME NEW n \in Nat, NEW numbers \in Seq(Nat), Len(numbers) = n, NEW g, Adds(g, numbers, n)
  PROVE  Total(numbers) = g[n] /\ Total(numbers) \in Nat
<1>1. PICK f \in [0..n -> Nat] : Adds(f, numbers, n) /\ Total(numbers) = f[n]
  BY TotalWalk
<1> DEFINE D == [j \in 0..n |-> {f[j]}]
<1>2. \A j \in 0..n : D[j] = {f[j]}
  OBVIOUS
<1> HIDE DEF D
<1>3. \A j \in 1..n : g[j - 1] \in D[j - 1] => g[j] \in D[j]
  BY <1>1, <1>2 DEF Adds
<1>4. g[0] \in D[0]
  BY <1>1, <1>2 DEF Adds
<1>5. \A j \in 0..n : g[j] \in D[j]
  BY <1>3, <1>4, Stays
<1> QED BY <1>1, <1>2, <1>5

LEMMA TotalConcat ==
  ASSUME NEW s \in Seq(Nat), NEW t \in Seq(Nat)
  PROVE  Total(s \o t) = Total(s) + Total(t)
<1> DEFINE m == Len(s)
           n == Len(t)
           u == s \o t
<1>1. m \in Nat /\ n \in Nat /\ \A k \in 1..n : t[k] \in Nat
  OBVIOUS
<1>2. /\ u \in Seq(Nat) /\ Len(u) = m + n
      /\ \A k \in 1..(m + n) : u[k] = IF k <= m THEN s[k] ELSE t[k - m]
  OBVIOUS
<1>3. Len(s) = m /\ Len(t) = n
  OBVIOUS
<1> HIDE DEF m, n, u
<1>4. PICK f \in [0..m -> Nat] : Adds(f, s, m) /\ Total(s) = f[m]
  BY <1>1, <1>3, TotalWalk
<1>5. PICK g \in [0..n -> Nat] : Adds(g, t, n) /\ Total(t) = g[n]
  BY <1>1, <1>3, TotalWalk
<1> DEFINE h == [k \in 0..(m + n) |-> IF k <= m THEN f[k] ELSE f[m] + g[k - m]]
<1>6. \A k \in 0..(m + n) : h[k] = IF k <= m THEN f[k] ELSE f[m] + g[k - m]
  OBVIOUS
<1>7. f[0] = 0 /\ f[m] \in Nat /\ \A j \in 1..m : f[j] = f[j - 1] + s[j]
  BY <1>1, <1>4 DEF Adds
<1>8. g[0] = 0 /\ \A j \in 1..n : g[j] = g[j - 1] + t[j] /\ g[j - 1] \in Nat
  BY <1>1, <1>5 DEF Adds
<1> HIDE DEF h
<1>9. ASSUME NEW k \in 1..(m + n)
      PROVE  h[k] = h[k - 1] + u[k]
  <2>1. CASE k <= m
    <3>1. k \in 1..m /\ k \in 0..(m + n) /\ k - 1 \in 0..(m + n) /\ k - 1 <= m
      BY <1>1, <2>1
    <3> QED BY <1>2, <1>6, <1>7, <2>1, <3>1
  <2>2. CASE k = m + 1
    <3>1. 1 \in 1..n /\ (m + 1) - m = 1 /\ k - 1 = m /\ m \in 0..(m + n) /\ k \in 0..(m + n)
      BY <1>1, <2>2
    <3>2. g[1] = g[1 - 1] + t[1] /\ t[1] \in Nat
      BY <1>1, <1>8, <3>1
    <3>3. h[k] = f[m] + t[1] /\ h[k - 1] = f[m] /\ u[k] = t[1]
      <4>1. ~(k <= m) /\ k - m = 1 /\ m <= m
        BY <1>1, <2>2
      <4>2. h[k] = f[m] + g[1] /\ h[m] = f[m] /\ u[k] = t[1]
        BY <1>2, <1>6, <3>1, <4>1
      <4>3. g[1] = t[1]
        <5>1. 1 - 1 = 0 /\ g[0] = 0
          BY <1>8
        <5> QED BY <3>2, <5>1
      <4>4. h[k - 1] = h[m]
        BY <3>1
      <4> QED BY <4>2, <4>3, <4>4
    <3> QED BY <3>3
  <2>3. CASE k > m + 1
    <3>1. k - m \in 1..n /\ (k - m) - 1 = (k - 1) - m /\ k - 1 > m /\ k - 1 \in 0..(m + n)
      BY <1>1, <2>3
    <3>2. g[k - m] = g[(k - 1) - m] + t[k - m] /\ g[(k - 1) - m] \in Nat /\ t[k - m] \in Nat
      BY <1>1, <1>8, <3>1
    <3>3. h[k] = f[m] + g[k - m] /\ h[k - 1] = f[m] + g[(k - 1) - m] /\ u[k] = t[k - m]
      <4>1. ~(k <= m) /\ ~(k - 1 <= m) /\ k \in 0..(m + n)
        BY <1>1, <2>3
      <4>2. h[k] = f[m] + g[k - m] /\ u[k] = t[k - m]
        BY <1>2, <1>6, <4>1
      <4>3. h[k - 1] = f[m] + g[(k - 1) - m]
        BY <1>6, <3>1, <4>1
      <4> QED BY <4>2, <4>3
    <3> QED BY <1>7, <3>2, <3>3
  <2> QED BY <1>1, <2>1, <2>2, <2>3
<1>10. h[0] = 0 /\ h[m + n] = f[m] + g[n]
  <2>1. 0 \in 0..(m + n) /\ m + n \in 0..(m + n) /\ (m + n) - m = n /\ 0 <= m
    BY <1>1
  <2>2. h[0] = f[0]
    BY <1>6, <2>1
  <2>3. CASE n = 0
    BY <1>1, <1>6, <1>7, <1>8, <2>1, <2>2, <2>3
  <2>4. CASE n # 0
    BY <1>1, <1>6, <1>7, <2>1, <2>2, <2>4
  <2> QED BY <2>3, <2>4
<1>11. Adds(h, u, m + n) /\ m + n \in Nat
  BY <1>1, <1>9, <1>10 DEF Adds
<1>12. Total(u) = h[m + n]
  BY <1>2, <1>11, TotalUnique
<1> QED BY <1>4, <1>5, <1>10, <1>12 DEF u

-----------------------------------------------------------------------------
(* The lengths of rows, in their order.                                    *)
Weights(rows, w) == [i \in DOMAIN rows |-> w[rows[i]]]

LEMMA WeightsFacts ==
  ASSUME NEW R, NEW w \in [R -> Nat], NEW rows \in Seq(R)
  PROVE  /\ Weights(rows, w) \in Seq(Nat) /\ Len(Weights(rows, w)) = Len(rows)
         /\ \A i \in 1..Len(rows) : Weights(rows, w)[i] = w[rows[i]]
         /\ SumOver(rows, w) = Total(Weights(rows, w))
         /\ SumOver(rows, w) \in Nat
<1>1. /\ Weights(rows, w) \in Seq(Nat) /\ Len(Weights(rows, w)) = Len(rows)
      /\ \A i \in 1..Len(rows) : Weights(rows, w)[i] = w[rows[i]]
  <2>1. DOMAIN rows = 1..Len(rows) /\ Len(rows) \in Nat
    OBVIOUS
  <2>2. \A i \in 1..Len(rows) : w[rows[i]] \in Nat
    OBVIOUS
  <2> QED BY <2>1, <2>2 DEF Weights
<1>2. SumOver(rows, w) = Total(Weights(rows, w))
  BY DEF SumOver, Weights
<1>3. Total(Weights(rows, w)) \in Nat
  <2> DEFINE n == Len(rows)
             numbers == Weights(rows, w)
  <2>1. n \in Nat /\ numbers \in Seq(Nat) /\ Len(numbers) = n
    BY <1>1
  <2> HIDE DEF n, numbers
  <2>2. PICK f \in [0..n -> Nat] : Total(numbers) = f[n]
    BY <2>1, TotalWalk
  <2>3. Total(numbers) \in Nat
    BY <2>1, <2>2
  <2> QED BY <2>3 DEF numbers
<1> QED BY <1>1, <1>2, <1>3

LEMMA SumConcat ==
  ASSUME NEW R, NEW w \in [R -> Nat], NEW s \in Seq(R), NEW t \in Seq(R)
  PROVE  SumOver(s \o t, w) = SumOver(s, w) + SumOver(t, w)
<1> DEFINE u == s \o t
           a == Weights(s, w)
           b == Weights(t, w)
           c == Weights(u, w)
<1>1. /\ u \in Seq(R) /\ Len(u) = Len(s) + Len(t)
      /\ \A i \in 1..Len(s) : u[i] = s[i]
      /\ \A i \in (Len(s) + 1)..(Len(s) + Len(t)) : u[i] = t[i - Len(s)]
  OBVIOUS
<1> HIDE DEF u
<1>2. /\ a \in Seq(Nat) /\ Len(a) = Len(s) /\ \A i \in 1..Len(s) : a[i] = w[s[i]]
      /\ b \in Seq(Nat) /\ Len(b) = Len(t) /\ \A i \in 1..Len(t) : b[i] = w[t[i]]
      /\ c \in Seq(Nat) /\ Len(c) = Len(u) /\ \A i \in 1..Len(u) : c[i] = w[u[i]]
  <2>1. a \in Seq(Nat) /\ Len(a) = Len(s) /\ \A i \in 1..Len(s) : a[i] = w[s[i]]
    <3>1. Weights(s, w) \in Seq(Nat)
      BY WeightsFacts
    <3>2. Len(Weights(s, w)) = Len(s)
      BY WeightsFacts
    <3>3. \A i \in 1..Len(s) : Weights(s, w)[i] = w[s[i]]
      BY WeightsFacts
    <3> QED BY <3>1, <3>2, <3>3
  <2>2. b \in Seq(Nat) /\ Len(b) = Len(t) /\ \A i \in 1..Len(t) : b[i] = w[t[i]]
    <3>1. Weights(t, w) \in Seq(Nat)
      BY WeightsFacts
    <3>2. Len(Weights(t, w)) = Len(t)
      BY WeightsFacts
    <3>3. \A i \in 1..Len(t) : Weights(t, w)[i] = w[t[i]]
      BY WeightsFacts
    <3> QED BY <3>1, <3>2, <3>3
  <2>3. c \in Seq(Nat) /\ Len(c) = Len(u) /\ \A i \in 1..Len(u) : c[i] = w[u[i]]
    <3>0. u \in Seq(R)
      BY <1>1
    <3>1. Weights(u, w) \in Seq(Nat)
      BY <3>0, WeightsFacts
    <3>2. Len(Weights(u, w)) = Len(u)
      BY <3>0, WeightsFacts
    <3>3. \A i \in 1..Len(u) : Weights(u, w)[i] = w[u[i]]
      <4>1. DOMAIN u = 1..Len(u)
        BY <3>0
      <4> QED BY <4>1 DEF Weights
    <3> QED BY <3>1, <3>2, <3>3
  <2> HIDE DEF a, b, c
  <2> QED BY <2>1, <2>2, <2>3
<1>3. SumOver(s, w) = Total(a) /\ SumOver(t, w) = Total(b) /\ SumOver(u, w) = Total(c)
  BY <1>1, WeightsFacts
<1> HIDE DEF a, b, c
<1>4. c = a \o b
  <2> DEFINE d == a \o b
  <2>0. a \in Seq(Nat) /\ b \in Seq(Nat)
    BY <1>2
  <2>1. /\ d \in Seq(Nat) /\ Len(d) = Len(s) + Len(t)
        /\ \A i \in 1..Len(s) : d[i] = a[i]
        /\ \A i \in (Len(s) + 1)..(Len(s) + Len(t)) : d[i] = b[i - Len(s)]
    <3>1. /\ d \in Seq(Nat) /\ Len(d) = Len(a) + Len(b)
          /\ \A i \in 1..Len(a) : d[i] = a[i]
          /\ \A i \in (Len(a) + 1)..(Len(a) + Len(b)) : d[i] = b[i - Len(a)]
      BY <2>0
    <3> HIDE DEF d
    <3> QED BY <1>2, <3>1
  <2> HIDE DEF d
  <2>2. ASSUME NEW i \in 1..Len(c)
        PROVE  c[i] = d[i]
    <3>1. CASE i <= Len(s)
      BY <1>1, <1>2, <2>1, <3>1
    <3>2. CASE i > Len(s)
      <4>1. i \in (Len(s) + 1)..(Len(s) + Len(t)) /\ i - Len(s) \in 1..Len(t) /\ i \in 1..Len(u)
        BY <1>1, <1>2, <3>2
      <4>2. c[i] = w[u[i]] /\ u[i] = t[i - Len(s)]
        BY <1>1, <1>2, <4>1
      <4>3. d[i] = b[i - Len(s)] /\ b[i - Len(s)] = w[t[i - Len(s)]]
        BY <1>2, <2>1, <4>1
      <4> QED BY <4>2, <4>3
    <3> QED BY <3>1, <3>2
  <2>3. Len(c) = Len(d)
    BY <1>1, <1>2, <2>1
  <2>4. c \in Seq(Nat) /\ d \in Seq(Nat)
    BY <1>2, <2>1
  <2>6. \A i \in 1..Len(c) : c[i] = d[i]
    BY ONLY <2>2
  <2>5. c = d
    BY ONLY <2>3, <2>4, <2>6, SeqEqual
  <2> QED BY <2>5 DEF d
<1>5. Total(c) = Total(a) + Total(b)
  BY <1>2, <1>4, TotalConcat
<1> QED BY <1>3, <1>5 DEF u

(* A list without the row x.                                               *)
Dropped(u, s, x, B, n, w) ==
  Lists(u, B) /\ Len(u) = n /\ SumOver(s, w) = SumOver(u, w) + w[x]

LEMMA SumWithout ==
  ASSUME NEW R, NEW w \in [R -> Nat], NEW A, A \subseteq R, NEW n \in Nat,
         NEW s, Lists(s, A), Len(s) = n + 1, NEW q \in 1..(n + 1)
  PROVE  \E u : Dropped(u, s, s[q], A \ {s[q]}, n, w)
<1> DEFINE u == [i \in 1..n |-> IF i < q THEN s[i] ELSE s[i + 1]]
           B == A \ {s[q]}
<1>1. /\ s \in [1..(n + 1) -> A] /\ s \in Seq(R)
      /\ Covers(s, n + 1, A) /\ Differ(s, n + 1)
  BY ListsFacts
<1>2. \A i \in 1..n : u[i] = IF i < q THEN s[i] ELSE s[i + 1]
  OBVIOUS
<1>3. u = [i \in 1..n |-> u[i]]
  OBVIOUS
<1> HIDE DEF u
<1>4. \A i \in 1..n : \E j \in 1..(n + 1) : j # q /\ u[i] = s[j] /\ (j = i \/ j = i + 1)
  BY <1>2
<1>5. u \in [1..n -> B]
  BY <1>1, <1>3, <1>4 DEF Differ
<1>6. Covers(u, n, B)
  <2> SUFFICES ASSUME NEW x \in B PROVE \E i \in 1..n : u[i] = x
    BY DEF Covers
  <2>1. PICK j \in 1..(n + 1) : s[j] = x /\ j # q
    BY <1>1 DEF Covers
  <2>2. CASE j < q
    BY <1>2, <2>1, <2>2
  <2>3. CASE j > q
    <3>1. j - 1 \in 1..n /\ ~(j - 1 < q) /\ (j - 1) + 1 = j
      BY <2>3
    <3>2. u[j - 1] = s[j]
      BY <1>2, <3>1
    <3> QED BY <2>1, <3>1, <3>2
  <2> QED BY <2>1, <2>2, <2>3
<1>7. Differ(u, n)
  <2> SUFFICES ASSUME NEW i \in 1..n, NEW j \in 1..n, u[i] = u[j], i < j PROVE FALSE
    BY DEF Differ
  <2>1. \A x, y \in 1..(n + 1) : s[x] = s[y] => x = y
    BY <1>1 DEF Differ
  <2>2. CASE j < q
    BY <1>2, <2>1, <2>2
  <2>3. CASE i < q /\ ~(j < q)
    BY <1>2, <2>1, <2>3
  <2>4. CASE ~(i < q)
    <3>1. u[i] = s[i + 1] /\ u[j] = s[j + 1] /\ i + 1 \in 1..(n + 1) /\ j + 1 \in 1..(n + 1)
      BY <1>2, <2>4
    <3>2. i + 1 = j + 1
      BY <2>1, <3>1
    <3> QED BY <3>2
  <2> QED BY <2>2, <2>3, <2>4
<1>8. Lists(u, B) /\ Len(u) = n
  BY <1>5, <1>6, <1>7, ListsIntro
<1>9. u \in Seq(R)
  BY <1>8 DEF Lists
<1> DEFINE a == Weights(s, w)
           b == Weights(u, w)
<1>10. a \in Seq(Nat) /\ Len(a) = n + 1 /\ \A i \in 1..(n + 1) : a[i] = w[s[i]]
  BY <1>1, WeightsFacts, SMTT(20)
<1>11. b \in Seq(Nat) /\ Len(b) = n /\ \A i \in 1..n : b[i] = w[u[i]]
  BY <1>8, <1>9, WeightsFacts
<1>12. SumOver(s, w) = Total(a) /\ SumOver(u, w) = Total(b)
  BY <1>1, <1>9, WeightsFacts
<1> HIDE DEF a, b
<1>13. PICK f \in [0..(n + 1) -> Nat] : Adds(f, a, n + 1) /\ Total(a) = f[n + 1]
  BY <1>10, TotalWalk, SMTT(20)
<1> DEFINE x == a[q]
           g == [i \in 0..n |-> IF i < q THEN f[i] ELSE f[i + 1] - x]
<1>14. \A i \in 0..n : g[i] = IF i < q THEN f[i] ELSE f[i + 1] - x
  OBVIOUS
<1>15. x \in Nat /\ x = w[s[q]]
  BY <1>10
<1>16. /\ f[0] = 0 /\ f[q] = f[q - 1] + x
       /\ \A i \in 1..(n + 1) : f[i] = f[i - 1] + a[i] /\ f[i - 1] \in Nat /\ f[i] \in Nat
  BY <1>13 DEF Adds
<1> HIDE DEF g, x
<1>17. ASSUME NEW i \in 1..n
       PROVE  g[i] = g[i - 1] + b[i]
  <2>1. i \in 0..n /\ i - 1 \in 0..n /\ i \in 1..(n + 1) /\ i + 1 \in 1..(n + 1) /\ (i + 1) - 1 = i
    OBVIOUS
  <2>2. b[i] = IF i < q THEN a[i] ELSE a[i + 1]
    <3>1. b[i] = w[u[i]] /\ a[i] = w[s[i]] /\ a[i + 1] = w[s[i + 1]]
      BY <1>10, <1>11, <2>1
    <3>2. u[i] = IF i < q THEN s[i] ELSE s[i + 1]
      BY <1>2
    <3> QED BY <3>1, <3>2
  <2>3. a[i] \in Nat /\ a[i + 1] \in Nat
    BY <1>10, <2>1, SMTT(20)
  <2>4. CASE i < q
    <3>1. g[i] = f[i] /\ g[i - 1] = f[i - 1] /\ b[i] = a[i]
      BY <1>14, <2>1, <2>2, <2>4, SMTT(20)
    <3> QED BY <1>16, <2>1, <3>1
  <2>5. CASE i = q
    <3>1. g[i] = f[i + 1] - x /\ g[i - 1] = f[i - 1] /\ b[i] = a[i + 1]
      BY <1>14, <2>1, <2>2, <2>5
    <3>2. f[i + 1] = f[i] + a[i + 1]
      BY <1>16, <2>1
    <3>3. f[i] = f[i - 1] + x /\ f[i - 1] \in Nat
      BY <1>16, <2>1, <2>5
    <3> DEFINE e == f[i - 1]
               e2 == a[i + 1]
    <3>4. e \in Nat /\ e2 \in Nat /\ g[i] = ((e + x) + e2) - x /\ g[i - 1] = e /\ b[i] = e2
      BY <2>3, <3>1, <3>2, <3>3
    <3> HIDE DEF e, e2
    <3> QED BY <1>15, <3>4, SMTT(20)
  <2>6. CASE i > q
    <3>1. g[i] = f[i + 1] - x /\ g[i - 1] = f[i] - x /\ b[i] = a[i + 1]
      <4>1. ~(i < q) /\ ~(i - 1 < q) /\ (i - 1) + 1 = i
        BY <2>6
      <4> QED BY <1>14, <2>1, <2>2, <4>1
    <3>2. f[i + 1] = f[i] + a[i + 1]
      BY <1>16, <2>1
    <3>3. f[i] \in Nat
      BY <1>16, <2>1
    <3> DEFINE e == f[i]
               e2 == a[i + 1]
    <3>4. e \in Nat /\ e2 \in Nat /\ g[i] = (e + e2) - x /\ g[i - 1] = e - x /\ b[i] = e2
      BY <2>3, <3>1, <3>2, <3>3
    <3> HIDE DEF e, e2
    <3> QED BY <1>15, <3>4
  <2> QED BY <2>4, <2>5, <2>6
<1>18. g[0] = 0 /\ g[n] = f[n + 1] - x
  <2>1. 0 < q /\ 0 \in 0..n /\ n \in 0..n
    OBVIOUS
  <2>2. g[0] = 0
    BY <1>14, <1>16, <2>1
  <2>3. CASE n < q
    <3>1. q = n + 1 /\ q - 1 = n
      BY <2>3
    <3>2. g[n] = f[n] /\ f[n + 1] = f[n] + x /\ f[n] \in Nat
      BY <1>14, <1>13, <1>16, <2>1, <2>3, <3>1
    <3> QED BY <1>15, <2>2, <3>2
  <2>4. CASE ~(n < q)
    BY <1>14, <2>1, <2>2, <2>4
  <2> QED BY <2>3, <2>4
<1>19. Total(b) = g[n]
  <2>1. Adds(g, b, n)
    BY <1>17, <1>18 DEF Adds
  <2> QED BY <1>11, <2>1, TotalUnique
<1>20. f[n + 1] \in Nat
  OBVIOUS
<1>21. SumOver(s, w) = SumOver(u, w) + w[s[q]]
  BY <1>12, <1>13, <1>15, <1>18, <1>19, <1>20
<1> QED BY <1>8, <1>21 DEF Dropped

(* Lists of the same rows have the same sum.                               *)
LEMMA SumListed ==
  ASSUME NEW R, NEW w \in [R -> Nat], NEW A, A \subseteq R,
         NEW s, Lists(s, A), NEW t, Lists(t, A)
  PROVE  SumOver(s, w) = SumOver(t, w) /\ Len(s) = Len(t)
<1> DEFINE T == {n \in Nat : \A B \in SUBSET R : \A x, y \in Seq(R) :
                   Lists(x, B) /\ Lists(y, B) /\ Len(x) = n => SumOver(x, w) = SumOver(y, w)}
<1>1. \A B, x, y : Lists(x, B) /\ Lists(y, B) => Len(x) = Len(y)
  BY ListsCardinality
<1>2. 0 \in T
  <2> SUFFICES ASSUME NEW B \in SUBSET R, NEW x \in Seq(R), NEW y \in Seq(R),
                      Lists(x, B), Lists(y, B), Len(x) = 0
               PROVE  SumOver(x, w) = SumOver(y, w)
    OBVIOUS
  <2>1. x = << >> /\ y = << >>
    BY <1>1
  <2> QED BY <2>1
<1>3. ASSUME NEW n \in Nat, n \in T
      PROVE  n + 1 \in T
  <2> SUFFICES ASSUME NEW B \in SUBSET R, NEW x \in Seq(R), NEW y \in Seq(R),
                      Lists(x, B), Lists(y, B), Len(x) = n + 1
               PROVE  SumOver(x, w) = SumOver(y, w)
    OBVIOUS
  <2>0. B \subseteq R /\ B \ {x[n + 1]} \in SUBSET R
    OBVIOUS
  <2> HIDE DEF T
  <2>1. Len(y) = n + 1
    BY <1>1
  <2>2. n + 1 \in 1..(n + 1) /\ x[n + 1] \in B
    BY ListsFacts
  <2>3. PICK q \in 1..(n + 1) : y[q] = x[n + 1]
    BY <2>1, <2>2, ListsFacts DEF Covers
  <2>4. PICK u : Dropped(u, x, x[n + 1], B \ {x[n + 1]}, n, w)
    BY <2>0, <2>2, SumWithout
  <2>5. PICK v : Dropped(v, y, y[q], B \ {y[q]}, n, w)
    BY <2>0, <2>1, SumWithout
  <2>6. u \in Seq(R) /\ v \in Seq(R)
    BY <2>4, <2>5 DEF Dropped, Lists
  <2>8. SumOver(u, w) = SumOver(v, w)
    BY <1>3, <2>0, <2>3, <2>4, <2>5, <2>6 DEF T, Dropped
  <2> QED BY <2>3, <2>4, <2>5, <2>8 DEF Dropped
<1> HIDE DEF T
<1>4. Nat \subseteq T
  BY <1>2, <1>3, Induction
<1>5. Len(s) \in T /\ s \in Seq(R) /\ t \in Seq(R)
  <2>1. Len(s) \in Nat /\ s \in Seq(A) /\ t \in Seq(A)
    BY ListsFacts
  <2> QED BY <1>4, <2>1
<1> QED BY <1>1, <1>5 DEF T

-----------------------------------------------------------------------------
LEMMA SumEmpty ==
  ASSUME NEW w
  PROVE  SumOver(<< >>, w) = 0
<1> DEFINE numbers == [i \in DOMAIN << >> |-> w[<< >>[i]]]
<1>1. numbers \in Seq(Nat) /\ Len(numbers) = 0
  OBVIOUS
<1>2. SumOver(<< >>, w) = Total(numbers)
  BY DEF SumOver
<1> HIDE DEF numbers
<1> DEFINE f == [k \in 0..0 |-> 0]
<1>3. f[0] = 0
  OBVIOUS
<1> HIDE DEF f
<1>4. Adds(f, numbers, 0) /\ 0 \in Nat
  BY <1>3 DEF Adds
<1>5. Total(numbers) = f[0]
  BY <1>1, <1>4, TotalUnique
<1> QED BY <1>2, <1>3, <1>5

LEMMA SumOne ==
  ASSUME NEW R, NEW w \in [R -> Nat], NEW x \in R
  PROVE  SumOver(<<x>>, w) = w[x]
<1> DEFINE numbers == Weights(<<x>>, w)
           f == [k \in 0..1 |-> IF k = 0 THEN 0 ELSE w[x]]
<1>1. <<x>> \in Seq(R) /\ Len(<<x>>) = 1 /\ <<x>>[1] = x
  OBVIOUS
<1>2. numbers \in Seq(Nat) /\ Len(numbers) = 1 /\ numbers[1] = w[x] /\ SumOver(<<x>>, w) = Total(numbers)
  <2> DEFINE rows == <<x>>
  <2>1. rows \in Seq(R) /\ Len(rows) = 1 /\ rows[1] = x
    BY <1>1
  <2> HIDE DEF rows
  <2>2. Weights(rows, w) \in Seq(Nat) /\ SumOver(rows, w) = Total(Weights(rows, w))
    BY <2>1, WeightsFacts
  <2>3. Len(Weights(rows, w)) = 1
    BY <2>1, WeightsFacts
  <2>4. Weights(rows, w)[1] = w[x]
    BY <2>1 DEF Weights
  <2> QED BY <2>2, <2>3, <2>4 DEF rows
<1>3. f[0] = 0 /\ f[1] = w[x] /\ w[x] \in Nat
  OBVIOUS
<1> HIDE DEF numbers, f
<1>4. \A j \in 1..1 : f[j] = f[j - 1] + numbers[j]
  BY <1>2, <1>3
<1>5. Adds(f, numbers, 1)
  BY <1>3, <1>4 DEF Adds
<1>6. Total(numbers) = f[1]
  BY <1>2, <1>5, TotalUnique
<1> QED BY <1>2, <1>3, <1>6

(* The sum over all parts is the total of their sums.                      *)
SumsOf(sums, parts, R, w, k) ==
  /\ w \in [R -> Nat] /\ k \in Nat /\ parts \in [1..k -> Seq(R)]
  /\ sums \in Seq(Nat) /\ Len(sums) = k
  /\ \A i \in 1..k : sums[i] = SumOver(parts[i], w)

LEMMA SumFlatten ==
  ASSUME NEW R, NEW w, NEW k, NEW parts, NEW sums, SumsOf(sums, parts, R, w, k)
  PROVE  SumOver(Concatenated(parts), w) = Total(sums)
<1>0. /\ w \in [R -> Nat] /\ k \in Nat /\ parts \in [1..k -> Seq(R)]
      /\ sums \in Seq(Nat) /\ Len(sums) = k
      /\ \A i \in 1..k : sums[i] = SumOver(parts[i], w)
  BY DEF SumsOf
<1>1. PICK h : Joins(h, parts, k) /\ Concatenated(parts) = h[k]
  BY <1>0, FlattenWalk
<1>2. h[0] = << >> /\ \A m \in 1..k : h[m] = h[m - 1] \o parts[m]
  BY <1>1 DEF Joins
<1> DEFINE D == [m \in 0..k |-> Seq(R)]
           g == [m \in 0..k |-> SumOver(h[m], w)]
<1>3. \A m \in 0..k : D[m] = Seq(R) /\ g[m] = SumOver(h[m], w)
  OBVIOUS
<1> HIDE DEF D, g
<1>4. \A m \in 0..k : h[m] \in D[m]
  <2>1. h[0] \in D[0]
    <3>1. 0 \in 0..k /\ << >> \in Seq(R)
      BY <1>0
    <3> QED BY <1>2, <1>3, <3>1
  <2>2. ASSUME NEW m \in 1..k, h[m - 1] \in D[m - 1]
        PROVE  h[m] \in D[m]
    <3>1. m - 1 \in 0..k /\ m \in 0..k /\ parts[m] \in Seq(R)
      BY <1>0
    <3>2. h[m - 1] \in Seq(R) /\ h[m] = h[m - 1] \o parts[m]
      BY <1>2, <1>3, <2>2, <3>1
    <3>3. h[m] \in Seq(R)
      BY <3>1, <3>2
    <3> QED BY <1>3, <3>1, <3>3
  <2> QED BY <1>0, <2>1, <2>2, Stays
<1>5. ASSUME NEW m \in 1..k
      PROVE  g[m] = g[m - 1] + sums[m]
  <2>1. m - 1 \in 0..k /\ m \in 0..k /\ parts[m] \in Seq(R)
    BY <1>0
  <2>2. h[m - 1] \in Seq(R) /\ h[m] = h[m - 1] \o parts[m]
    BY <1>2, <1>3, <1>4, <2>1
  <2>3. SumOver(h[m], w) = SumOver(h[m - 1], w) + SumOver(parts[m], w)
    BY <1>0, <2>1, <2>2, SumConcat
  <2>4. sums[m] = SumOver(parts[m], w)
    BY <1>0
  <2> QED BY <1>3, <2>1, <2>3, <2>4
<1>6. g[0] = 0
  <2>1. 0 \in 0..k /\ SumOver(<< >>, w) = 0
    BY <1>0, SumEmpty
  <2> QED BY <1>2, <1>3, <2>1
<1>7. Total(sums) = g[k]
  <2>1. Adds(g, sums, k)
    BY <1>5, <1>6 DEF Adds
  <2> QED BY <1>0, <2>1, TotalUnique
<1> QED BY <1>0, <1>1, <1>3, <1>7

(* The total of numbers that are all at least x, and one above it.         *)
LEMMA TotalAbove ==
  ASSUME NEW k \in Nat, NEW numbers \in Seq(Nat), Len(numbers) = k, NEW x \in Nat,
         \A i \in 1..k : numbers[i] >= x, NEW p \in 1..k, numbers[p] > x
  PROVE  Total(numbers) > k * x
<1>1. PICK f \in [0..k -> Nat] : Adds(f, numbers, k) /\ Total(numbers) = f[k]
  BY TotalWalk
<1> DEFINE D == [m \in 0..k |-> {y \in Nat : y >= m * x /\ (p <= m => y > m * x)}]
<1>2. \A m \in 0..k : D[m] = {y \in Nat : y >= m * x /\ (p <= m => y > m * x)}
  OBVIOUS
<1> HIDE DEF D
<1>3. f[0] \in D[0]
  <2>1. 0 * x = 0 /\ ~(p <= 0) /\ 0 \in 0..k
    OBVIOUS
  <2>2. f[0] = 0
    BY <1>1 DEF Adds
  <2> QED BY <1>2, <2>1, <2>2
<1>4. ASSUME NEW m \in 1..k, f[m - 1] \in D[m - 1]
      PROVE  f[m] \in D[m]
  <2>1. m - 1 \in 0..k /\ m \in 0..k /\ numbers[m] \in Nat /\ m \in Int
    OBVIOUS
  <2>2. f[m] = f[m - 1] + numbers[m]
    BY <1>1 DEF Adds
  <2>3. (m - 1) * x = m * x - x /\ m * x \in Int
    BY <2>1, OneMore
  <2> DEFINE y == f[m - 1]
             z == m * x
             v == numbers[m]
  <2>4. y \in Nat /\ y >= z - x /\ (p <= m - 1 => y > z - x)
    BY <1>2, <1>4, <2>1, <2>3, SMTT(20)
  <2>5. v \in Nat /\ v >= x /\ (p = m => v > x) /\ z \in Int /\ f[m] = y + v
    BY <2>1, <2>2, <2>3
  <2> HIDE DEF y, z, v
  <2>6. y + v \in Nat /\ y + v >= z /\ (p <= m => y + v > z)
    BY <2>4, <2>5
  <2> QED BY <1>2, <2>1, <2>5, <2>6, SMTT(20) DEF z
<1>5. \A m \in 0..k : f[m] \in D[m]
  BY <1>3, <1>4, Stays
<1>6. k \in 0..k /\ p <= k
  OBVIOUS
<1> QED BY <1>1, <1>2, <1>5, <1>6

-----------------------------------------------------------------------------
(* u is s with x put in at place p.                                        *)
Inserted(u, s, p, x, n) ==
  \A i \in 1..(n + 1) : u[i] = IF i < p THEN s[i] ELSE IF i = p THEN x ELSE s[i - 1]

LEMMA InsertedAt ==
  ASSUME NEW R, NEW s \in Seq(R), NEW n \in Nat, Len(s) = n, NEW p \in 1..(n + 1), NEW x \in R
  PROVE  Inserted(InsertAt(s, p, x), s, p, x, n)
<1> DEFINE a == SubSeq(s, 1, p - 1)
           c == SubSeq(s, p, n)
           l == p - 1
           m == n + 1 - p
           ax == a \o <<x>>
           u == ax \o c
<1>1. a \in Seq(R) /\ Len(a) = l /\ l \in Nat /\ \A i \in 1..l : a[i] = s[i]
  BY SubSeqProperties
<1>2. c \in Seq(R) /\ m \in Nat /\ Len(c) = m /\ \A i \in 1..m : c[i] = s[p + i - 1]
  BY SubSeqProperties
<1>3. InsertAt(s, p, x) = u
  BY DEF InsertAt
<1> HIDE DEF a, c
<1>4. <<x>> \in Seq(R) /\ Len(<<x>>) = 1 /\ <<x>>[1] = x
  OBVIOUS
<1>5. ax \in Seq(R) /\ Len(ax) = l + 1 /\ ax[l + 1] = x /\ \A i \in 1..l : ax[i] = a[i]
  BY <1>1, <1>4
<1>6. p = l + 1 /\ n + 1 = p + m
  OBVIOUS
<1> HIDE DEF ax, m, l
<1>7. /\ u \in Seq(R) /\ Len(u) = p + m
      /\ \A i \in 1..p : u[i] = ax[i]
      /\ \A i \in (p + 1)..(p + m) : u[i] = c[i - p]
  <2>1. ax \in Seq(R) /\ c \in Seq(R) /\ Len(ax) = p /\ Len(c) = m
    BY <1>2, <1>5, <1>6
  <2>2. /\ u \in Seq(R) /\ Len(u) = Len(ax) + Len(c)
        /\ \A i \in 1..Len(ax) : u[i] = ax[i]
        /\ \A i \in (Len(ax) + 1)..(Len(ax) + Len(c)) : u[i] = c[i - Len(ax)]
    BY <2>1
  <2> HIDE DEF u
  <2> QED BY <2>1, <2>2
<1> HIDE DEF u
<1>8. ASSUME NEW i \in 1..(n + 1)
      PROVE  u[i] = IF i < p THEN s[i] ELSE IF i = p THEN x ELSE s[i - 1]
  <2>1. CASE i < p
    <3>1. i \in 1..p /\ i \in 1..l
      BY <1>1, <1>6, <2>1
    <3>2. u[i] = ax[i] /\ ax[i] = a[i] /\ a[i] = s[i]
      BY <1>1, <1>5, <1>7, <3>1
    <3> QED BY <2>1, <3>2
  <2>2. CASE i = p
    <3>1. i \in 1..p /\ ~(i < p)
      BY <2>2
    <3>2. u[i] = ax[i] /\ ax[i] = x
      BY <1>5, <1>6, <1>7, <2>2, <3>1
    <3> QED BY <2>2, <3>1, <3>2
  <2>3. CASE i > p
    <3>1. i \in (p + 1)..(p + m) /\ i - p \in 1..m /\ p + (i - p) - 1 = i - 1 /\ ~(i < p) /\ i # p
      BY <1>2, <1>6, <2>3
    <3>2. u[i] = c[i - p] /\ c[i - p] = s[p + (i - p) - 1]
      BY <1>2, <1>7, <3>1
    <3> QED BY <3>1, <3>2
  <2> QED BY <2>1, <2>2, <2>3
<1> QED BY <1>3, <1>8 DEF Inserted

(* A set of the first numbers.                                             *)
LEMMA FirstNumbers ==
  ASSUME NEW n \in Nat, NEW B, B \subseteq 1..n, \A k \in B : \A j \in 1..n : j < k => j \in B
  PROVE  Cardinality(B) \in 0..n /\ B = 1..Cardinality(B)
<1> DEFINE T == {x \in Nat : x >= 1 /\ x \notin B}
<1>1. T \subseteq Nat /\ n + 1 \in T
  OBVIOUS
<1>2. PICK t \in T : \A x \in T : ~(x < t)
  BY <1>1, LeastNumber
<1>3. t \in 1..(n + 1) /\ t \notin B
  BY <1>1, <1>2
<1>4. B = 1..(t - 1)
  <2>1. ASSUME NEW x \in B PROVE x < t
    <3>1. x \in 1..n
      OBVIOUS
    <3> QED BY <1>3, <3>1
  <2>2. ASSUME NEW x \in 1..(t - 1) PROVE x \in B
    <3>1. x \in Nat /\ x >= 1 /\ x < t
      BY <1>3
    <3> QED BY <1>2, <3>1
  <2>3. \A x \in B : x \in 1..(t - 1)
    BY <1>3, <2>1
  <2> QED BY <2>2, <2>3
<1>5. Cardinality(1..(t - 1)) = t - 1
  <2>1. t - 1 \in Int /\ 1 \in Int /\ t - 1 >= 0
    BY <1>3
  <2>2. Cardinality(1..(t - 1)) = IF 1 > t - 1 THEN 0 ELSE (t - 1) - 1 + 1
    BY <2>1, FS_Interval
  <2> QED BY <2>1, <2>2
<1> QED BY <1>3, <1>4, <1>5

(* Sorted by an order in which what is not comparable is equivalent.       *)
Sorts(before, n) ==
  /\ \A a, b \in 1..n : <<a, b>> \in before => <<b, a>> \notin before
  /\ \A a, b, c \in 1..n : <<a, b>> \notin before /\ <<b, c>> \notin before
                             => <<a, c>> \notin before
InOrder(o, n, before) == \A i, j \in 1..n : i < j => <<o[j], o[i]>> \notin before

LEMMA PutInOrders ==
  ASSUME NEW n \in Nat, NEW before, Sorts(before, n + 1),
         NEW s, Lists(s, 1..n), InOrder(s, n, before)
  PROVE  InOrder(PutIn(s, n + 1, before), n + 1, before)
<1> DEFINE B == {k \in DOMAIN s : <<n + 1, s[k]>> \notin before}
           c == Cardinality(B)
           u == PutIn(s, n + 1, before)
<1>1. DOMAIN s = 1..n /\ Len(s) = n /\ s \in [1..n -> 1..n] /\ s \in Seq(1..n)
  BY ListsFacts, ListsLength
<1>2. B \subseteq 1..n
  BY <1>1
<1>3. \A k \in B : \A j \in 1..n : j < k => j \in B
  <2> SUFFICES ASSUME NEW k \in B, NEW j \in 1..n, j < k PROVE j \in B
    OBVIOUS
  <2>1. k \in 1..n /\ <<n + 1, s[k]>> \notin before
    BY <1>1
  <2>2. <<s[k], s[j]>> \notin before
    BY <2>1 DEF InOrder
  <2>3. s[k] \in 1..(n + 1) /\ s[j] \in 1..(n + 1) /\ n + 1 \in 1..(n + 1)
    BY <1>1, <2>1, SMTT(20)
  <2>4. <<n + 1, s[j]>> \notin before
    BY <2>1, <2>2, <2>3 DEF Sorts
  <2> QED BY <1>1, <2>4
<1>4. u = InsertAt(s, 1 + c, n + 1)
  BY DEF PutIn
<1>5. \A k \in 1..n : k \in B <=> <<n + 1, s[k]>> \notin before
  BY <1>1
<1> HIDE DEF B
<1>6. c \in 0..n /\ B = 1..c
  BY <1>2, <1>3, FirstNumbers
<1> HIDE DEF c, u
<1> DEFINE p == 1 + c
<1>7. p \in 1..(n + 1) /\ s \in Seq(1..(n + 1)) /\ n + 1 \in 1..(n + 1)
  BY <1>1, <1>6
<1>8. \A i \in 1..(n + 1) : u[i] = IF i < p THEN s[i] ELSE IF i = p THEN n + 1 ELSE s[i - 1]
  <2> DEFINE x == n + 1
             R == 1..(n + 1)
  <2>1. s \in Seq(R) /\ x \in R /\ u = InsertAt(s, p, x) /\ p \in 1..(n + 1) /\ Len(s) = n
    BY <1>1, <1>4, <1>7
  <2> HIDE DEF x, R, p
  <2>2. Inserted(u, s, p, x, n)
    BY <2>1, InsertedAt
  <2> QED BY <2>2 DEF Inserted, x
<1> SUFFICES ASSUME NEW i \in 1..(n + 1), NEW j \in 1..(n + 1), i < j
             PROVE  <<u[j], u[i]>> \notin before
  BY DEF InOrder, u
<1>9. p \in Nat
  BY <1>7
<1>10. \A x, y \in 1..n : x < y => <<s[y], s[x]>> \notin before
  BY DEF InOrder
<1> HIDE DEF p
<1>11. CASE j < p
  <2>1. i \in 1..n /\ j \in 1..n /\ i < p
    BY <1>7, <1>9, <1>11
  <2> QED BY <1>8, <1>10, <1>11, <2>1
<1>12. CASE j = p
  <2>1. i \in 1..c /\ i \in 1..n /\ i < p
    BY <1>6, <1>12 DEF p
  <2>2. u[j] = n + 1 /\ u[i] = s[i]
    BY <1>8, <1>12, <2>1
  <2> QED BY <1>5, <1>6, <2>1, <2>2
<1>13. CASE j > p
  <2>1. j - 1 \in 1..n /\ j - 1 >= p /\ ~(j < p) /\ j # p
    BY <1>7, <1>9, <1>13
  <2>2. u[j] = s[j - 1]
    BY <1>8, <2>1
  <2>3. CASE i < p
    <3>1. i \in 1..n /\ i < j - 1 /\ u[i] = s[i]
      BY <1>7, <1>8, <1>9, <2>1, <2>3
    <3> QED BY <1>10, <2>1, <2>2, <3>1
  <2>4. CASE i = p
    <3>1. u[i] = n + 1
      BY <1>8, <2>4
    <3>2. j - 1 \notin 1..c
      BY <1>6, <2>1 DEF p
    <3>3. <<n + 1, s[j - 1]>> \in before
      BY <1>5, <1>6, <2>1, <3>2
    <3>4. s[j - 1] \in 1..(n + 1)
      BY <1>1, <2>1
    <3>5. <<s[j - 1], n + 1>> \notin before
      BY <1>7, <3>3, <3>4 DEF Sorts
    <3> QED BY <2>2, <3>1, <3>5
  <2>5. CASE i > p
    <3>1. i - 1 \in 1..n /\ i - 1 < j - 1 /\ ~(i < p) /\ i # p
      BY <1>7, <1>9, <2>5
    <3>2. u[i] = s[i - 1]
      BY <1>8, <3>1
    <3> QED BY <1>10, <2>1, <2>2, <3>1, <3>2
  <2> QED BY <1>9, <2>3, <2>4, <2>5
<1> QED BY <1>9, <1>11, <1>12, <1>13

(* The insertions sort.                                                    *)
LEMMA ArrangementOrders ==
  ASSUME NEW n \in Nat, NEW before, Sorts(before, n)
  PROVE  InOrder(Arrangement(n, before), n, before)
<1> DEFINE D == [k \in 0..n |-> {s \in Seq(Nat) : Lists(s, 1..k) /\ InOrder(s, k, before)}]
<1>1. \A k \in 0..n : D[k] = {s \in Seq(Nat) : Lists(s, 1..k) /\ InOrder(s, k, before)}
  OBVIOUS
<1>2. << >> \in D[0]
  <2>1. 1..0 = {}
    OBVIOUS
  <2>2. Lists(<< >>, 1..0)
    BY <2>1, ListsEmpty
  <2>3. InOrder(<< >>, 0, before)
    BY <2>1 DEF InOrder
  <2> QED BY <2>2, <2>3
<1> HIDE DEF D
<1>3. ASSUME NEW k \in 1..n, NEW s \in D[k - 1]
      PROVE  PutIn(s, k, before) \in D[k]
  <2> DEFINE j == k - 1
  <2>1. j \in Nat /\ k = j + 1 /\ j \in 0..n /\ k \in 0..n
    OBVIOUS
  <2>2. s \in D[j]
    OBVIOUS
  <2>3. Sorts(before, j + 1)
    <3>1. \A a \in 1..(j + 1) : a \in 1..n
      OBVIOUS
    <3> HIDE DEF j
    <3> QED BY <3>1 DEF Sorts
  <2> HIDE DEF j
  <2>4. Lists(s, 1..j) /\ InOrder(s, j, before)
    BY <1>1, <2>1, <2>2
  <2>5. Lists(PutIn(s, k, before), 1..k)
    BY <2>1, <2>4, PutInLists
  <2>6. InOrder(PutIn(s, k, before), k, before)
    BY <2>1, <2>3, <2>4, PutInOrders
  <2>7. PutIn(s, k, before) \in Seq(1..k)
    BY <2>5 DEF Lists
  <2>8. PutIn(s, k, before) \in Seq(Nat)
    BY <2>7
  <2> QED BY <1>1, <2>1, <2>5, <2>6, <2>8
<1>4. Arrangement(n, before) \in D[n]
  BY <1>2, <1>3, ArrangementTaken
<1> QED BY <1>1, <1>4

-----------------------------------------------------------------------------
(* The order of groups                                                     *)
LEMMA HeavierOrder ==
  ASSUME NEW a \in Groups, NEW b \in Groups, NEW c \in Groups
  PROVE  /\ Heavier(a, b) => ~Heavier(b, a)
         /\ ~Heavier(a, b) /\ ~Heavier(b, c) => ~Heavier(a, c)
         /\ ~Heavier(a, b) => a.sum <= b.sum
<1>1. \A g \in Groups : /\ g.sum \in Int /\ Len(g.rows) \in Nat
                        /\ g.rows # << >> <=> Len(g.rows) # 0
                        /\ g.rows # << >> => g.rows[1] \in Int
  <2> SUFFICES ASSUME NEW g \in Groups
               PROVE  /\ g.sum \in Int /\ Len(g.rows) \in Nat
                      /\ g.rows # << >> <=> Len(g.rows) # 0
                      /\ g.rows # << >> => g.rows[1] \in Int
    OBVIOUS
  <2>1. g.sum \in Int /\ g.rows \in Seq(Nat)
    BY DEF Groups
  <2> DEFINE rows == g.rows
  <2>2. rows \in Seq(Nat)
    BY <2>1
  <2> HIDE DEF rows
  <2>3. Len(rows) \in Nat /\ (rows # << >> <=> Len(rows) # 0) /\ (rows # << >> => rows[1] \in Int)
    BY <2>2
  <2> QED BY <2>1, <2>3 DEF rows
<1>2. ~Heavier(a, b) => a.sum <= b.sum
  BY <1>1 DEF Heavier
<1>3. Heavier(a, b) => ~Heavier(b, a)
  BY <1>1 DEF Heavier
<1>4. ~Heavier(a, b) /\ ~Heavier(b, c) => ~Heavier(a, c)
  BY <1>1 DEF Heavier
<1> QED BY <1>2, <1>3, <1>4

Descending(s, k) == \A i, j \in 1..k : i < j => s[j].sum <= s[i].sum

LEMMA OrderedDescends ==
  ASSUME NEW k \in Nat, NEW s, s \in [1..k -> Groups]
  PROVE  \E p : Lists(p, 1..k) /\ Ordered(s) = Reordered(s, p) /\ Descending(Ordered(s), k)
<1> DEFINE before == {p \in (1..k) \X (1..k) : Heavier(s[p[1]], s[p[2]])}
           o == Arrangement(k, before)
<1>1. Len(s) = k /\ DOMAIN s = 1..k
  OBVIOUS
<1>2. Ordered(s) = Reordered(s, o)
  BY <1>1 DEF Ordered
<1>3. Lists(o, 1..k)
  BY ArrangementLists
<1>4. \A a, b \in 1..k : <<a, b>> \in before <=> Heavier(s[a], s[b])
  OBVIOUS
<1> HIDE DEF before
<1>5. \A a \in 1..k : s[a] \in Groups
  OBVIOUS
<1>6. Sorts(before, k)
  <2>1. ASSUME NEW a \in 1..k, NEW b \in 1..k, <<a, b>> \in before
        PROVE  <<b, a>> \notin before
    BY <1>4, <1>5, <2>1, HeavierOrder
  <2>2. ASSUME NEW a \in 1..k, NEW b \in 1..k, NEW c \in 1..k,
               <<a, b>> \notin before, <<b, c>> \notin before
        PROVE  <<a, c>> \notin before
    BY <1>4, <1>5, <2>2, HeavierOrder
  <2> QED BY <2>1, <2>2 DEF Sorts
<1>7. InOrder(o, k, before)
  BY <1>6, ArrangementOrders
<1> HIDE DEF o
<1>8. o \in [1..k -> 1..k] /\ DOMAIN o = 1..k
  BY <1>3, ListsFacts, ListsLength
<1> DEFINE t == Reordered(s, o)
<1>9. \A i \in 1..k : t[i] = s[o[i]]
  BY <1>8 DEF Reordered
<1> HIDE DEF t
<1>10. Descending(t, k)
  <2> SUFFICES ASSUME NEW i \in 1..k, NEW j \in 1..k, i < j
               PROVE  t[j].sum <= t[i].sum
    BY DEF Descending
  <2>1. <<o[j], o[i]>> \notin before /\ o[i] \in 1..k /\ o[j] \in 1..k
    BY <1>7, <1>8 DEF InOrder
  <2>2. ~Heavier(s[o[j]], s[o[i]]) /\ s[o[j]] \in Groups /\ s[o[i]] \in Groups
    BY <1>4, <1>5, <2>1
  <2>3. s[o[j]].sum <= s[o[i]].sum
    BY <2>2, HeavierOrder
  <2> QED BY <1>9, <2>3
<1> QED BY <1>2, <1>3, <1>10 DEF t

LEMMA FieldsOfGroup ==
  ASSUME NEW g, NEW n, NEW rows, g = [sum |-> n, rows |-> rows]
  PROVE  /\ g.sum = n
         /\ g.rows = rows
         /\ n \in Int /\ rows \in Seq(Nat) => g \in Groups
<1>1. g.sum = n /\ g.rows = rows
  OBVIOUS
<1>2. n \in Int /\ rows \in Seq(Nat) => g \in Groups
  BY DEF Groups
<1> QED BY <1>1, <1>2

(* A merge puts a group of each state together, the first of one with the  *)
(* last of the other.                                                      *)
Paired(u, s, t, k) ==
  \A i \in 1..k : /\ u[i].sum = s[i].sum + t[k + 1 - i].sum
                  /\ u[i].rows = s[i].rows \o t[k + 1 - i].rows

LEMMA MergedPairs ==
  ASSUME NEW k \in Nat, NEW s \in [1..k -> Groups], NEW t \in [1..k -> Groups]
  PROVE  \E u, p :
           /\ u \in [1..k -> Groups] /\ Paired(u, s, t, k) /\ Lists(p, 1..k)
           /\ MergedStates(s, t) = Reordered(u, p)
           /\ Descending(MergedStates(s, t), k)
<1> DEFINE back(i) == k + 1 - i
           u == [i \in 1..k |-> [sum |-> s[i].sum + t[back(i)].sum,
                                 rows |-> s[i].rows \o t[back(i)].rows]]
<1>1. Len(s) = k /\ DOMAIN s = 1..k
  OBVIOUS
<1>2. MergedStates(s, t) = Ordered(u)
  BY <1>1 DEF MergedStates
<1>3. \A i \in 1..k : back(i) \in 1..k
  OBVIOUS
<1>4. \A i \in 1..k : u[i] = [sum |-> s[i].sum + t[back(i)].sum,
                              rows |-> s[i].rows \o t[back(i)].rows]
  OBVIOUS
<1>5. u = [i \in 1..k |-> u[i]]
  OBVIOUS
<1> HIDE DEF u
<1>6. Paired(u, s, t, k)
  <2>1. ASSUME NEW i \in 1..k
        PROVE  /\ u[i].sum = s[i].sum + t[k + 1 - i].sum
               /\ u[i].rows = s[i].rows \o t[k + 1 - i].rows
    <3> DEFINE x == s[i].sum + t[k + 1 - i].sum
               y == s[i].rows \o t[k + 1 - i].rows
    <3>1. u[i] = [sum |-> x, rows |-> y]
      BY <1>4
    <3> HIDE DEF x, y
    <3>2. u[i].sum = x /\ u[i].rows = y
      BY <3>1, FieldsOfGroup
    <3> QED BY <3>2 DEF x, y
  <2> QED BY <2>1 DEF Paired
<1>7. ASSUME NEW i \in 1..k PROVE u[i] \in Groups
  <2> DEFINE a == s[i]
             b == t[back(i)]
             x == a.sum + b.sum
             y == a.rows \o b.rows
  <2>1. a \in Groups /\ b \in Groups
    BY <1>3
  <2>2. u[i] = [sum |-> x, rows |-> y]
    BY <1>4
  <2> HIDE DEF a, b
  <2>3. x \in Int /\ y \in Seq(Nat)
    BY <2>1 DEF Groups
  <2> HIDE DEF x, y
  <2> QED BY <2>2, <2>3, FieldsOfGroup
<1>8. u \in [1..k -> Groups]
  BY <1>5, <1>7
<1> QED BY <1>2, <1>6, <1>8, OrderedDescends

-----------------------------------------------------------------------------
(* What a merge keeps, the last state has.                                 *)
LEMMA DifferencedIn ==
  ASSUME NEW C, \A s, t \in C : MergedStates(s, t) \in C,
         NEW n \in Nat, n >= 1, NEW q \in [1..n -> C]
  PROVE  Differenced(q) \in C
<1> DEFINE l == n - 1
           D == [j \in 0..l |-> [1..(n - j) -> C]]
<1>1. l \in Nat /\ Len(q) = l + 1 /\ n - l = 1
  OBVIOUS
<1>2. \A j \in 0..l : D[j] = [1..(n - j) -> C]
  OBVIOUS
<1> HIDE DEF D
<1>3. q \in D[0]
  <2>1. 0 \in 0..l /\ n - 0 = n
    BY <1>1
  <2> QED BY <1>2, <2>1
<1>4. ASSUME NEW j \in 1..l, NEW s \in D[j - 1]
      PROVE  MergeTwo(Popped(s)) \in D[j]
  <2> DEFINE m == n - j
             o == m + 1
             t == Popped(s)
             rest == SubSeq(t, 3, o)
             w == MergedStates(t[1], t[2])
             u == Append(rest, w)
  <2>1. m \in Nat /\ m >= 1 /\ o \in Nat /\ n - (j - 1) = o /\ j - 1 \in 0..l /\ j \in 0..l
    BY <1>1
  <2>2. s \in [1..o -> C] /\ Len(s) = o
    BY <1>2, <2>1
  <2> HIDE DEF o
  <2>3. PICK p : Lists(p, 1..o) /\ t = Reordered(s, p)
    BY <2>1, <2>2, ArrangementLists DEF Popped
  <2>4. p \in [1..o -> 1..o] /\ DOMAIN p = 1..o
    BY <2>1, <2>3, ListsFacts, ListsLength
  <2> HIDE DEF t
  <2>5. t \in [1..o -> C]
    <3>1. \A i \in 1..o : s[p[i]] \in C
      BY <2>2, <2>4
    <3>2. t = [i \in 1..o |-> s[p[i]]]
      BY <2>3, <2>4 DEF Reordered
    <3> QED BY <3>1, <3>2
  <2>6. t \in Seq(C) /\ Len(t) = o /\ o = m + 1 /\ o >= 2
    BY <2>1, <2>5 DEF o
  <2>7. w \in C
    <3>1. 1 \in 1..o /\ 2 \in 1..o
      BY <2>1, <2>6
    <3> QED BY <2>5, <3>1
  <2> HIDE DEF m, w
  <2>8. rest \in Seq(C) /\ Len(rest) = m - 1
    BY <2>1, <2>6, SubSeqProperties
  <2>9. u \in Seq(C) /\ Len(u) = m
    BY <2>1, <2>7, <2>8, AppendProperties
  <2>10. MergeTwo(t) = u
    BY <2>6 DEF MergeTwo, w
  <2> HIDE DEF u
  <2>11. u \in [1..m -> C]
    BY <2>9, SeqIsFunction
  <2> QED BY <1>2, <2>1, <2>10, <2>11 DEF t, m
<1> HIDE DEF l
<1>5. PICK s \in D[l] : Differenced(q) = s[1]
  BY <1>1, <1>3, <1>4, DifferencedTaken
<1>6. s \in [1..1 -> C] /\ 1 \in 1..1
  <2>1. l \in 0..l
    BY <1>1
  <2>2. D[l] = [1..(n - l) -> C]
    BY <1>2, <2>1
  <2> QED BY <1>1, <2>2
<1> QED BY <1>5, <1>6

-----------------------------------------------------------------------------
(* A group of rows of 1..n with its sum; a weight found in it, or none.    *)
Counted(g, n, w) == g \in Groups /\ g.rows \in Seq(1..n) /\ g.sum = SumOver(g.rows, w)
Weighed(g, m, w) == m = 0 \/ \E x \in 1..Len(g.rows) : m = w[g.rows[x]]
Near(a, b, w) == \E m \in Nat : Weighed(a, m, w) /\ a.sum - m <= b.sum

LEMMA CountedFacts ==
  ASSUME NEW n \in Nat, NEW w \in [1..n -> Nat], \A x \in 1..n : w[x] >= 1,
         NEW g, Counted(g, n, w)
  PROVE  /\ g.sum \in Nat /\ Len(g.rows) \in Nat /\ g.rows \in Seq(1..n)
         /\ g.rows = << >> <=> Len(g.rows) = 0
         /\ g.sum = 0 <=> Len(g.rows) = 0
<1> DEFINE rows == g.rows
           sum == g.sum
           v == Weights(rows, w)
<1>1. rows \in Seq(1..n) /\ sum = SumOver(rows, w)
  BY DEF Counted
<1> HIDE DEF rows, sum
<1>2. Len(rows) \in Nat /\ (rows = << >> <=> Len(rows) = 0)
  BY <1>1
<1>3. /\ v \in Seq(Nat) /\ Len(v) = Len(rows) /\ sum = Total(v) /\ sum \in Nat
      /\ \A i \in 1..Len(rows) : v[i] = w[rows[i]]
  <2>1. /\ Weights(rows, w) \in Seq(Nat) /\ Len(Weights(rows, w)) = Len(rows)
        /\ \A i \in 1..Len(rows) : Weights(rows, w)[i] = w[rows[i]]
        /\ SumOver(rows, w) = Total(Weights(rows, w))
        /\ SumOver(rows, w) \in Nat
    BY <1>1, WeightsFacts
  <2> QED BY <1>1, <2>1
<1> HIDE DEF v
<1>4. CASE Len(rows) = 0
  <2>1. rows = << >>
    BY <1>2, <1>4
  <2>2. sum = 0
    BY <1>1, <2>1, SumEmpty
  <2> QED BY <1>1, <1>2, <1>3, <1>4, <2>2 DEF rows, sum
<1>5. CASE Len(rows) # 0
  <2>1. Len(rows) >= 1
    BY <1>2, <1>5
  <2>2. \A i \in 1..Len(rows) : rows[i] \in 1..n
    BY <1>1
  <2>3. \A i \in 1..Len(v) : v[i] >= 1
    BY <1>3, <2>2
  <2>4. Total(v) >= 1
    BY <1>2, <1>3, <2>1, <2>3, TotalPositive
  <2> QED BY <1>1, <1>2, <1>3, <1>5, <2>4 DEF rows, sum
<1> QED BY <1>4, <1>5

LEMMA CountedPair ==
  ASSUME NEW n \in Nat, NEW w \in [1..n -> Nat],
         NEW a, Counted(a, n, w), NEW b, Counted(b, n, w), NEW g \in Groups,
         g.sum = a.sum + b.sum, g.rows = a.rows \o b.rows
  PROVE  /\ Counted(g, n, w)
         /\ Len(g.rows) = Len(a.rows) + Len(b.rows)
         /\ \A m : Weighed(a, m, w) \/ Weighed(b, m, w) => Weighed(g, m, w)
<1> DEFINE s == a.rows
           t == b.rows
           u == g.rows
<1>1. s \in Seq(1..n) /\ t \in Seq(1..n) /\ u = s \o t
  BY DEF Counted
<1>2. a.sum = SumOver(s, w) /\ b.sum = SumOver(t, w)
  BY DEF Counted
<1> HIDE DEF s, t, u
<1>3. /\ u \in Seq(1..n) /\ Len(u) = Len(s) + Len(t) /\ Len(s) \in Nat /\ Len(t) \in Nat
      /\ \A x \in 1..Len(s) : x \in 1..Len(u) /\ u[x] = s[x]
      /\ \A x \in 1..Len(t) : Len(s) + x \in 1..Len(u) /\ u[Len(s) + x] = t[x]
  <2>1. u \in Seq(1..n) /\ Len(u) = Len(s) + Len(t) /\ Len(s) \in Nat /\ Len(t) \in Nat
    BY <1>1
  <2>2. \A x \in 1..Len(s) : u[x] = s[x]
    BY <1>1
  <2>3. ASSUME NEW x \in 1..Len(t) PROVE u[Len(s) + x] = t[x]
    <3>1. Len(s) + x \in 1..(Len(s) + Len(t)) /\ Len(s) + x > Len(s) /\ (Len(s) + x) - Len(s) = x
      BY <2>1, SMTT(20)
    <3> QED BY <1>1, <3>1
  <2> QED BY <2>1, <2>2, <2>3
<1>4. SumOver(u, w) = SumOver(s, w) + SumOver(t, w)
  BY <1>1, SumConcat
<1>5. Counted(g, n, w)
  BY <1>2, <1>3, <1>4 DEF Counted, u
<1>6. ASSUME NEW m, Weighed(a, m, w) PROVE Weighed(g, m, w)
  <2>1. m = 0 \/ \E x \in 1..Len(s) : m = w[s[x]]
    BY <1>6 DEF Weighed, s
  <2>2. m = 0 \/ \E x \in 1..Len(u) : m = w[u[x]]
    BY <1>3, <2>1
  <2> QED BY <2>2 DEF Weighed, u
<1>7. ASSUME NEW m, Weighed(b, m, w) PROVE Weighed(g, m, w)
  <2>1. m = 0 \/ \E x \in 1..Len(t) : m = w[t[x]]
    BY <1>7 DEF Weighed, t
  <2>2. m = 0 \/ \E x \in 1..Len(u) : m = w[u[x]]
    <3>1. CASE m = 0
      BY <3>1
    <3>2. ASSUME NEW x \in 1..Len(t), m = w[t[x]] PROVE \E y \in 1..Len(u) : m = w[u[y]]
      <4>1. Len(s) + x \in 1..Len(u) /\ u[Len(s) + x] = t[x]
        BY <1>3
      <4> QED BY <3>2, <4>1
    <3> QED BY <2>1, <3>1, <3>2
  <2> QED BY <2>2 DEF Weighed, u
<1>8. Len(u) = Len(s) + Len(t)
  BY <1>3
<1> QED BY <1>5, <1>6, <1>7, <1>8 DEF s, t, u

-----------------------------------------------------------------------------
(* What karmarkar_karp keeps when every row begins in a state of its own:  *)
(* a group exceeds another by at most one of its rows, and a group is      *)
(* empty only if none has two rows.                                        *)
Sparse(s, k) ==
  (\E j \in 1..k : Len(s[j].rows) = 0) => \A i \in 1..k : Len(s[i].rows) <= 1
Close(s, k, n, w) ==
  /\ \A i \in 1..k : Counted(s[i], n, w)
  /\ \A i, j \in 1..k : Near(s[i], s[j], w)
  /\ Sparse(s, k)

LEMMA PairClose ==
  ASSUME NEW n \in Nat, NEW w \in [1..n -> Nat], \A x \in 1..n : w[x] >= 1, NEW k \in Nat,
         NEW s, Close(s, k, n, w), Descending(s, k),
         NEW t, Close(t, k, n, w), Descending(t, k),
         NEW u \in [1..k -> Groups], Paired(u, s, t, k)
  PROVE  Close(u, k, n, w)
<1> DEFINE back(i) == k + 1 - i
           c(x, i) == Len(x[i].rows)
<1>1. /\ \A i \in 1..k : back(i) \in 1..k
      /\ \A i, j \in 1..k : i < j => back(j) < back(i)
      /\ \A i, j \in 1..k : i > j => back(j) > back(i)
  OBVIOUS
<1>2. \A i \in 1..k : u[i].sum = s[i].sum + t[back(i)].sum
                      /\ u[i].rows = s[i].rows \o t[back(i)].rows
  BY DEF Paired
<1> HIDE DEF back
<1>3. \A i \in 1..k : Counted(s[i], n, w) /\ Counted(t[i], n, w)
  BY DEF Close
<1>4. ASSUME NEW i \in 1..k
      PROVE  /\ s[i].sum \in Nat /\ t[i].sum \in Nat /\ c(s, i) \in Nat /\ c(t, i) \in Nat
             /\ s[i].sum = 0 <=> c(s, i) = 0
             /\ t[i].sum = 0 <=> c(t, i) = 0
  <2>1. Counted(s[i], n, w) /\ Counted(t[i], n, w)
    BY <1>3
  <2>2. /\ s[i].sum \in Nat /\ Len(s[i].rows) \in Nat
        /\ s[i].sum = 0 <=> Len(s[i].rows) = 0
    BY <2>1, CountedFacts
  <2>3. /\ t[i].sum \in Nat /\ Len(t[i].rows) \in Nat
        /\ t[i].sum = 0 <=> Len(t[i].rows) = 0
    BY <2>1, CountedFacts
  <2> QED BY <2>2, <2>3
<1>5. ASSUME NEW i \in 1..k
      PROVE  /\ Counted(u[i], n, w)
             /\ c(u, i) = c(s, i) + c(t, back(i))
             /\ \A m : Weighed(s[i], m, w) \/ Weighed(t[back(i)], m, w) => Weighed(u[i], m, w)
  <2>1. Counted(s[i], n, w) /\ Counted(t[back(i)], n, w) /\ u[i] \in Groups
    BY <1>1, <1>3
  <2>2. u[i].sum = s[i].sum + t[back(i)].sum /\ u[i].rows = s[i].rows \o t[back(i)].rows
    BY <1>2
  <2> QED BY <2>1, <2>2, CountedPair
<1> HIDE DEF c
<1>6. \A i, j \in 1..k : i < j => s[j].sum <= s[i].sum /\ t[j].sum <= t[i].sum
  BY DEF Descending
<1>7. ASSUME NEW i \in 1..k, NEW j \in 1..k PROVE Near(u[i], u[j], w)
  <2> DEFINE a == s[i].sum
             b == s[j].sum
             d == t[back(i)].sum
             e == t[back(j)].sum
  <2>1. a \in Nat /\ b \in Nat /\ d \in Nat /\ e \in Nat
    BY <1>1, <1>4
  <2>2. u[i].sum = a + d /\ u[j].sum = b + e
    BY <1>2
  <2>3. i < j => d <= e
    BY <1>1, <1>6
  <2>4. i > j => a <= b
    BY <1>6
  <2>5. i = j => a = b /\ d = e
    OBVIOUS
  <2>6. PICK m \in Nat : Weighed(s[i], m, w) /\ a - m <= b
    BY DEF Close, Near
  <2>7. PICK o \in Nat : Weighed(t[back(i)], o, w) /\ d - o <= e
    BY <1>1 DEF Close, Near
  <2> HIDE DEF a, b, d, e
  <2>8. CASE i < j
    <3>1. (a + d) - m <= b + e
      BY <2>1, <2>3, <2>6, <2>8
    <3>2. Weighed(u[i], m, w)
      BY <1>5, <2>6
    <3>3. u[i].sum - m <= u[j].sum
      BY <2>2, <3>1
    <3> QED BY <3>2, <3>3 DEF Near
  <2>9. CASE i > j
    <3>1. (a + d) - o <= b + e
      BY <2>1, <2>4, <2>7, <2>9
    <3>2. Weighed(u[i], o, w)
      BY <1>5, <2>7
    <3>3. u[i].sum - o <= u[j].sum
      BY <2>2, <3>1
    <3> QED BY <3>2, <3>3 DEF Near
  <2>10. CASE i = j
    <3>1. (a + d) - 0 <= b + e /\ 0 \in Nat
      BY <2>1, <2>5, <2>10
    <3>2. Weighed(u[i], 0, w)
      BY DEF Weighed
    <3>3. u[i].sum - 0 <= u[j].sum
      BY <2>2, <3>1
    <3> QED BY <3>1, <3>2, <3>3 DEF Near
  <2> QED BY <2>8, <2>9, <2>10
<1>8. Sparse(u, k)
  <2> SUFFICES ASSUME NEW j \in 1..k, c(u, j) = 0, NEW i \in 1..k PROVE c(u, i) <= 1
    BY DEF Sparse, c
  <2> DEFINE ib == back(i)
             jb == back(j)
  <2>1. ib \in 1..k /\ jb \in 1..k /\ (i < j => jb < ib) /\ (i > j => jb > ib)
    BY <1>1
  <2> HIDE DEF ib, jb
  <2>2. c(u, j) = c(s, j) + c(t, jb) /\ c(u, i) = c(s, i) + c(t, ib)
    BY <1>5 DEF ib, jb
  <2>3. /\ c(s, i) \in Nat /\ c(s, j) \in Nat /\ c(t, ib) \in Nat /\ c(t, jb) \in Nat
        /\ s[i].sum \in Nat /\ t[ib].sum \in Nat
        /\ s[j].sum = 0 <=> c(s, j) = 0
        /\ s[i].sum = 0 <=> c(s, i) = 0
        /\ t[jb].sum = 0 <=> c(t, jb) = 0
        /\ t[ib].sum = 0 <=> c(t, ib) = 0
    BY <1>4, <2>1
  <2>4. c(s, j) = 0 /\ c(t, jb) = 0
    BY <2>2, <2>3
  <2>5. c(s, i) <= 1 /\ c(t, ib) <= 1
    BY <2>1, <2>4 DEF Close, Sparse, c
  <2>6. CASE i < j
    <3>1. t[ib].sum <= t[jb].sum
      BY <1>6, <2>1, <2>6
    <3>2. c(t, ib) = 0
      BY <2>3, <2>4, <3>1
    <3> QED BY <2>2, <2>3, <2>5, <3>2
  <2>7. CASE i > j
    <3>1. s[i].sum <= s[j].sum
      BY <1>6, <2>7
    <3>2. c(s, i) = 0
      BY <2>3, <2>4, <3>1
    <3> QED BY <2>2, <2>3, <2>5, <3>2
  <2>8. CASE i = j
    BY <2>8
  <2> QED BY <2>6, <2>7, <2>8
<1>9. \A i \in 1..k : Counted(u[i], n, w)
  BY <1>5
<1> QED BY <1>7, <1>8, <1>9 DEF Close

LEMMA CloseReordered ==
  ASSUME NEW n, NEW w, NEW k \in Nat, NEW s, Close(s, k, n, w), NEW p, Lists(p, 1..k)
  PROVE  Close(Reordered(s, p), k, n, w)
<1>1. p \in [1..k -> 1..k] /\ DOMAIN p = 1..k
  BY ListsFacts, ListsLength
<1> DEFINE t == Reordered(s, p)
<1>2. \A i \in 1..k : t[i] = s[p[i]] /\ p[i] \in 1..k
  BY <1>1 DEF Reordered
<1> HIDE DEF t
<1>3. \A i \in 1..k : Counted(t[i], n, w)
  BY <1>2 DEF Close
<1>4. \A i, j \in 1..k : Near(t[i], t[j], w)
  BY <1>2 DEF Close
<1>5. Sparse(t, k)
  BY <1>2 DEF Close, Sparse
<1> QED BY <1>3, <1>4, <1>5 DEF Close, t

(* The states of k groups that are close together, heaviest group first.   *)
CloseStates(k, n, w) ==
  {s \in [1..k -> Groups] : Close(s, k, n, w) /\ Descending(s, k)}

LEMMA CloseMerged ==
  ASSUME NEW n \in Nat, NEW w \in [1..n -> Nat], \A x \in 1..n : w[x] >= 1, NEW k \in Nat,
         NEW s \in CloseStates(k, n, w), NEW t \in CloseStates(k, n, w)
  PROVE  MergedStates(s, t) \in CloseStates(k, n, w)
<1>1. /\ s \in [1..k -> Groups] /\ Close(s, k, n, w) /\ Descending(s, k)
      /\ t \in [1..k -> Groups] /\ Close(t, k, n, w) /\ Descending(t, k)
  BY DEF CloseStates
<1>2. PICK u, p :
           /\ u \in [1..k -> Groups] /\ Paired(u, s, t, k) /\ Lists(p, 1..k)
           /\ MergedStates(s, t) = Reordered(u, p)
           /\ Descending(MergedStates(s, t), k)
  BY <1>1, MergedPairs
<1>3. Close(u, k, n, w)
  BY <1>1, <1>2, PairClose
<1>4. Close(Reordered(u, p), k, n, w)
  BY <1>2, <1>3, CloseReordered
<1>5. Reordered(u, p) \in [1..k -> Groups]
  <2>1. p \in [1..k -> 1..k] /\ DOMAIN p = 1..k
    BY <1>2, ListsFacts, ListsLength
  <2>2. u \in [1..k -> Groups]
    BY <1>2
  <2> QED BY ONLY <2>1, <2>2 DEF Reordered
<1> QED BY <1>2, <1>4, <1>5 DEF CloseStates

-----------------------------------------------------------------------------
LEMMA FirstStatesClose ==
  ASSUME NEW k \in Nat, k >= 1, NEW n \in Nat, n >= 1, NEW lengths \in Seq(Nat),
         Len(lengths) = n, \A i \in 1..n : lengths[i] >= 1
  PROVE  FirstStates(lengths, k, FALSE) \in [1..n -> CloseStates(k, n, lengths)]
<1> DEFINE order == Arrangement(Len(lengths),
             {p \in (DOMAIN lengths) \X (DOMAIN lengths) : lengths[p[1]] < lengths[p[2]]})
           Alone(row) == [sum |-> lengths[row], rows |-> <<row>>]
           Empty == [sum |-> 0, rows |-> << >>]
           State(j) == [i \in 1..k |-> IF i = 1 THEN Alone(order[j]) ELSE Empty]
           q == [j \in 1..n |-> State(j)]
<1>1. lengths \in [1..n -> Nat] /\ \A i \in 1..n : lengths[i] \in Nat /\ lengths[i] >= 1
  OBVIOUS
<1>2. order \in [1..n -> 1..n]
  BY ArrangementLists, ListsFacts, ListsLength
<1>3. FirstStates(lengths, k, FALSE) = q
  BY DEF FirstStates
<1> HIDE DEF order
<1>4. Empty \in Groups /\ Empty.sum = 0 /\ Empty.rows = << >> /\ << >> \in Seq(1..n)
  <2>1. << >> \in Seq(Nat) /\ << >> \in Seq(1..n) /\ 0 \in Int
    OBVIOUS
  <2> QED BY <2>1, FieldsOfGroup
<1>5. Counted(Empty, n, lengths)
  <2>1. SumOver(<< >>, lengths) = 0
    BY SumEmpty
  <2> HIDE DEF Empty
  <2> QED BY <1>4, <2>1 DEF Counted
<1>6. ASSUME NEW row \in 1..n
      PROVE  /\ Alone(row) \in Groups /\ Alone(row).sum = lengths[row] /\ Alone(row).rows = <<row>>
             /\ Counted(Alone(row), n, lengths)
  <2>1. <<row>> \in Seq(Nat) /\ <<row>> \in Seq(1..n) /\ lengths[row] \in Int
    BY <1>1
  <2>2. Alone(row).sum = lengths[row] /\ Alone(row).rows = <<row>> /\ Alone(row) \in Groups
    BY <2>1, FieldsOfGroup
  <2>3. SumOver(<<row>>, lengths) = lengths[row]
    BY <1>1, SumOne
  <2> HIDE DEF Alone
  <2> QED BY <2>1, <2>2, <2>3 DEF Counted
<1> HIDE DEF Alone, Empty
<1>7. ASSUME NEW j \in 1..n PROVE State(j) \in CloseStates(k, n, lengths)
  <2> DEFINE s == State(j)
             row == order[j]
  <2>1. row \in 1..n /\ lengths[row] \in Nat
    BY <1>1, <1>2
  <2>2. 1 \in 1..k /\ s[1] = Alone(row) /\ \A i \in 1..k : i # 1 => s[i] = Empty
    OBVIOUS
  <2>3. s \in [1..k -> Groups]
    BY <1>4, <1>6, <2>1
  <2> HIDE DEF s, row
  <2>4. /\ s[1].sum = lengths[row] /\ s[1].rows = <<row>>
        /\ \A i \in 1..k : i # 1 => s[i].sum = 0 /\ s[i].rows = << >>
    BY <1>4, <1>6, <2>1, <2>2
  <2>5. \A i \in 1..k : Counted(s[i], n, lengths)
    BY <1>5, <1>6, <2>1, <2>2
  <2>6. ASSUME NEW i \in 1..k, NEW h \in 1..k PROVE Near(s[i], s[h], lengths)
    <3>0. s[h].sum \in Nat
      BY <2>1, <2>4
    <3>1. CASE i = 1
      <4>1. Len(s[1].rows) = 1 /\ s[1].rows[1] = row
        BY <2>4
      <4>2. Weighed(s[1], lengths[row], lengths)
        BY <4>1 DEF Weighed
      <4>3. s[1].sum - lengths[row] <= s[h].sum
        BY <2>1, <2>4, <3>0
      <4> QED BY <2>1, <3>1, <4>2, <4>3 DEF Near
    <3>2. CASE i # 1
      <4>1. Weighed(s[i], 0, lengths) /\ 0 \in Nat
        BY DEF Weighed
      <4>2. s[i].sum - 0 <= s[h].sum
        BY <2>4, <3>0, <3>2
      <4> QED BY <4>1, <4>2 DEF Near
    <3> QED BY <3>1, <3>2
  <2>7. Sparse(s, k)
    <3>1. ASSUME NEW i \in 1..k PROVE Len(s[i].rows) <= 1
      <4>1. s[i].rows = <<row>> \/ s[i].rows = << >>
        BY <2>4
      <4>2. CASE s[i].rows = <<row>>
        BY ONLY <4>2
      <4>3. CASE s[i].rows = << >>
        BY ONLY <4>3
      <4> QED BY <4>1, <4>2, <4>3
    <3> QED BY <3>1 DEF Sparse
  <2>8. Descending(s, k)
    <3>1. ASSUME NEW i \in 1..k, NEW h \in 1..k, i < h PROVE s[h].sum <= s[i].sum
      <4>1. s[h].sum = 0 /\ s[i].sum \in Nat
        BY <2>1, <2>4, <3>1
      <4> QED BY <4>1
    <3> QED BY <3>1 DEF Descending
  <2> QED BY <2>3, <2>5, <2>6, <2>7, <2>8 DEF Close, CloseStates, s
<1> HIDE DEF State
<1> QED BY <1>3, <1>7

LEMMA GroupsClose ==
  ASSUME NEW k \in Nat, k >= 1, NEW n \in Nat, n >= 1, NEW lengths \in Seq(Nat),
         Len(lengths) = n, \A i \in 1..n : lengths[i] >= 1
  PROVE  Differenced(FirstStates(lengths, k, FALSE)) \in CloseStates(k, n, lengths)
<1> DEFINE q == FirstStates(lengths, k, FALSE)
           C == CloseStates(k, n, lengths)
<1>1. q \in [1..n -> C]
  BY FirstStatesClose
<1>2. lengths \in [1..n -> Nat]
  OBVIOUS
<1>3. \A s, t \in C : MergedStates(s, t) \in C
  BY <1>2, CloseMerged
<1> HIDE DEF q, C
<1>4. Differenced(q) \in C
  BY <1>1, <1>3, DifferencedIn
<1> QED BY <1>4 DEF q, C

-----------------------------------------------------------------------------
LEMMA CountNumbers ==
  ASSUME NEW n \in Nat
  PROVE  /\ IsFiniteSet(1..n) /\ Cardinality(1..n) = n
         /\ \A x \in 1..n : IsFiniteSet((1..n) \ {x}) /\ Cardinality((1..n) \ {x}) = n - 1
<1>1. 1 \in Int /\ n \in Int
  OBVIOUS
<1>2. IsFiniteSet(1..n) /\ Cardinality(1..n) = n
  BY <1>1, FS_Interval
<1> QED BY <1>2, FS_RemoveElement

(* Rows dealt to no more groups than there are rows leave no group empty.  *)
LEMMA NoneEmpty ==
  ASSUME NEW n \in Nat, NEW k \in 1..n, NEW s, Sparse(s, k),
         NEW B, Deals(B, k, 1..n), \A i \in 1..k : Lists(s[i].rows, B[i])
  PROVE  \A i \in 1..k : Len(s[i].rows) \in Nat /\ Len(s[i].rows) >= 1
<1>1. \A i \in 1..k : /\ Len(s[i].rows) \in Nat
                      /\ Covers(s[i].rows, Len(s[i].rows), B[i])
  BY ListsFacts
<1> SUFFICES ASSUME NEW j \in 1..k, Len(s[j].rows) = 0 PROVE FALSE
  BY <1>1
<1>2. \A i \in 1..k : Len(s[i].rows) <= 1
  BY DEF Sparse
<1>3. ASSUME NEW i \in 1..k, NEW a \in B[i], NEW b \in B[i] PROVE a = b
  <2> DEFINE rows == s[i].rows
  <2>1. PICK x \in 1..Len(rows) : rows[x] = a
    BY <1>1 DEF Covers
  <2>2. PICK y \in 1..Len(rows) : rows[y] = b
    BY <1>1 DEF Covers
  <2>3. x = y
    BY <1>1, <1>2
  <2> QED BY <2>1, <2>2, <2>3
<1>4. B[j] = {}
  BY <1>1 DEF Covers
<1> DEFINE f == [a \in 1..n |-> CHOOSE i \in 1..k : a \in B[i]]
           T == (1..k) \ {j}
<1>5. ASSUME NEW a \in 1..n PROVE f[a] \in T /\ a \in B[f[a]]
  <2>1. \E i \in 1..k : a \in B[i]
    BY DEF Deals
  <2>2. f[a] \in 1..k /\ a \in B[f[a]]
    BY <2>1
  <2> QED BY <1>4, <2>2
<1>6. f \in [1..n -> T]
  BY <1>5
<1> HIDE DEF f, T
<1>7. IsFiniteSet(T) /\ IsFiniteSet(1..n) /\ Cardinality(T) < Cardinality(1..n)
  <2>1. k \in Nat /\ k - 1 < n
    OBVIOUS
  <2>2. IsFiniteSet(T) /\ Cardinality(T) = k - 1
    BY <2>1, CountNumbers DEF T
  <2>3. IsFiniteSet(1..n) /\ Cardinality(1..n) = n
    BY CountNumbers
  <2> QED BY <2>1, <2>2, <2>3
<1>8. PICK x, y \in 1..n : x # y /\ f[x] = f[y]
  BY <1>6, <1>7, FS_PigeonHole
<1>9. f[x] \in 1..k /\ x \in B[f[x]] /\ y \in B[f[x]]
  BY <1>5, <1>8 DEF T
<1> QED BY <1>3, <1>8, <1>9

(* As many groups as rows have one row each.                               *)
LEMMA OneEach ==
  ASSUME NEW n \in Nat, NEW s, NEW B, Deals(B, n, 1..n),
         \A i \in 1..n : Lists(s[i].rows, B[i]) /\ Len(s[i].rows) >= 1
  PROVE  \A i \in 1..n : Len(s[i].rows) = 1
<1>1. \A i \in 1..n : /\ Len(s[i].rows) \in Nat
                      /\ \A x \in 1..Len(s[i].rows) : s[i].rows[x] \in B[i]
                      /\ Differ(s[i].rows, Len(s[i].rows))
  BY ListsFacts
<1> SUFFICES ASSUME NEW p \in 1..n, Len(s[p].rows) # 1 PROVE FALSE
  OBVIOUS
<1>2. Len(s[p].rows) >= 2 /\ 1 \in 1..Len(s[p].rows) /\ 2 \in 1..Len(s[p].rows)
  <2> DEFINE m == Len(s[p].rows)
  <2>1. m \in Nat
    BY <1>1
  <2>2. m >= 1 /\ m # 1
    OBVIOUS
  <2> HIDE DEF m
  <2>3. m >= 2 /\ 1 \in 1..m /\ 2 \in 1..m
    BY <2>1, <2>2
  <2> QED BY <2>3 DEF m
<1> DEFINE f == [i \in 1..n |-> s[i].rows[1]]
           o == s[p].rows[2]
           T == (1..n) \ {o}
<1>3. \A i \in 1..n : f[i] = s[i].rows[1] /\ f[i] \in B[i] /\ B[i] \subseteq 1..n
  <2> SUFFICES ASSUME NEW i \in 1..n PROVE f[i] = s[i].rows[1] /\ f[i] \in B[i] /\ B[i] \subseteq 1..n
    OBVIOUS
  <2>1. 1 \in 1..Len(s[i].rows)
    BY <1>1
  <2> QED BY <1>1, <2>1 DEF Deals
<1>4. f = [i \in 1..n |-> f[i]]
  OBVIOUS
<1> HIDE DEF f
<1>5. o \in B[p] /\ o \in 1..n /\ o # f[p]
  BY <1>1, <1>2, <1>3 DEF Differ
<1> HIDE DEF o
<1>6. \A i, j \in 1..n : i # j => B[i] \cap B[j] = {}
  BY DEF Deals
<1>7. \A i \in 1..n : f[i] \in T
  BY <1>3, <1>5, <1>6
<1>8. f \in [1..n -> T]
  BY <1>4, <1>7
<1>9. IsFiniteSet(T) /\ IsFiniteSet(1..n) /\ Cardinality(T) < Cardinality(1..n)
  <2>1. IsFiniteSet(T) /\ Cardinality(T) = n - 1
    BY <1>5, CountNumbers
  <2>2. IsFiniteSet(1..n) /\ Cardinality(1..n) = n /\ n - 1 < n
    BY CountNumbers
  <2> QED BY <2>1, <2>2
<1> HIDE DEF T
<1>10. PICK x, y \in 1..n : x # y /\ f[x] = f[y]
  BY <1>8, <1>9, FS_PigeonHole
<1> QED BY <1>3, <1>6, <1>10

-----------------------------------------------------------------------------
(* All the rows, in whatever order, weigh what the weights add up to.      *)
LEMMA SumOfAll ==
  ASSUME NEW n \in Nat, NEW w \in Seq(Nat), Len(w) = n, NEW rows, Lists(rows, 1..n)
  PROVE  SumOver(rows, w) = Total(w)
<1> DEFINE all == [i \in 1..n |-> i]
           v == [i \in DOMAIN all |-> w[all[i]]]
<1>1. w \in [1..n -> Nat] /\ w = [i \in 1..n |-> w[i]]
  BY SeqIsFunction
<1>2. all \in [1..n -> 1..n] /\ Covers(all, n, 1..n) /\ Differ(all, n)
  BY DEF Covers, Differ
<1>3. DOMAIN all = 1..n /\ \A i \in 1..n : all[i] = i
  OBVIOUS
<1>4. v = w
  BY <1>1, <1>3
<1>5. SumOver(all, w) = Total(v)
  BY DEF SumOver
<1> HIDE DEF all, v
<1>6. Lists(all, 1..n)
  BY <1>2, ListsIntro
<1>7. SumOver(all, w) = SumOver(rows, w)
  BY <1>1, <1>6, SumListed
<1> QED BY <1>4, <1>5, <1>7

(* With as many groups as are needed no group exceeds the room by as much  *)
(* as its lightest row, or the rows would need more.                       *)
LEMMA NeededSuffice ==
  ASSUME NEW n \in Nat, n >= 1, NEW w \in Seq(Nat), Len(w) = n, \A i \in 1..n : w[i] >= 1,
         NEW room \in Nat, room >= 1, NEW k \in Nat, MicroBatchesNeeded(w, room) <= k
  PROVE  MicroBatchesNeeded(w, room) = n \/ Total(w) <= k * room
<1> DEFINE t == Total(w)
           y == t + room - 1
           q == y \div room
<1>1. t \in Nat
  BY TotalPositive
<1>2. MicroBatchesNeeded(w, room) = IF q < n THEN q ELSE n
  BY DEF MicroBatchesNeeded
<1> HIDE DEF t
<1>3. y \in Nat /\ room # 0
  BY <1>1
<1> HIDE DEF y
<1>4. q \in Nat /\ y % room \in 0..(room - 1) /\ q * room \in Nat /\ y = q * room + (y % room)
  BY <1>3, Division
<1> DEFINE z == q * room
           e == y % room
<1>5. z \in Nat /\ e \in 0..(room - 1) /\ y = z + e
  BY <1>4
<1>6. q <= k => z <= k * room /\ k * room \in Nat
  BY <1>4, Growing
<1> HIDE DEF z, e, q
<1>7. t <= z
  BY <1>1, <1>5 DEF y
<1>8. CASE q < n
  <2>1. q <= k
    BY <1>2, <1>8
  <2> QED BY <1>1, <1>5, <1>6, <1>7, <2>1 DEF t
<1>9. CASE ~(q < n)
  BY <1>2, <1>9
<1> QED BY <1>8, <1>9

LEMMA GroupBounded ==
  ASSUME NEW n \in Nat, n >= 1, NEW w \in Seq(Nat), Len(w) = n, \A i \in 1..n : w[i] >= 1,
         NEW room \in Nat, room >= 1, NEW k \in MicroBatchesNeeded(w, room)..n,
         NEW s \in CloseStates(k, n, w),
         NEW B, Deals(B, k, 1..n), \A i \in 1..k : Lists(s[i].rows, B[i]),
         NEW p \in 1..k
  PROVE  \E x \in 1..Len(s[p].rows) : s[p].sum < room + w[s[p].rows[x]]
<1> DEFINE need == MicroBatchesNeeded(w, room)
           rows == s[p].rows
           sum(j) == s[j].sum
<1>1. need \in 1..n
  BY NeededAtLeastOne
<1>2. k \in 1..n /\ k \in Nat /\ need <= k
  BY <1>1
<1>3. need = n \/ Total(w) <= k * room
  BY <1>2, NeededSuffice
<1> HIDE DEF need
<1>4. Close(s, k, n, w)
  BY DEF CloseStates
<1>5. \A i \in 1..k : Len(s[i].rows) \in Nat /\ Len(s[i].rows) >= 1
  BY <1>2, <1>4, NoneEmpty DEF Close
<1>6. w \in [1..n -> Nat]
  OBVIOUS
<1>7. \A i \in 1..k : Counted(s[i], n, w)
  BY <1>4 DEF Close
<1>8. \A i \in 1..k : sum(i) \in Nat /\ s[i].rows \in Seq(1..n) /\ sum(i) = SumOver(s[i].rows, w)
  <2>1. ASSUME NEW i \in 1..k
        PROVE  sum(i) \in Nat /\ s[i].rows \in Seq(1..n) /\ sum(i) = SumOver(s[i].rows, w)
    <3>1. Counted(s[i], n, w)
      BY <1>7
    <3>2. sum(i) \in Nat
      BY <1>6, <3>1, CountedFacts
    <3> QED BY <3>1, <3>2 DEF Counted
  <2> QED BY <2>1
<1>9. rows \in Seq(1..n) /\ Len(rows) \in Nat /\ Len(rows) >= 1 /\ 1 \in 1..Len(rows)
      /\ sum(p) = SumOver(rows, w)
  <2>1. rows \in Seq(1..n) /\ sum(p) = SumOver(rows, w)
    BY <1>8
  <2>2. Len(rows) \in Nat /\ Len(rows) >= 1
    BY <1>5
  <2> HIDE DEF rows
  <2>3. 1 \in 1..Len(rows)
    BY <2>2
  <2> QED BY <2>1, <2>2, <2>3
<1>10. \A j \in 1..k : Near(s[p], s[j], w)
  BY <1>4 DEF Close
<1> SUFFICES ASSUME \A x \in 1..Len(rows) : ~(sum(p) < room + w[rows[x]])
             PROVE  FALSE
  OBVIOUS
<1>11. \A x \in 1..Len(rows) : rows[x] \in 1..n /\ w[rows[x]] \in Nat /\ w[rows[x]] >= 1
  <2> HIDE DEF rows
  <2>1. \A x \in 1..Len(rows) : rows[x] \in 1..n
    BY ONLY <1>9
  <2> QED BY <1>6, <2>1
<1>12. CASE need = n
  <2>1. k = n
    BY <1>2, <1>12
  <2>2. Len(rows) = 1
    BY <1>5, <2>1, OneEach
  <2>3. rows = <<rows[1]>>
    BY <1>9, <2>2
  <2> HIDE DEF rows, sum
  <2>4. SumOver(<<rows[1]>>, w) = w[rows[1]]
    BY <1>6, <1>9, <1>11, SumOne
  <2>5. sum(p) = w[rows[1]]
    BY <1>9, <2>3, <2>4
  <2> QED BY <1>9, <1>11, <2>5
<1>13. CASE Total(w) <= k * room
  <2> DEFINE sums == [j \in 1..k |-> sum(j)]
             parts == [j \in 1..k |-> s[j].rows]
             all == Concatenated(parts)
  <2>1. sums \in Seq(Nat) /\ Len(sums) = k /\ \A j \in 1..k : sums[j] = sum(j)
    BY <1>2, <1>8
  <2>2. parts \in [1..k -> Seq(1..n)] /\ \A j \in 1..k : parts[j] = s[j].rows
    BY <1>8
  <2>3. parts = [j \in 1..k |-> parts[j]]
    OBVIOUS
  <2> HIDE DEF sums, parts
  <2>4. Lists(all, 1..n)
    BY <1>2, <2>2, <2>3, FlattenLists
  <2>5. SumOver(all, w) = Total(sums)
    <3>1. SumsOf(sums, parts, 1..n, w, k)
      BY <1>2, <1>6, <1>8, <2>1, <2>2 DEF SumsOf
    <3> QED BY <3>1, SumFlatten
  <2>6. Total(sums) = Total(w)
    BY <2>4, <2>5, SumOfAll
  <2>7. sum(p) >= room + w[rows[1]] /\ sum(p) > room /\ sum(p) \in Nat
    <3> DEFINE v == w[rows[1]]
    <3>1. ~(sum(p) < room + v)
      BY <1>9
    <3>2. v \in Nat /\ v >= 1
      BY <1>9, <1>11
    <3>3. sum(p) \in Nat
      BY <1>8
    <3> HIDE DEF v, sum
    <3>4. sum(p) >= room + v /\ sum(p) > room
      BY <3>1, <3>2, <3>3
    <3> QED BY <3>3, <3>4 DEF v
  <2>8. ASSUME NEW j \in 1..k PROVE sum(j) >= room
    <3>1. PICK m \in Nat : Weighed(s[p], m, w) /\ sum(p) - m <= sum(j)
      BY <1>10 DEF Near
    <3>2. m = 0 \/ \E x \in 1..Len(rows) : m = w[rows[x]]
      BY <3>1 DEF Weighed
    <3>3. sum(j) \in Nat
      BY <1>8
    <3> HIDE DEF sum, rows
    <3>4. CASE m = 0
      BY <2>7, <3>1, <3>3, <3>4
    <3>5. ASSUME NEW x \in 1..Len(rows), m = w[rows[x]] PROVE sum(j) >= room
      <4>1. ~(sum(p) < room + m)
        BY <3>5
      <4> QED BY <2>7, <3>1, <3>3, <4>1
    <3> QED BY <3>2, <3>4, <3>5
  <2> HIDE DEF sum, rows
  <2>9. Total(sums) > k * room
    <3>1. \A j \in 1..k : sums[j] >= room
      BY <2>1, <2>8
    <3>2. sums[p] > room
      BY <2>1, <2>7
    <3> QED BY <1>2, <2>1, <3>1, <3>2, TotalAbove
  <2>10. Total(w) \in Nat /\ k * room \in Nat
    BY <1>2, TotalPositive, Growing
  <2> QED BY <1>13, <2>6, <2>9, <2>10
<1> QED BY <1>3, <1>12, <1>13

-----------------------------------------------------------------------------
(* A micro-batch exceeds the room by less than one of its rows.            *)
Fits(rows, room, w) == \E x \in 1..Len(rows) : SumOver(rows, w) < room + w[rows[x]]

LEMMA FitsListed ==
  ASSUME NEW n \in Nat, NEW w \in [1..n -> Nat], NEW A, A \subseteq 1..n,
         NEW s, Lists(s, A), NEW t, Lists(t, A), NEW room, Fits(s, room, w)
  PROVE  Fits(t, room, w)
<1>1. PICK x \in 1..Len(s) : SumOver(s, w) < room + w[s[x]]
  BY DEF Fits
<1>2. s[x] \in A
  BY ListsFacts
<1>3. PICK y \in 1..Len(t) : t[y] = s[x]
  BY <1>2, ListsFacts, ZenonT(30) DEF Covers
<1>4. SumOver(s, w) = SumOver(t, w)
  BY SumListed, ZenonT(30)
<1> QED BY <1>1, <1>3, <1>4 DEF Fits

(* Parts of the rows 1..n, every row in one of them.                       *)
Parted(parts, k, n) ==
  /\ parts = [i \in 1..k |-> parts[i]]
  /\ \E B : Deals(B, k, 1..n) /\ \A i \in 1..k : Lists(parts[i], B[i])

LEMMA PartitionsFit ==
  ASSUME NEW n \in Nat, n >= 1, NEW w \in Seq(Nat), Len(w) = n, \A i \in 1..n : w[i] >= 1,
         NEW room \in Nat, room >= 1, NEW k \in MicroBatchesNeeded(w, room)..n
  PROVE  /\ Parted(Partitions(w, k, FALSE), k, n)
         /\ \A i \in 1..k : Fits(Partitions(w, k, FALSE)[i], room, w)
<1> DEFINE groups == Differenced(FirstStates(w, k, FALSE))
           parts == Partitions(w, k, FALSE)
<1>1. k \in 1..n /\ k \in Nat /\ k >= 1
  BY NeededAtLeastOne
<1>2. parts = [i \in 1..k |-> Ascending(groups[i].rows)]
  BY DEF Partitions
<1>3. groups \in CloseStates(k, n, w)
  BY <1>1, GroupsClose
<1>4. Holds(groups, k, 1..n)
  <2>1. FALSE \in BOOLEAN /\ Len(w) = IF FALSE THEN n * k ELSE n
    OBVIOUS
  <2>2. Queue(FirstStates(w, k, FALSE), n, k, 1..n)
    BY <1>1, <2>1, FirstStatesHold
  <2> QED BY <1>1, <2>2, DifferencedHolds
<1>5. w \in [1..n -> Nat]
  OBVIOUS
<1> HIDE DEF groups, parts
<1>6. PICK B : Deals(B, k, 1..n) /\ \A i \in 1..k : Lists(groups[i].rows, B[i])
  BY <1>4 DEF Holds
<1>7. ASSUME NEW i \in 1..k PROVE Lists(parts[i], B[i]) /\ Fits(parts[i], room, w)
  <2> DEFINE rows == groups[i].rows
  <2>1. Lists(rows, B[i]) /\ B[i] \subseteq 1..n
    BY <1>6 DEF Deals
  <2>2. Len(rows) \in Nat
    BY <2>1, ListsFacts
  <2>3. parts[i] = Ascending(rows)
    BY <1>2
  <2>4. \E x \in 1..Len(rows) : groups[i].sum < room + w[rows[x]]
    BY <1>3, <1>6, GroupBounded
  <2>5. groups[i].sum = SumOver(rows, w)
    BY <1>3 DEF CloseStates, Close, Counted
  <2> HIDE DEF rows
  <2>6. Fits(rows, room, w)
    BY <2>4, <2>5 DEF Fits
  <2>7. PICK p : Lists(p, 1..Len(rows)) /\ Ascending(rows) = Reordered(rows, p)
    BY <2>2, ArrangementLists DEF Ascending
  <2>8. Lists(parts[i], B[i])
    BY <2>1, <2>3, <2>7, ListsReordered
  <2> QED BY <1>5, <2>1, <2>6, <2>8, FitsListed
<1>8. parts = [i \in 1..k |-> parts[i]]
  BY <1>2
<1> QED BY <1>6, <1>7, <1>8 DEF Parted, parts

LEMMA MicroBatchesFit ==
  ASSUME NEW n \in Nat, n >= 1, NEW w \in Seq(Nat), Len(w) = n, \A i \in 1..n : w[i] >= 1,
         NEW room \in Nat, room >= 1, NEW k \in MicroBatchesNeeded(w, room)..n
  PROVE  /\ Parted(MicroBatches(w, k), k, n)
         /\ \A i \in 1..k : Fits(MicroBatches(w, k)[i], room, w)
<1> DEFINE parts == Partitions(w, k, FALSE)
<1>1. k \in Nat
  BY NeededAtLeastOne
<1>2. Parted(parts, k, n) /\ \A i \in 1..k : Fits(parts[i], room, w)
  BY PartitionsFit
<1>3. PICK p : Lists(p, 1..k) /\ MicroBatches(w, k) = Reordered(parts, p)
  BY <1>1, ArrangementLists DEF MicroBatches
<1> HIDE DEF parts
<1>4. PICK B : Deals(B, k, 1..n) /\ \A i \in 1..k : Lists(parts[i], B[i])
  BY <1>2 DEF Parted
<1>5. Deals(Reordered(B, p), k, 1..n)
  BY <1>1, <1>3, <1>4, DealsReordered
<1>6. p \in [1..k -> 1..k]
  BY <1>1, <1>3, ListsFacts, ListsLength
<1> DEFINE t == Reordered(parts, p)
           C == Reordered(B, p)
<1>7. /\ t = [i \in 1..k |-> t[i]]
      /\ \A i \in 1..k : t[i] = parts[p[i]] /\ C[i] = B[p[i]] /\ p[i] \in 1..k
  BY <1>6 DEF Reordered
<1> HIDE DEF t, C
<1>8. \A i \in 1..k : Lists(t[i], C[i]) /\ Fits(t[i], room, w)
  BY <1>2, <1>4, <1>7
<1>9. Parted(t, k, n)
  BY <1>5, <1>7, <1>8 DEF C, Parted
<1> QED BY <1>3, <1>8, <1>9 DEF t

-----------------------------------------------------------------------------
LEMMA PieceLists ==
  ASSUME NEW S, NEW rows, Lists(rows, S), NEW a \in 0..Len(rows), NEW b \in a..Len(rows)
  PROVE  Lists(SubSeq(rows, a + 1, b), {rows[x] : x \in (a + 1)..b})
<1> DEFINE l == Len(rows)
           m == b - a
           t == SubSeq(rows, a + 1, b)
           Q == {rows[x] : x \in (a + 1)..b}
<1>1. l \in Nat /\ rows \in [1..l -> S] /\ rows \in Seq(S) /\ Differ(rows, l)
  BY ListsFacts
<1>2. m \in Nat
  BY <1>1
<1>3. t \in Seq(S) /\ Len(t) = m /\ \A x \in 1..m : t[x] = rows[a + x]
  BY <1>1, PieceFacts
<1>4. /\ \A x \in 1..m : a + x \in (a + 1)..b /\ a + x \in 1..l
      /\ \A x \in (a + 1)..b : x - a \in 1..m /\ a + (x - a) = x
      /\ \A x, y \in 1..m : a + x = a + y => x = y
  BY <1>1
<1> HIDE DEF t, m, l
<1>5. \A x \in 1..m : t[x] \in Q
  BY <1>3, <1>4
<1>6. t \in [1..m -> Q]
  BY <1>3, <1>5, SeqIsFunction
<1>7. Covers(t, m, Q)
  <2> SUFFICES ASSUME NEW r \in Q PROVE \E i \in 1..m : t[i] = r
    BY DEF Covers
  <2>1. PICK x \in (a + 1)..b : r = rows[x]
    OBVIOUS
  <2>2. x - a \in 1..m /\ t[x - a] = rows[x]
    BY <1>3, <1>4
  <2> QED BY <2>1, <2>2
<1>8. Differ(t, m)
  BY <1>1, <1>3, <1>4 DEF Differ
<1> QED BY <1>2, <1>6, <1>7, <1>8, ListsIntro DEF t

(* The pieces of a list deal out what it lists.                            *)
LEMMA PiecesDeal ==
  ASSUME NEW S, NEW rows, Lists(rows, S), NEW n \in Nat, NEW c, Places(c, n, Len(rows)),
         NEW parts, Pieces(parts, rows, c, n)
  PROVE  \E Q : Deals(Q, n, S) /\ \A k \in 1..n : Lists(parts[k], Q[k])
<1> DEFINE l == Len(rows)
           Q == [k \in 1..n |-> {rows[x] : x \in (c[k - 1] + 1)..c[k]}]
<1>1. l \in Nat /\ rows \in [1..l -> S] /\ rows \in Seq(S) /\ Differ(rows, l) /\ Covers(rows, l, S)
  BY ListsFacts
<1>2. /\ c[0] = 0 /\ c[n] = l
      /\ \A k \in 1..n : c[k - 1] \in 0..l /\ c[k] \in c[k - 1]..l
  BY DEF Places
<1>3. \A k \in 1..n : Q[k] = {rows[x] : x \in (c[k - 1] + 1)..c[k]}
  OBVIOUS
<1>4. \A k \in 1..n : parts[k] = SubSeq(rows, c[k - 1] + 1, c[k])
  BY DEF Pieces
<1> HIDE DEF Q
<1>5. ASSUME NEW k \in 1..n PROVE Lists(parts[k], Q[k])
  <2>1. c[k - 1] \in 0..Len(rows) /\ c[k] \in c[k - 1]..Len(rows)
    BY <1>2
  <2> DEFINE a == c[k - 1]
             b == c[k]
  <2>2. Q[k] = {rows[x] : x \in (a + 1)..b} /\ parts[k] = SubSeq(rows, a + 1, b)
    BY <1>3, <1>4
  <2> HIDE DEF a, b
  <2>3. Lists(SubSeq(rows, a + 1, b), {rows[x] : x \in (a + 1)..b})
    BY <2>1, PieceLists DEF a, b
  <2> QED BY <2>2, <2>3
<1> HIDE DEF l
<1>6. ASSUME NEW k \in 1..n, NEW x \in (c[k - 1] + 1)..c[k] PROVE x \in 1..l
  <2>1. c[k - 1] \in 0..l /\ c[k] \in c[k - 1]..l
    BY <1>2
  <2> QED BY <1>1, <2>1
<1>7. ASSUME NEW k \in 1..n PROVE Q[k] \subseteq S
  BY <1>1, <1>3, <1>6
<1>8. ASSUME NEW r \in S PROVE \E k \in 1..n : r \in Q[k]
  <2>1. PICK x \in 1..l : rows[x] = r
    BY <1>1 DEF Covers
  <2> DEFINE T == {k \in 0..n : x <= c[k]}
  <2>2. n \in T /\ T \subseteq Nat
    BY <1>1, <1>2
  <2>3. PICK k \in T : \A m \in T : ~(m < k)
    BY <2>2, LeastNumber
  <2>4. k \in 1..n /\ k - 1 \in 0..n /\ k - 1 < k
    BY <1>1, <1>2, <2>3
  <2>5. ~(x <= c[k - 1]) /\ x <= c[k]
    BY <2>3, <2>4
  <2>6. x \in (c[k - 1] + 1)..c[k]
    BY <1>1, <1>2, <2>4, <2>5
  <2> QED BY <1>3, <2>1, <2>4, <2>6
<1>9. ASSUME NEW i \in 1..n, NEW j \in 1..n, i < j PROVE c[i] <= c[j - 1]
  <2> DEFINE D == [k \in 0..n |-> {y \in 0..l : k >= i => c[i] <= y}]
  <2>1. \A k \in 0..n : D[k] = {y \in 0..l : k >= i => c[i] <= y}
    OBVIOUS
  <2> HIDE DEF D
  <2>2. c[0] \in D[0]
    BY <1>1, <1>2, <2>1
  <2>3. ASSUME NEW k \in 1..n, c[k - 1] \in D[k - 1] PROVE c[k] \in D[k]
    <3>1. k - 1 \in 0..n /\ k \in 0..n
      OBVIOUS
    <3>2. c[k - 1] \in 0..l /\ c[k] \in c[k - 1]..l /\ (k - 1 >= i => c[i] <= c[k - 1])
      BY <1>2, <2>1, <2>3, <3>1
    <3>3. c[k] \in 0..l
      BY <1>1, <3>2
    <3>4. CASE k - 1 >= i
      <4>1. c[i] \in 0..l
        BY <1>1, <1>2
      <4>2. c[i] <= c[k]
        BY <1>1, <3>2, <3>4, <4>1
      <4> QED BY <2>1, <3>1, <3>3, <4>2
    <3>5. CASE k = i
      BY <2>1, <3>1, <3>3, <3>5
    <3>6. CASE k < i
      BY <2>1, <3>1, <3>3, <3>6
    <3> QED BY <3>4, <3>5, <3>6
  <2>4. \A k \in 0..n : c[k] \in D[k]
    BY <2>2, <2>3, Stays
  <2>5. j - 1 \in 0..n /\ j - 1 >= i
    BY <1>9
  <2> QED BY <2>1, <2>4, <2>5
<1>10. ASSUME NEW i \in 1..n, NEW j \in 1..n, i < j PROVE Q[i] \cap Q[j] = {}
  <2> SUFFICES ASSUME NEW r \in Q[i], r \in Q[j] PROVE FALSE
    OBVIOUS
  <2>1. PICK x \in (c[i - 1] + 1)..c[i] : r = rows[x]
    BY <1>3
  <2>2. PICK y \in (c[j - 1] + 1)..c[j] : r = rows[y]
    BY <1>3
  <2>3. x \in 1..l /\ y \in 1..l
    BY <1>6
  <2>4. x = y
    BY <1>1, <2>1, <2>2, <2>3 DEF Differ
  <2>5. c[i] <= c[j - 1] /\ c[j - 1] \in 0..l
    BY <1>2, <1>9, <1>10
  <2>6. c[i] \in 0..l /\ c[i - 1] \in 0..l /\ c[j] \in 0..l
    BY <1>1, <1>2, SMTT(20)
  <2>7. x <= c[i] /\ y > c[j - 1]
    BY <1>1, <2>1, <2>2, <2>5, <2>6
  <2> QED BY <1>1, <2>3, <2>4, <2>5, <2>6, <2>7
<1>11. ASSUME NEW i \in 1..n, NEW j \in 1..n, i # j PROVE Q[i] \cap Q[j] = {}
  <2>1. i < j \/ j < i
    BY <1>11
  <2> QED BY <1>10, <2>1
<1>12. Deals(Q, n, S)
  BY <1>7, <1>8, <1>11 DEF Deals
<1> QED BY <1>5, <1>12

-----------------------------------------------------------------------------
LEMMA ConcatFlatten ==
  ASSUME NEW R, NEW s \in Seq(Seq(R)), NEW t \in Seq(Seq(R))
  PROVE  Concatenated(s \o t) = Concatenated(s) \o Concatenated(t)
<1> DEFINE m == Len(s)
           n == Len(t)
           u == s \o t
           C == Seq(R)
<1>1. m \in Nat /\ n \in Nat /\ s \in [1..m -> C] /\ t \in [1..n -> C]
  BY SeqIsFunction
<1>2. u \in Seq(C) /\ Len(u) = m + n
      /\ \A k \in 1..(m + n) : u[k] = IF k <= m THEN s[k] ELSE t[k - m]
  OBVIOUS
<1> HIDE DEF m, n, u
<1>3. u \in [1..(m + n) -> C] /\ m + n \in Nat
  BY <1>1, <1>2, SeqIsFunction
<1>4. PICK f : Joins(f, s, m) /\ Concatenated(s) = f[m]
  BY <1>1, FlattenWalk
<1>5. PICK g : Joins(g, t, n) /\ Concatenated(t) = g[n]
  BY <1>1, FlattenWalk
<1>6. PICK h : Joins(h, u, m + n) /\ Concatenated(u) = h[m + n]
  BY <1>3, FlattenWalk
<1> HIDE DEF C
<1>7. f[0] = << >> /\ \A k \in 1..m : f[k] = f[k - 1] \o s[k]
  BY <1>4 DEF Joins
<1>8. g[0] = << >> /\ \A k \in 1..n : g[k] = g[k - 1] \o t[k]
  BY <1>5 DEF Joins
<1>9. h[0] = << >> /\ \A k \in 1..(m + n) : h[k] = h[k - 1] \o u[k]
  BY <1>6 DEF Joins
<1>10. h[m] = f[m] /\ f[m] \in C
  <2> DEFINE D == [k \in 0..m |-> {y \in C : y = f[k]}]
  <2>1. \A k \in 0..m : D[k] = {y \in C : y = f[k]}
    OBVIOUS
  <2> HIDE DEF D
  <2>2. h[0] \in D[0]
    <3>1. << >> \in C /\ 0 \in 0..m
      BY <1>1 DEF C
    <3> QED BY <1>7, <1>9, <2>1, <3>1
  <2>3. ASSUME NEW k \in 1..m, h[k - 1] \in D[k - 1] PROVE h[k] \in D[k]
    <3>1. k - 1 \in 0..m /\ k \in 0..m /\ k \in 1..(m + n) /\ k <= m
      BY <1>1
    <3>2. h[k - 1] = f[k - 1] /\ h[k - 1] \in C /\ u[k] = s[k] /\ s[k] \in C
      BY <1>1, <1>2, <2>1, <2>3, <3>1
    <3>3. h[k - 1] \o s[k] \in C
      BY <3>2 DEF C
    <3>4. h[k] = h[k - 1] \o s[k] /\ f[k] = h[k - 1] \o s[k]
      BY <1>7, <1>9, <3>1, <3>2
    <3>5. h[k] \in C /\ h[k] = f[k]
      BY <3>3, <3>4
    <3> QED BY <2>1, <3>1, <3>5
  <2>4. \A k \in 0..m : h[k] \in D[k]
    BY <1>1, <2>2, <2>3, Stays
  <2>5. m \in 0..m
    BY <1>1
  <2> QED BY <2>1, <2>4, <2>5
<1>11. h[m + n] = f[m] \o g[n]
  <2> DEFINE e == [k \in 0..n |-> h[m + k]]
             D == [k \in 0..n |-> {f[m] \o g[k]}]
             G == [k \in 0..n |-> C]
  <2>1. \A k \in 0..n : e[k] = h[m + k] /\ D[k] = {f[m] \o g[k]} /\ G[k] = C
    OBVIOUS
  <2> HIDE DEF D, e, G
  <2>2. 0 \in 0..n /\ n \in 0..n /\ m + 0 = m
    BY <1>1
  <2>3. \A k \in 0..n : g[k] \in G[k]
    <3>1. g[0] \in G[0]
      <4>1. << >> \in C
        BY DEF C
      <4>2. g[0] \in C
        BY <1>8, <4>1
      <4> QED BY <2>1, <2>2, <4>2
    <3>2. ASSUME NEW k \in 1..n, g[k - 1] \in G[k - 1] PROVE g[k] \in G[k]
      <4>1. k - 1 \in 0..n /\ k \in 0..n
        BY <1>1
      <4>2. g[k - 1] \in C /\ t[k] \in C
        BY <1>1, <2>1, <3>2, <4>1
      <4>3. g[k - 1] \o t[k] \in C
        BY <4>2 DEF C
      <4>4. g[k] \in C
        BY <1>8, <4>3
      <4> QED BY <2>1, <4>1, <4>4
    <3> QED BY <1>1, <3>1, <3>2, Stays
  <2>4. e[0] \in D[0]
    <3>1. f[m] \o << >> = f[m]
      BY <1>10, ConcatEmptySeq DEF C
    <3>2. e[0] = f[m] /\ D[0] = {f[m] \o << >>}
      BY <1>8, <1>10, <2>1, <2>2
    <3> QED BY <3>1, <3>2
  <2>5. ASSUME NEW k \in 1..n, e[k - 1] \in D[k - 1] PROVE e[k] \in D[k]
    <3> DEFINE j == k - 1
               o == m + k
    <3>1. j \in 0..n /\ k \in 0..n /\ o \in 1..(m + n) /\ o - 1 = m + j /\ ~(o <= m) /\ o - m = k
      BY <1>1
    <3>2. u[o] = t[k] /\ t[k] \in C /\ g[j] \in C
      BY <1>1, <1>2, <2>1, <2>3, <3>1
    <3>3. h[o] = h[o - 1] \o t[k]
      BY <1>9, <3>1, <3>2
    <3>4. h[o - 1] = f[m] \o g[j]
      BY <2>1, <2>5, <3>1
    <3>5. g[k] = g[j] \o t[k]
      BY <1>8
    <3> HIDE DEF j, o
    <3>6. (f[m] \o g[j]) \o t[k] = f[m] \o (g[j] \o t[k])
      <4> DEFINE x == f[m]
                 y == g[j]
                 z == t[k]
      <4>1. x \in Seq(R) /\ y \in Seq(R) /\ z \in Seq(R)
        BY <1>10, <3>2 DEF C
      <4> HIDE DEF x, y, z
      <4>2. (x \o y) \o z = x \o (y \o z)
        BY ONLY <4>1, ConcatAssociative, SMTT(30)
      <4> QED BY <4>2 DEF x, y, z
    <3>7. h[o] = f[m] \o g[k]
      BY <3>3, <3>4, <3>5, <3>6
    <3> QED BY <2>1, <3>1, <3>7 DEF o
  <2>6. \A k \in 0..n : e[k] \in D[k]
    BY <1>1, <2>4, <2>5, Stays
  <2> QED BY <2>1, <2>2, <2>6
<1> QED BY <1>4, <1>5, <1>6, <1>10, <1>11 DEF u

-----------------------------------------------------------------------------
(* Batches of the set F that have every row of S in exactly one place.     *)
Trains(ts, S, F) == ts \in Seq(F) /\ Lists(Concatenated(ts), S)

LEMMA TrainsEmpty ==
  ASSUME NEW F
  PROVE  Trains(<< >>, {}, F)
<1> DEFINE t == [i \in 1..0 |-> << >>]
<1>1. t = << >>
  OBVIOUS
<1>2. 0 \in Nat /\ t \in [1..0 -> Seq({})]
  OBVIOUS
<1> HIDE DEF t
<1>3. PICK h : Joins(h, t, 0) /\ Concatenated(t) = h[0]
  BY <1>2, FlattenWalk
<1>4. Concatenated(<< >>) = << >>
  BY <1>1, <1>3 DEF Joins
<1>5. << >> \in Seq(F)
  OBVIOUS
<1> QED BY <1>4, <1>5, ListsEmpty DEF Trains

LEMMA TrainsConcat ==
  ASSUME NEW R, NEW F, F \subseteq Seq(R), NEW A, NEW B, A \cap B = {},
         NEW s, Trains(s, A, F), NEW t, Trains(t, B, F)
  PROVE  Trains(s \o t, A \cup B, F)
<1>1. s \in Seq(F) /\ t \in Seq(F) /\ s \o t \in Seq(F)
  BY DEF Trains
<1>2. s \in Seq(Seq(R)) /\ t \in Seq(Seq(R))
  BY <1>1
<1>3. Concatenated(s \o t) = Concatenated(s) \o Concatenated(t)
  BY <1>2, ConcatFlatten
<1>4. Lists(Concatenated(s) \o Concatenated(t), A \cup B)
  BY ListsConcat DEF Trains
<1> QED BY <1>1, <1>3, <1>4 DEF Trains

LEMMA TrainsFlatten ==
  ASSUME NEW R, NEW F, F \subseteq Seq(R), NEW k \in Nat, NEW S, NEW Q, Deals(Q, k, S),
         NEW parts, parts = [i \in 1..k |-> parts[i]], \A i \in 1..k : Trains(parts[i], Q[i], F)
  PROVE  Trains(Concatenated(parts), S, F)
<1>1. \A i \in 1..k : parts[i] \in Seq(F)
  BY DEF Trains
<1>2. parts \in [1..k -> Seq(F)]
  BY <1>1
<1>3. PICK h : Joins(h, parts, k) /\ Concatenated(parts) = h[k]
  BY <1>2, FlattenWalk
<1> DEFINE Dealt(m) == {a \in S : \E i \in 1..m : a \in Q[i]}
           D == [m \in 0..k |-> {s \in Seq(F) : Trains(s, Dealt(m), F)}]
<1>4. \A m \in 0..k : D[m] = {s \in Seq(F) : Trains(s, Dealt(m), F)}
  OBVIOUS
<1> HIDE DEF D
<1>5. h[0] \in D[0]
  <2>1. Dealt(0) = {}
    OBVIOUS
  <2> HIDE DEF Dealt
  <2>2. h[0] = << >> /\ h[0] \in Seq(F) /\ 0 \in 0..k
    BY <1>3 DEF Joins
  <2>3. Trains(h[0], Dealt(0), F)
    BY <2>1, <2>2, TrainsEmpty
  <2> QED BY <1>4, <2>2, <2>3
<1>6. ASSUME NEW m \in 1..k, h[m - 1] \in D[m - 1]
      PROVE  h[m] \in D[m]
  <2> DEFINE j == m - 1
  <2>1. j \in 0..k /\ m \in 0..k /\ j \in Nat
    OBVIOUS
  <2>2. \A i \in 1..m : i \in 1..k /\ (i \in 1..j \/ i = m)
    OBVIOUS
  <2>3. \A i \in 1..j : i \in 1..m /\ i \in 1..k /\ i # m
    OBVIOUS
  <2>4. h[j] \in D[j] /\ h[m] = h[j] \o parts[m]
    BY <1>3, <1>6 DEF Joins
  <2> HIDE DEF j
  <2>5. Trains(h[j], Dealt(j), F)
    BY <1>4, <2>1, <2>4
  <2>6. Dealt(j) \cap Q[m] = {}
    BY <2>3 DEF Deals
  <2>7. Dealt(j) \cup Q[m] = Dealt(m)
    BY <2>2, <2>3 DEF Deals
  <2> HIDE DEF Dealt
  <2>8. Trains(h[j] \o parts[m], Dealt(j) \cup Q[m], F)
    BY <2>5, <2>6, TrainsConcat
  <2>9. Trains(h[m], Dealt(m), F)
    BY <2>4, <2>7, <2>8
  <2> QED BY <1>4, <2>1, <2>9 DEF Trains
<1>7. h[k] \in D[k]
  BY <1>5, <1>6, Stays
<1>8. Dealt(k) = S
  BY DEF Deals
<1> HIDE DEF Dealt
<1>9. k \in 0..k
  OBVIOUS
<1> QED BY <1>3, <1>4, <1>7, <1>8, <1>9

(* The parts of split, none of them empty.                                 *)
LEMMA SplitTrains ==
  ASSUME NEW R, NEW S, S \subseteq R, NEW rows, Lists(rows, S),
         NEW size \in Nat, size >= 1, NEW F, \A t \in Seq(R) : Len(t) >= 1 => t \in F
  PROVE  Trains(Split(rows, size), S, F)
<1> DEFINE l == Len(rows)
           n == NumSplits(l, size)
           c == CutPlaces(l, size)
           parts == Split(rows, size)
<1>1. l \in Nat /\ rows \in Seq(R)
  BY ListsFacts
<1>2. /\ n \in Nat /\ Places(c, n, l)
      /\ \A k \in 1..n : c[k - 1] < c[k]
  BY <1>1, SplitPlaces
<1>3. Pieces(parts, rows, c, n)
  BY <1>1, SplitPieces
<1>4. Concatenated(parts) = rows
  BY <1>1, SplitJoins
<1> HIDE DEF n, c, parts
<1>5. parts = [k \in 1..n |-> parts[k]] /\ \A k \in 1..n : parts[k] = SubSeq(rows, c[k - 1] + 1, c[k])
  BY <1>3 DEF Pieces
<1>6. ASSUME NEW k \in 1..n PROVE parts[k] \in F
  <2> DEFINE a == c[k - 1]
             b == c[k]
  <2>1. a \in 0..l /\ b \in a..l /\ a < b
    BY <1>2 DEF Places
  <2>2. parts[k] = SubSeq(rows, a + 1, b)
    BY <1>5
  <2> HIDE DEF a, b
  <2>3. SubSeq(rows, a + 1, b) \in Seq(R) /\ Len(SubSeq(rows, a + 1, b)) = b - a
    BY <1>1, <2>1, PieceFacts
  <2>4. b - a >= 1
    BY <1>1, <2>1
  <2> QED BY <2>2, <2>3, <2>4
<1>7. parts \in Seq(F)
  BY <1>2, <1>5, <1>6
<1> QED BY <1>4, <1>7 DEF Trains, parts

(* The rows at hand in the parts of their places.                          *)
LEMMA PartedTrains ==
  ASSUME NEW S, NEW held, Lists(held, S), NEW k \in Nat, NEW parts, Parted(parts, k, Len(held)),
         NEW F, \A b \in 1..k : Reordered(held, parts[b]) \in F
  PROVE  Trains([b \in 1..k |-> Reordered(held, parts[b])], S, F)
<1> DEFINE l == Len(held)
           ts == [b \in 1..k |-> Reordered(held, parts[b])]
<1>1. l \in Nat /\ held \in [1..l -> S] /\ Covers(held, l, S) /\ Differ(held, l)
  BY ListsFacts
<1> HIDE DEF l
<1>2. PICK B : Deals(B, k, 1..l) /\ \A i \in 1..k : Lists(parts[i], B[i])
  BY DEF Parted, l
<1> DEFINE Q == [b \in 1..k |-> {held[x] : x \in B[b]}]
<1>3. ts = [b \in 1..k |-> ts[b]] /\ \A b \in 1..k : ts[b] = Reordered(held, parts[b])
  OBVIOUS
<1>4. \A b \in 1..k : Q[b] = {held[x] : x \in B[b]}
  OBVIOUS
<1> HIDE DEF ts, Q
<1>5. /\ \A i \in 1..k : B[i] \subseteq 1..l
      /\ \A a \in 1..l : \E i \in 1..k : a \in B[i]
      /\ \A i, j \in 1..k : i # j => B[i] \cap B[j] = {}
  BY <1>2 DEF Deals
<1>6. Deals(Q, k, S)
  <2>1. ASSUME NEW b \in 1..k PROVE Q[b] \subseteq S
    BY <1>1, <1>4, <1>5
  <2>2. ASSUME NEW r \in S PROVE \E b \in 1..k : r \in Q[b]
    <3>1. PICK x \in 1..l : held[x] = r
      BY <1>1 DEF Covers
    <3>2. PICK b \in 1..k : x \in B[b]
      BY <1>5
    <3> QED BY <1>4, <3>1, <3>2
  <2>3. ASSUME NEW i \in 1..k, NEW j \in 1..k, i # j PROVE Q[i] \cap Q[j] = {}
    <3> SUFFICES ASSUME NEW r \in Q[i], r \in Q[j] PROVE FALSE
      OBVIOUS
    <3>1. PICK x \in B[i] : r = held[x]
      BY <1>4
    <3>2. PICK y \in B[j] : r = held[y]
      BY <1>4
    <3>3. x = y
      BY <1>1, <1>5, <3>1, <3>2 DEF Differ
    <3> QED BY <1>5, <2>3, <3>3
  <2> QED BY <2>1, <2>2, <2>3 DEF Deals
<1>7. ASSUME NEW b \in 1..k PROVE Lists(ts[b], Q[b])
  <2> DEFINE p == parts[b]
             A == B[b]
             m == Len(p)
             t == Reordered(held, p)
  <2>1. Lists(p, A) /\ A \subseteq 1..l
    BY <1>2, <1>5
  <2>2. ts[b] = t /\ Q[b] = {held[x] : x \in A}
    BY <1>3, <1>4
  <2> HIDE DEF p, A
  <2>3. m \in Nat /\ p \in [1..m -> A] /\ DOMAIN p = 1..m /\ Covers(p, m, A) /\ Differ(p, m)
    BY <2>1, ListsFacts
  <2> HIDE DEF m
  <2>4. t = [i \in 1..m |-> held[p[i]]]
    BY <2>3 DEF Reordered
  <2> HIDE DEF t
  <2>5. \A i \in 1..m : p[i] \in A /\ p[i] \in 1..l /\ t[i] = held[p[i]]
    BY <2>1, <2>3, <2>4
  <2>6. t \in [1..m -> Q[b]]
    BY <2>2, <2>4, <2>5
  <2>7. Covers(t, m, Q[b])
    <3> SUFFICES ASSUME NEW r \in Q[b] PROVE \E i \in 1..m : t[i] = r
      BY DEF Covers
    <3>1. PICK x \in A : r = held[x]
      BY <2>2
    <3>2. PICK i \in 1..m : p[i] = x
      BY <2>3 DEF Covers
    <3> QED BY <2>5, <3>1, <3>2
  <2>8. Differ(t, m)
    BY <1>1, <2>3, <2>5 DEF Differ
  <2> QED BY <2>2, <2>3, <2>6, <2>7, <2>8, ListsIntro
<1>8. Lists(Concatenated(ts), S)
  BY <1>3, <1>6, <1>7, FlattenLists
<1>9. ts \in Seq(F)
  BY <1>3
<1> QED BY <1>8, <1>9 DEF Trains, ts

-----------------------------------------------------------------------------
(* A batch for a backward pass: not empty and, with use_dynamic_bsz, over  *)
(* the room by less than one of its rows.                                  *)
Bounded(t) ==
  /\ Len(t) >= 1
  /\ cfg.dynamic => \E x \in 1..Len(t) : Total(Tokens(t)) < Room + Tokens(t)[x]
GoodBatches == {t \in Seq(Rows) : Bounded(t)}

LEMMA FitsBounded ==
  ASSUME cfg \in Settings, lens \in [Rows -> Lengths[cfg]], NEW held \in Seq(Rows),
         NEW p \in Seq(1..Len(held)), Fits(p, Room, Tokens(held))
  PROVE  Reordered(held, p) \in GoodBatches
<1> DEFINE l == Len(held)
           w == Tokens(held)
           t == Reordered(held, p)
           m == Len(p)
<1>1. l \in Nat /\ m \in Nat /\ p \in [1..m -> 1..l] /\ DOMAIN p = 1..m
  OBVIOUS
<1>2. t = [i \in 1..m |-> held[p[i]]] /\ \A i \in 1..m : p[i] \in 1..l /\ held[p[i]] \in Rows
  BY <1>1 DEF Reordered
<1>3. t \in Seq(Rows) /\ Len(t) = m /\ DOMAIN t = 1..m /\ \A i \in 1..m : t[i] = held[p[i]]
  BY <1>1, <1>2
<1>4. w = [i \in 1..l |-> PromptTokens + lens[held[i]]]
  BY DEF Tokens
<1>5. Tokens(t) = [i \in 1..m |-> PromptTokens + lens[t[i]]]
  BY <1>3 DEF Tokens
<1>6. w \in Seq(Nat) /\ Len(w) = l
  BY TokensFacts
<1> HIDE DEF w, t
<1>7. \A i \in 1..m : Tokens(t)[i] = w[p[i]]
  BY <1>2, <1>3, <1>4, <1>5
<1>8. Tokens(t) = [i \in DOMAIN p |-> w[p[i]]]
  BY <1>1, <1>5, <1>7
<1>9. SumOver(p, w) = Total(Tokens(t))
  BY <1>8 DEF SumOver
<1>10. PICK x \in 1..m : SumOver(p, w) < Room + w[p[x]]
  BY DEF Fits, w
<1>11. Total(Tokens(t)) < Room + Tokens(t)[x]
  BY <1>7, <1>9, <1>10
<1>12. Len(t) >= 1
  BY <1>1, <1>3, <1>10
<1> QED BY <1>3, <1>11, <1>12 DEF Bounded, GoodBatches, t

LEMMA DynamicTrains ==
  ASSUME cfg \in Settings, lens \in [Rows -> Lengths[cfg]],
         NEW size \in Nat, size >= 1, NEW held,
         \A k \in Ranks : held[k] \in Seq(Rows) /\ Len(held[k]) = size,
         NEW r \in Ranks, NEW S, Lists(held[r], S)
  PROVE  Trains([b \in DOMAIN Dynamic(held, r) |-> Reordered(held[r], Dynamic(held, r)[b])],
                S, GoodBatches)
<1> DEFINE own == held[r]
           w == Tokens(own)
           need == MicroBatchesNeeded(w, Room)
           parts == Dynamic(held, r)
<1>1. PICK k \in 1..size : need \in 1..k /\ parts = MicroBatches(w, k)
  BY RanksAgree
<1>2. own \in Seq(Rows) /\ Len(own) = size
  OBVIOUS
<1>3. w \in Seq(Nat) /\ Len(w) = size /\ \A i \in 1..size : w[i] >= 1
  BY <1>2, TokensFacts
<1>4. k \in need..size /\ k \in Nat
  BY <1>1
<1>5. Room \in Nat /\ Room >= 1
  BY RoomPositive
<1> HIDE DEF own, w, need, parts
<1>6. Parted(MicroBatches(w, k), k, size) /\ \A i \in 1..k : Fits(MicroBatches(w, k)[i], Room, w)
  BY <1>3, <1>4, <1>5, MicroBatchesFit DEF need
<1>7. Parted(parts, k, Len(own))
  BY <1>1, <1>2, <1>6
<1>8. DOMAIN parts = 1..k
  BY <1>7 DEF Parted
<1>9. PICK B : Deals(B, k, 1..size) /\ \A i \in 1..k : Lists(parts[i], B[i])
  BY <1>2, <1>7 DEF Parted
<1>10. ASSUME NEW b \in 1..k PROVE Reordered(own, parts[b]) \in GoodBatches
  <2> DEFINE p == parts[b]
  <2>1. p \in Seq(B[b]) /\ B[b] \subseteq 1..size
    BY <1>9 DEF Lists, Deals
  <2>2. Fits(p, Room, w)
    BY <1>1, <1>6
  <2> HIDE DEF p
  <2>3. p \in Seq(1..Len(own))
    BY <1>2, <2>1
  <2>4. Reordered(own, p) \in GoodBatches
    BY <1>2, <2>2, <2>3, FitsBounded DEF w
  <2> QED BY <2>4 DEF p
<1>11. Lists(own, S)
  BY DEF own
<1>12. Trains([b \in 1..k |-> Reordered(own, parts[b])], S, GoodBatches)
  BY <1>4, <1>7, <1>10, <1>11, PartedTrains
<1> QED BY <1>8, <1>12 DEF own, parts

-----------------------------------------------------------------------------
(* What a rank trains on in update_policy, as Update has it.               *)
Minis(rows, k) == Split(Part(rows, "update", k), cfg.mini)
MicroOf(rows, r, m) ==
  IF cfg.dynamic
  THEN LET held == [k \in Ranks |-> Minis(rows, k)[m]]
       IN  [b \in DOMAIN Dynamic(held, r) |-> Reordered(held[r], Dynamic(held, r)[b])]
  ELSE Split(Minis(rows, r)[m], cfg.micro)
TrainedBy(rows, r) == FlattenSeq([m \in DOMAIN Minis(rows, r) |-> MicroOf(rows, r, m)])

LEMMA UpdateTrains ==
  ASSUME cfg \in Settings, lens \in [Rows -> Lengths[cfg]], NEW rows, Lists(rows, Rows),
         NEW r \in Ranks
  PROVE  \E S : Lists(Part(rows, "update", r), S) /\ Trains(TrainedBy(rows, r), S, GoodBatches)
<1> DEFINE mini == cfg.mini
           part(k) == Part(rows, "update", k)
<1>1. rows \in Seq(Rows) /\ Len(rows) = NumRows
  BY RowsCounted DEF Lists
<1>2. PICK g \in Nat, w \in Nat, size \in Nat : Shared("update", g, w, size)
  BY SharedRows
<1>3. size \in Nat /\ size >= 1 /\ mini \in Nat /\ mini >= 1
  <2>1. mini \in Nat /\ mini >= 1
    BY SettingsAssumption
  <2> QED BY <1>2, <2>1 DEF Shared
<1>4. ASSUME NEW k \in Ranks
      PROVE  /\ part(k) \in Seq(Rows) /\ Len(part(k)) = size
             /\ \E S : S \subseteq Rows /\ Lists(part(k), S)
  <2> DEFINE a == (k \div g) * size
             b == a + size
             S == {rows[x] : x \in (a + 1)..b}
  <2>1. PartAt(rows, "update", k, a, size)
    BY <1>1, <1>2, PartPlace
  <2> HIDE DEF a
  <2>2. /\ a \in 0..Len(rows) /\ b \in a..Len(rows)
        /\ part(k) = SubSeq(rows, a + 1, b)
    BY <2>1 DEF PartAt
  <2>3. b - a = size
    BY <1>3, <2>2
  <2> HIDE DEF b
  <2>4. SubSeq(rows, a + 1, b) \in Seq(Rows) /\ Len(SubSeq(rows, a + 1, b)) = b - a
    BY <1>1, <2>2, PieceFacts
  <2>5. Lists(SubSeq(rows, a + 1, b), S)
    BY <2>2, PieceLists
  <2>6. \A x \in (a + 1)..b : rows[x] \in Rows
    <3>1. \A x \in (a + 1)..b : x \in 1..Len(rows)
      BY <1>1, <2>2
    <3> QED BY <1>1, <3>1
  <2>7. S \subseteq Rows
    BY <2>6
  <2> HIDE DEF S
  <2> QED BY <2>2, <2>3, <2>4, <2>5, <2>7
<1>5. PICK S : S \subseteq Rows /\ Lists(part(r), S)
  BY <1>4
<1> HIDE DEF part
<1> DEFINE n == NumSplits(size, mini)
           c == CutPlaces(size, mini)
<1>6. /\ n \in Nat /\ Places(c, n, size)
      /\ \A m \in 1..n : c[m - 1] \in 0..size /\ c[m] \in c[m - 1]..size /\ c[m - 1] < c[m]
  <2>1. /\ n \in Nat /\ Places(c, n, size)
        /\ \A m \in 1..n : /\ c[m - 1] = (m - 1) * mini
                           /\ c[m] = IF m * mini > size THEN size ELSE m * mini
                           /\ c[m - 1] < c[m]
    BY <1>3, SplitPlaces
  <2>2. \A m \in 1..n : c[m - 1] < c[m]
    BY <2>1
  <2> HIDE DEF n, c
  <2>3. \A m \in 1..n : c[m - 1] \in 0..size /\ c[m] \in c[m - 1]..size
    BY <2>1 DEF Places
  <2> QED BY <2>1, <2>2, <2>3
<1>7. ASSUME NEW k \in Ranks PROVE Pieces(Minis(rows, k), part(k), c, n)
  <2>1. Pieces(Split(part(k), mini), part(k), c, n)
    BY <1>3, <1>4, SplitPieces
  <2> QED BY <2>1 DEF Minis, part
<1> HIDE DEF n, c, mini
<1>8. ASSUME NEW k \in Ranks, NEW m \in 1..n
      PROVE  Minis(rows, k)[m] \in Seq(Rows) /\ Len(Minis(rows, k)[m]) = c[m] - c[m - 1]
  <2> DEFINE a == c[m - 1]
             b == c[m]
  <2>1. a \in 0..Len(part(k)) /\ b \in a..Len(part(k)) /\ part(k) \in Seq(Rows)
    BY <1>4, <1>6
  <2>2. Minis(rows, k)[m] = SubSeq(part(k), a + 1, b)
    BY <1>7 DEF Pieces
  <2> HIDE DEF a, b
  <2>3. /\ SubSeq(part(k), a + 1, b) \in Seq(Rows)
        /\ Len(SubSeq(part(k), a + 1, b)) = b - a
    BY <2>1, PieceFacts
  <2> QED BY <2>2, <2>3 DEF a, b
<1>9. PICK Q : Deals(Q, n, S) /\ \A m \in 1..n : Lists(Minis(rows, r)[m], Q[m])
  <2>1. Len(part(r)) = size
    BY <1>4
  <2>2. Places(c, n, Len(part(r)))
    BY <1>6, <2>1
  <2>3. Pieces(Minis(rows, r), part(r), c, n)
    BY <1>7
  <2> QED BY <1>5, <1>6, <2>2, <2>3, PiecesDeal
<1>10. ASSUME NEW m \in 1..n PROVE Trains(MicroOf(rows, r, m), Q[m], GoodBatches)
  <2> DEFINE held == [k \in Ranks |-> Minis(rows, k)[m]]
             most == c[m] - c[m - 1]
  <2>1. most \in Nat /\ most >= 1
    BY <1>3, <1>6
  <2>2. \A k \in Ranks : held[k] = Minis(rows, k)[m]
    OBVIOUS
  <2> HIDE DEF most
  <2>3. \A k \in Ranks : held[k] \in Seq(Rows) /\ Len(held[k]) = most
    BY <1>8, <2>2 DEF most
  <2>4. Lists(held[r], Q[m]) /\ Q[m] \subseteq Rows
    BY <1>5, <1>9, <2>2 DEF Deals
  <2>5. CASE cfg.dynamic
    <3>1. MicroOf(rows, r, m)
            = [b \in DOMAIN Dynamic(held, r) |-> Reordered(held[r], Dynamic(held, r)[b])]
      BY <2>5 DEF MicroOf
    <3> HIDE DEF held
    <3> QED BY <2>1, <2>3, <2>4, <3>1, DynamicTrains
  <2>6. CASE ~cfg.dynamic
    <3>1. MicroOf(rows, r, m) = Split(held[r], cfg.micro)
      BY <2>6 DEF MicroOf
    <3>2. \A t \in Seq(Rows) : Len(t) >= 1 => t \in GoodBatches
      BY <2>6 DEF GoodBatches, Bounded
    <3>3. cfg.micro \in Nat /\ cfg.micro >= 1
      BY SettingFacts
    <3> HIDE DEF held
    <3> QED BY <2>4, <3>1, <3>2, <3>3, SplitTrains
  <2> QED BY <2>5, <2>6
<1> DEFINE parts == [m \in 1..n |-> MicroOf(rows, r, m)]
<1>11. parts = [m \in 1..n |-> parts[m]] /\ \A m \in 1..n : parts[m] = MicroOf(rows, r, m)
  OBVIOUS
<1>12. DOMAIN Minis(rows, r) = 1..n
  BY <1>7 DEF Pieces
<1>13. TrainedBy(rows, r) = Concatenated(parts)
  BY <1>12 DEF TrainedBy, Concatenated
<1> HIDE DEF parts
<1>14. GoodBatches \subseteq Seq(Rows)
  BY DEF GoodBatches
<1>15. \A m \in 1..n : Trains(parts[m], Q[m], GoodBatches)
  BY <1>10, <1>11
<1>16. n \in Nat /\ Deals(Q, n, S) /\ parts = [m \in 1..n |-> parts[m]]
  BY <1>6, <1>9, <1>11
<1>17. Trains(Concatenated(parts), S, GoodBatches)
  BY ONLY <1>14, <1>15, <1>16, TrainsFlatten
<1> QED BY <1>5, <1>13, <1>17 DEF part

-----------------------------------------------------------------------------
LEMMA EachWithinTotal ==
  ASSUME NEW k \in Nat, NEW numbers \in Seq(Nat), Len(numbers) = k
  PROVE  Total(numbers) \in Nat /\ \A i \in 1..k : numbers[i] <= Total(numbers)
<1>1. PICK f \in [0..k -> Nat] : Adds(f, numbers, k) /\ Total(numbers) = f[k]
  BY TotalWalk
<1> DEFINE D == [m \in 0..k |-> {y \in Nat : \A i \in 1..m : numbers[i] <= y}]
<1>2. \A m \in 0..k : D[m] = {y \in Nat : \A i \in 1..m : numbers[i] <= y}
  OBVIOUS
<1> HIDE DEF D
<1>3. f[0] \in D[0]
  BY <1>2
<1>4. ASSUME NEW m \in 1..k, f[m - 1] \in D[m - 1]
      PROVE  f[m] \in D[m]
  <2> DEFINE j == m - 1
             a == f[j]
             b == f[m]
  <2>1. j \in 0..k /\ m \in 0..k /\ numbers[m] \in Nat
    OBVIOUS
  <2>2. b = a + numbers[m]
    BY <1>1 DEF Adds
  <2>3. a \in Nat /\ \A i \in 1..j : numbers[i] <= a
    BY <1>2, <1>4, <2>1
  <2>4. \A i \in 1..m : i \in 1..j \/ i = m
    OBVIOUS
  <2>5. \A i \in 1..m : numbers[i] \in Nat
    OBVIOUS
  <2> HIDE DEF a, b, j
  <2>8. b \in Nat /\ a <= b /\ numbers[m] <= b
    BY <2>1, <2>2, <2>3
  <2>9. \A i \in 1..j : numbers[i] <= b
    <3>1. \A i \in 1..j : i \in 1..m
      BY DEF j
    <3>2. \A i \in 1..j : numbers[i] \in Nat /\ numbers[i] <= a
      BY <2>3, <2>5, <3>1
    <3> QED BY <2>3, <2>8, <3>2
  <2>6. b \in Nat /\ \A i \in 1..m : numbers[i] <= b
    BY ONLY <2>4, <2>8, <2>9
  <2>7. b \in D[m]
    BY <1>2, <2>1, <2>6
  <2> QED BY <2>7 DEF b
<1>5. \A m \in 0..k : f[m] \in D[m]
  BY <1>3, <1>4, Stays
<1>6. k \in 0..k
  OBVIOUS
<1> QED BY <1>1, <1>2, <1>5, <1>6

LEMMA LongestOf ==
  ASSUME NEW k \in Nat, k >= 1, NEW numbers \in Seq(Nat), Len(numbers) = k,
         \A i \in 1..k : numbers[i] >= 1
  PROVE  /\ Max({numbers[i] : i \in DOMAIN numbers}) \in Nat
         /\ \A i \in 1..k : numbers[i] <= Max({numbers[j] : j \in DOMAIN numbers})
<1> DEFINE b == Total(numbers)
           S == {numbers[i] : i \in DOMAIN numbers}
<1>1. b \in Nat /\ \A i \in 1..k : numbers[i] <= b
  BY EachWithinTotal
<1>2. DOMAIN numbers = 1..k /\ \A i \in 1..k : numbers[i] \in Nat
  OBVIOUS
<1>3. \A i \in 1..k : numbers[i] \in S
  BY <1>2
<1>4. S # {}
  BY <1>2
<1> HIDE DEF b
<1>5. S \subseteq 0..b
  BY <1>1, <1>2
<1> HIDE DEF S
<1>6. Max(S) \in S /\ \A x \in S : x <= Max(S)
  BY <1>1, <1>4, <1>5, MaxOfBounded
<1>7. Max(S) \in Nat
  <2>1. \A x \in 0..b : x \in Nat
    BY <1>1
  <2>2. Max(S) \in 0..b
    BY <1>5, <1>6
  <2> QED BY <2>1, <2>2
<1>8. \A i \in 1..k : numbers[i] <= Max(S)
  BY <1>3, <1>6
<1> QED BY <1>7, <1>8 DEF S

(* The total as the property has it.                                       *)
LEMMA SumOfPlaces ==
  ASSUME NEW numbers \in Seq(Nat)
  PROVE  SumOver([i \in DOMAIN numbers |-> i], numbers) = Total(numbers)
<1> DEFINE id == [i \in DOMAIN numbers |-> i]
<1>1. [i \in DOMAIN id |-> numbers[id[i]]] = numbers
  OBVIOUS
<1> HIDE DEF id
<1>2. SumOver(id, numbers) = Total([i \in DOMAIN id |-> numbers[id[i]]])
  BY DEF SumOver
<1> QED BY <1>1, <1>2 DEF id

-----------------------------------------------------------------------------
DpRanks == 0..(cfg.world \div cfg.sp - 1)
TrainedIn(d, e) ==
  \E S : /\ Lists(Part(batch["response"], "update", d * cfg.sp), S)
         /\ Trains(trained[d][e], S, GoodBatches)
TrainedAll(d) ==
  DOMAIN trained[d] = 1..cfg.epochs /\ \A e \in 1..cfg.epochs : TrainedIn(d, e)
TrainInv ==
  /\ pc \notin {"start_profile", "done"} => trained = [d \in DpRanks |-> trained[d]]
  /\ pc = "update" => \A d \in DpRanks : out[d * cfg.sp] = Pending \/ TrainedAll(d)
  /\ Updated => \A d \in DpRanks : TrainedAll(d)

LEMMA FirstRanks ==
  ASSUME cfg \in Settings
  PROVE  /\ \A d \in DpRanks : /\ d * cfg.sp \in Ranks /\ (d * cfg.sp) \div cfg.sp = d
                               /\ (d * cfg.sp) % cfg.sp = 0
         /\ \A r \in Ranks : r \div cfg.sp \in DpRanks
                             /\ (r % cfg.sp = 0 => (r \div cfg.sp) * cfg.sp = r)
<1> DEFINE g == cfg.sp
           world == cfg.world
<1>1. /\ world \in Nat /\ world # 0 /\ g \in Nat /\ g # 0 /\ world % g = 0
      /\ NumRows \in Nat /\ NumRows # 0 /\ NumRows % (world \div g) = 0
  BY SettingFacts
<1>2. Ranks = 0..(world - 1) /\ DpRanks = 0..(world \div g - 1)
  BY DEF Ranks, DpRanks
<1> HIDE DEF g, world
<1>3. PICK w \in Nat, size \in Nat :
           /\ w >= 1 /\ world = w * g /\ world \div g = w
           /\ size >= 1 /\ NumRows = size * w /\ NumRows \div w = size
           /\ \A r \in 0..(world - 1) : r \div g \in 0..(w - 1)
           /\ \A d \in 1..w : (d - 1) * g \in 0..(world - 1) /\ ((d - 1) * g) \div g = d - 1
  BY <1>1, Shares, ZenonT(30)
<1>4. ASSUME NEW d \in DpRanks
      PROVE  d * g \in Ranks /\ (d * g) \div g = d /\ (d * g) % g = 0
  <2> DEFINE e == d + 1
  <2>1. e \in 1..w /\ d = e - 1 /\ d \in Nat
    BY <1>2, <1>3
  <2> HIDE DEF e
  <2>2. (e - 1) * g \in 0..(world - 1) /\ ((e - 1) * g) \div g = e - 1
    BY <1>3, <2>1
  <2>4. (d * g) % g = 0
    <3> DEFINE x == d * g
    <3>1. x \in Nat /\ x \div g = d
      BY <1>1, <2>1, <2>2
    <3>2. (x \div g) * g = x
      BY <3>1
    <3> HIDE DEF x
    <3>3. x % g \in 0..(g - 1) /\ x = (x \div g) * g + (x % g)
      BY <1>1, <3>1, Division
    <3>4. x % g \in Int /\ x = x + (x % g)
      BY <1>1, <3>2, <3>3
    <3>5. x % g = 0
      BY <3>1, <3>4
    <3> QED BY <3>5 DEF x
  <2> QED BY <1>2, <2>1, <2>2, <2>4
<1>5. ASSUME NEW r \in Ranks
      PROVE  r \div g \in DpRanks /\ (r % g = 0 => (r \div g) * g = r)
  <2>1. r \in Nat /\ r \div g \in DpRanks
    BY <1>1, <1>2, <1>3, SMTT(20)
  <2>2. r \div g \in Nat /\ (r \div g) * g \in Nat /\ r = (r \div g) * g + (r % g)
    BY <1>1, <2>1, Division
  <2> QED BY <2>1, <2>2
<1> QED BY <1>4, <1>5 DEF g

-----------------------------------------------------------------------------
LEMMA UpdateTrained ==
  ASSUME BatchInv, OutInv, TrainInv, NEW r \in Ranks, Update(r)
  PROVE  TrainInv'
<1> DEFINE response == batch["response"]
<1>1. /\ pc = "update" /\ UNCHANGED <<cfg, pc, lens, batch, step>>
      /\ out' = [out EXCEPT ![r] = <<"metrics">>]
      /\ trained' = IF r % cfg.sp # 0 THEN trained
                    ELSE [trained EXCEPT ![r \div cfg.sp] =
                            [e \in 1..cfg.epochs |-> TrainedBy(response, r)]]
  BY DEF Update, TrainedBy, MicroOf, Minis
<1>2. cfg \in Settings /\ Aligned(batch) /\ lens \in [Rows -> Lengths[cfg]]
  BY <1>1 DEF BatchInv, Afterwards
<1>3. Lists(response, Rows)
  BY <1>2, AlignedFacts
<1>4. /\ Ranks' = Ranks /\ DpRanks' = DpRanks /\ Rows' = Rows
      /\ Part(response, "update", 0)' = Part(response, "update", 0)
  BY <1>1 DEF Ranks, DpRanks, Rows, Part, Group
<1>5. \A d : Part(response, "update", d * cfg.sp)' = Part(response, "update", d * cfg.sp)
  BY <1>1 DEF Part, Group
<1>6. GoodBatches' = GoodBatches
  BY <1>1, <1>4 DEF GoodBatches, Bounded, Tokens, Room
<1>7. r % cfg.sp = 0 => r \div cfg.sp \in DpRanks /\ (r \div cfg.sp) * cfg.sp = r
  BY <1>2, FirstRanks
<1>8. /\ trained = [d \in DpRanks |-> trained[d]] /\ out = [k \in Ranks |-> out[k]]
      /\ \A d \in DpRanks : out[d * cfg.sp] = Pending \/ TrainedAll(d)
  BY <1>1 DEF TrainInv, OutInv
<1>9. trained' = [d \in DpRanks |-> trained'[d]]
  BY <1>1, <1>8
<1>12. ASSUME NEW d \in DpRanks
       PROVE  out'[d * cfg.sp] = Pending \/ TrainedAll(d)'
  <2> DEFINE k == d * cfg.sp
  <2>1. k \in Ranks /\ k \div cfg.sp = d /\ k % cfg.sp = 0
    BY <1>2, FirstRanks
  <2> HIDE DEF k
  <2>2. CASE k = r
    <3>1. trained'[d] = [e \in 1..cfg.epochs |-> TrainedBy(response, r)]
      BY <1>1, <1>8, <2>1, <2>2
    <3>2. PICK S : /\ Lists(Part(response, "update", r), S)
                   /\ Trains(TrainedBy(response, r), S, GoodBatches)
      BY <1>2, <1>3, UpdateTrains
    <3>3. Part(response, "update", d * cfg.sp)' = Part(response, "update", r)
      BY <1>5, <2>2 DEF k
    <3>4. /\ DOMAIN trained'[d] = 1..cfg.epochs
          /\ \A e \in 1..cfg.epochs : trained'[d][e] = TrainedBy(response, r)
      BY <3>1
    <3>5. \A e \in 1..cfg.epochs : TrainedIn(d, e)'
      BY <1>6, <3>2, <3>3, <3>4 DEF TrainedIn
    <3> QED BY <1>1, <3>4, <3>5 DEF TrainedAll
  <2>3. CASE k # r
    <3>1. out'[k] = out[k]
      BY <1>1, <1>8, <2>1, <2>3
    <3>2. trained'[d] = trained[d]
      <4>1. ~(r % cfg.sp = 0 /\ r \div cfg.sp = d)
        BY <1>7, <2>3 DEF k
      <4> QED BY <1>1, <1>8, <4>1
    <3>3. TrainedAll(d) => TrainedAll(d)'
      BY <1>1, <1>5, <1>6, <3>2 DEF TrainedAll, TrainedIn
    <3> QED BY <1>8, <3>1, <3>3 DEF k
  <2> QED BY <2>2, <2>3
<1>13. ~Updated'
  BY <1>1 DEF Updated
<1> QED BY <1>1, <1>4, <1>9, <1>12, <1>13 DEF TrainInv, Pending

LEMMA AllTrained ==
  ASSUME BatchInv, OutInv, TrainInv, AfterUpdate
  PROVE  TrainInv'
<1>1. /\ pc = "update" /\ UNCHANGED <<cfg, lens, batch, step, trained>>
      /\ pc' = "stop_profile" /\ \A r \in Ranks : out[r] # Pending
  BY DEF AfterUpdate, AfterCall, Returned
<1>2. cfg \in Settings
  BY DEF BatchInv
<1>3. ASSUME NEW d \in DpRanks PROVE TrainedAll(d)
  <2>1. d * cfg.sp \in Ranks /\ (d * cfg.sp) \div cfg.sp = d /\ (d * cfg.sp) % cfg.sp = 0
    BY <1>2, FirstRanks
  <2> QED BY <1>1, <2>1 DEF TrainInv
<1>4. DpRanks' = DpRanks /\ Rows' = Rows
  BY <1>1 DEF DpRanks, Rows
<1>5. GoodBatches' = GoodBatches
  BY <1>1, <1>4 DEF GoodBatches, Bounded, Tokens, Room
<1>6. \A d \in DpRanks : TrainedAll(d)'
  BY <1>1, <1>3, <1>5 DEF TrainedAll, TrainedIn, Part, Group
<1> QED BY <1>1, <1>4, <1>6 DEF TrainInv

LEMMA CallsBefore ==
  ASSUME NEW call \in {"log_prob", "ref", "reward", "values"}, AfterCall(call) = "stop_profile"
  PROVE  ~(cfg.warmup <= step)
  BY DEF AfterCall

LEMMA NotYetTrained ==
  ASSUME BatchInv, OutInv, TrainInv,
         \/ Fetch \/ UnionGenerated \/ Balance \/ UnionComputed \/ Segment \/ RewardRetried
         \/ Judge \/ StopProfile \/ \E r \in Ranks : Generate(r) \/ Forward(r)
  PROVE  TrainInv'
<1> DEFINE Fresh == /\ cfg' = cfg
                    /\ pc' \notin {"start_profile", "done"} => trained' = [d \in DpRanks |-> trained'[d]]
                    /\ pc' = "update" => out' = NoneOut
                    /\ ~Updated'
<1>1. ASSUME Fetch
      PROVE  Fresh
  BY <1>1 DEF Fetch, DpRanks, Updated
<1>2. ASSUME UnionGenerated \/ Balance \/ Segment \/ RewardRetried
      PROVE  Fresh
  BY <1>2 DEF UnionGenerated, Balance, Segment, RewardRetried, TrainInv, Updated
<1>3. ASSUME UnionComputed
      PROVE  Fresh
  BY <1>3, CallsBefore DEF UnionComputed, TrainInv, Updated
<1>4. ASSUME Judge
      PROVE  Fresh
  BY <1>4, CallsBefore DEF Judge, TrainInv, Updated, OutInv
<1>5. ASSUME StopProfile
      PROVE  Fresh
  BY <1>5 DEF StopProfile, Updated
<1>6. ASSUME \E r \in Ranks : Generate(r) \/ Forward(r)
      PROVE  Fresh
  BY <1>6 DEF Generate, Forward, TrainInv, Updated
<1>7. Fresh
  BY <1>1, <1>2, <1>3, <1>4, <1>5, <1>6
<1>8. DpRanks' = DpRanks /\ Ranks' = Ranks
  BY <1>7 DEF DpRanks, Ranks
<1>10. cfg \in Settings
  BY DEF BatchInv
<1>9. pc' = "update" => \A d \in DpRanks : out'[d * cfg.sp] = Pending
  BY <1>7, <1>10, FirstRanks DEF NoneOut
<1> QED BY <1>7, <1>8, <1>9 DEF TrainInv, Pending

LEMMA TrainedStep ==
  ASSUME BatchInv, OutInv, TrainInv, [Next]_vars
  PROVE  TrainInv'
<1>1. CASE UNCHANGED vars
  <2>1. UNCHANGED <<cfg, pc, step, lens, batch, out, trained>>
    BY <1>1 DEF vars
  <2>2. DpRanks' = DpRanks /\ Rows' = Rows /\ Ranks' = Ranks /\ Updated' = Updated
    BY <2>1 DEF DpRanks, Rows, Ranks, Updated
  <2>3. GoodBatches' = GoodBatches
    BY <2>1, <2>2 DEF GoodBatches, Bounded, Tokens, Room
  <2>4. \A d : TrainedAll(d) => TrainedAll(d)'
    BY <2>1, <2>3 DEF TrainedAll, TrainedIn, Part, Group
  <2> QED BY <2>1, <2>2, <2>4 DEF TrainInv, Pending
<1> QED BY <1>1, UpdateTrained, AllTrained, NotYetTrained
        DEF Next, DriverStep, RankStep, Terminated

(* In each epoch of an update every row of a dp rank is in exactly one of  *)
(* its micro-batches, none is empty, and with use_dynamic_bsz none has more tokens than there is room *)
(* for by a whole row.                                                     *)
LEMMA TrainedRows ==
  ASSUME BatchInv, TrainInv
  PROVE  TrainedOnce /\ MicroBatchesBounded
<1>0. ASSUME Updated, NEW d \in DOMAIN trained
      PROVE  DOMAIN trained[d] = 1..cfg.epochs /\ TrainedAll(d)
  <2>1. pc = "stop_profile"
    BY <1>0 DEF Updated
  <2>2. trained = [x \in DpRanks |-> trained[x]] /\ d \in DpRanks
    BY <1>0, <2>1 DEF TrainInv
  <2> QED BY <1>0, <2>2 DEF TrainInv, TrainedAll
<1> SUFFICES ASSUME Updated, NEW d \in DOMAIN trained, NEW e \in DOMAIN trained[d]
             PROVE  LET rows == Concatenated(trained[d][e])
                        part == Part(batch["response"], "update", d * cfg.sp)
                    IN  /\ Len(rows) = Len(part) /\ ToSet(rows) = ToSet(part)
                        /\ \A b \in DOMAIN trained[d][e] :
                             LET tokens == Tokens(trained[d][e][b])
                             IN  /\ tokens # << >>
                                 /\ cfg.dynamic => SumOver([i \in DOMAIN tokens |-> i], tokens)
                                                     < Room + Max({tokens[i] : i \in DOMAIN tokens})
  BY <1>0 DEF TrainedOnce, MicroBatchesBounded
<1> DEFINE rows == Concatenated(trained[d][e])
           part == Part(batch["response"], "update", d * cfg.sp)
<1>1. pc = "stop_profile" /\ cfg \in Settings /\ lens \in [Rows -> Lengths[cfg]]
  BY DEF Updated, BatchInv
<1>2. TrainedIn(d, e)
  BY <1>0 DEF TrainedAll
<1>3. PICK S : Lists(part, S) /\ Trains(trained[d][e], S, GoodBatches)
  BY <1>2 DEF TrainedIn
<1>4. Lists(rows, S) /\ trained[d][e] \in Seq(GoodBatches)
  BY <1>3 DEF Trains
<1> HIDE DEF rows, part
<1>5. Cardinality(S) = Len(rows) /\ Cardinality(S) = Len(part)
  BY <1>3, <1>4, ListsCardinality
<1>6. \A s : Lists(s, S) => ToSet(s) = S
  <2> SUFFICES ASSUME NEW s, Lists(s, S) PROVE ToSet(s) = S
    OBVIOUS
  <2>1. DOMAIN s = 1..Len(s) /\ \A i \in DOMAIN s : s[i] \in S
    BY DEF Lists
  <2> QED BY <2>1 DEF Lists, Covers, ToSet
<1>7. ASSUME NEW b \in DOMAIN trained[d][e]
      PROVE  LET tokens == Tokens(trained[d][e][b])
             IN  /\ tokens # << >>
                 /\ cfg.dynamic => SumOver([i \in DOMAIN tokens |-> i], tokens)
                                     < Room + Max({tokens[i] : i \in DOMAIN tokens})
  <2> DEFINE t == trained[d][e][b]
             tokens == Tokens(t)
             k == Len(t)
  <2>1. t \in Seq(Rows) /\ Bounded(t)
    BY <1>4 DEF GoodBatches
  <2> HIDE DEF t
  <2>2. k \in Nat /\ k >= 1
    BY <2>1 DEF Bounded
  <2>3. tokens \in Seq(Nat) /\ Len(tokens) = k /\ \A i \in 1..k : tokens[i] >= 1
    BY <1>1, <2>1, TokensFacts
  <2>4. cfg.dynamic => \E x \in 1..k : Total(tokens) < Room + tokens[x]
    BY <2>1 DEF Bounded
  <2> HIDE DEF tokens, k
  <2>5. tokens # << >>
    BY <2>2, <2>3
  <2> DEFINE most == Max({tokens[i] : i \in DOMAIN tokens})
  <2>6. most \in Nat /\ \A i \in 1..k : tokens[i] <= most
    BY <2>2, <2>3, LongestOf
  <2>7. SumOver([i \in DOMAIN tokens |-> i], tokens) = Total(tokens)
    BY <2>3, SumOfPlaces
  <2>8. Total(tokens) \in Nat /\ Room \in Nat /\ \A i \in 1..k : tokens[i] \in Nat
    BY <1>1, <2>2, <2>3, EachWithinTotal, RoomPositive
  <2> HIDE DEF most
  <2>9. cfg.dynamic => Total(tokens) < Room + most
    BY <2>4, <2>6, <2>8
  <2> QED BY <2>5, <2>7, <2>9 DEF most, tokens, t
<1> QED BY <1>3, <1>4, <1>5, <1>6, <1>7 DEF rows, part

-----------------------------------------------------------------------------
Ascends(o, n, w) == \A i, j \in 1..n : i < j => w[o[i]] <= w[o[j]]

(* What an order has at its first m places.                                *)
Foremost(o, m) == {o[x] : x \in 1..m}

LEMMA FirstPlaces ==
  ASSUME NEW n \in Nat, NEW o, Lists(o, 1..n), NEW m \in 0..n
  PROVE  IsFiniteSet(Foremost(o, m)) /\ Cardinality(Foremost(o, m)) = m
<1> DEFINE t == SubSeq(o, 1, m)
           A == {o[x] : x \in 1..m}
<1>1. Len(o) = n /\ o \in Seq(1..n)
  BY ListsLength, ListsFacts
<1>2. 0 \in 0..Len(o) /\ m \in 0..Len(o) /\ 0 + 1 = 1 /\ m - 0 = m
  BY <1>1
<1>3. Lists(SubSeq(o, 0 + 1, m), {o[x] : x \in (0 + 1)..m})
  BY <1>2, PieceLists
<1>4. Len(SubSeq(o, 0 + 1, m)) = m - 0
  BY <1>1, <1>2, PieceFacts
<1>5. Lists(t, A) /\ Len(t) = m
  BY <1>2, <1>3, <1>4
<1> HIDE DEF t, A
<1>6. IsFiniteSet(A) /\ Cardinality(A) = m
  BY <1>5, ListsCardinality
<1> QED BY <1>6 DEF A, Foremost

LEMMA KthSorted ==
  ASSUME NEW n \in Nat, NEW w \in Seq(Nat), Len(w) = n, NEW o, Lists(o, 1..n), Ascends(o, n, w),
         NEW k \in 1..n
  PROVE  Kth(w, k) = w[o[k]]
<1> DEFINE B(x) == {i \in 1..n : w[i] <= x}
           A(m) == Foremost(o, m)
           v == w[o[k]]
<1>1. o \in [1..n -> 1..n] /\ Covers(o, n, 1..n)
  BY ListsLength, ListsFacts
<1>2. DOMAIN w = 1..n /\ \A i \in 1..n : w[i] \in Nat
  OBVIOUS
<1>3. ToSet(w) = {w[i] : i \in 1..n}
  BY <1>2 DEF ToSet
<1>4. v \in Nat /\ v \in ToSet(w)
  BY <1>1, <1>2, <1>3
<1>5. \A x : B(x) \subseteq 1..n /\ IsFiniteSet(B(x)) /\ Cardinality(B(x)) \in Nat
  <2>1. IsFiniteSet(1..n)
    BY CountNumbers
  <2>2. \A x : B(x) \subseteq 1..n
    OBVIOUS
  <2> HIDE DEF B
  <2> QED BY <2>1, <2>2, FS_Subset, FS_CardinalityType
<1>6. Cardinality(B(v)) >= k
  <2>1. A(k) \subseteq B(v)
    <3>1. ASSUME NEW x \in 1..k PROVE o[x] \in 1..n /\ w[o[x]] <= w[o[k]]
      <4>1. x \in 1..n /\ k \in 1..n /\ (x < k \/ x = k)
        OBVIOUS
      <4>2. o[x] \in 1..n /\ w[o[k]] \in Nat
        BY <1>1, <1>2, <4>1
      <4>3. x < k => w[o[x]] <= w[o[k]]
        BY <4>1 DEF Ascends
      <4> QED BY <4>1, <4>2, <4>3
    <3> QED BY <3>1 DEF Foremost
  <2>2. Cardinality(A(k)) = k
    <3>1. k \in 0..n
      OBVIOUS
    <3> QED BY <3>1, FirstPlaces
  <2> HIDE DEF A, B
  <2>3. Cardinality(A(k)) <= Cardinality(B(v))
    BY <1>5, <2>1, FS_Subset
  <2> QED BY <1>5, <2>2, <2>3
<1>7. ASSUME NEW x \in ToSet(w), Cardinality(B(x)) >= k PROVE v <= x
  <2> SUFFICES ASSUME x < v PROVE FALSE
    BY <1>2, <1>3, <1>4
  <2> DEFINE j == k - 1
  <2>0. j \in 0..n /\ x \in Nat
    BY <1>2, <1>3
  <2>1. B(x) \subseteq A(j)
    <3> SUFFICES ASSUME NEW i \in 1..n, w[i] <= x PROVE i \in A(j)
      OBVIOUS
    <3>1. PICK y \in 1..n : o[y] = i
      BY <1>1 DEF Covers
    <3>2. ~(w[o[k]] <= w[o[y]])
      BY <1>2, <1>4, <2>0, <3>1
    <3>3. k < y => w[o[k]] <= w[o[y]]
      BY DEF Ascends
    <3>4. y = k => w[o[k]] <= w[o[y]]
      BY <1>4
    <3>5. ~(k < y) /\ y # k
      BY ONLY <3>2, <3>3, <3>4
    <3>6. y \in 1..j
      BY ONLY <3>5, k \in 1..n, n \in Nat, y \in 1..n DEF j
    <3> QED BY <3>1, <3>6 DEF Foremost
  <2>2. IsFiniteSet(A(j)) /\ Cardinality(A(j)) = j
    BY <2>0, FirstPlaces
  <2> HIDE DEF A, B
  <2>3. Cardinality(B(x)) <= Cardinality(A(j))
    BY <2>1, <2>2, FS_Subset
  <2>4. Cardinality(B(x)) <= k - 1
    BY <2>2, <2>3
  <2> QED BY <1>5, <1>7, <2>4
<1> DEFINE S == {x \in ToSet(w) : Cardinality(B(x)) >= k}
<1>8. v \in S /\ \A x \in S : v <= x
  BY <1>4, <1>6, <1>7
<1>9. \A x \in S : x \in Nat
  BY <1>2, <1>3
<1>10. Kth(w, k) = Min(S)
  BY <1>2 DEF Kth
<1> HIDE DEF S, v
<1>11. Min(S) = v
  <2>1. Min(S) = CHOOSE x \in S : \A y \in S : x <= y
    BY DEF Min
  <2> DEFINE c == CHOOSE x \in S : \A y \in S : x <= y
  <2>2. c \in S /\ \A y \in S : c <= y
    BY <1>8
  <2> HIDE DEF c
  <2>3. c = v
    BY <1>8, <1>9, <2>2
  <2> QED BY <2>1, <2>3 DEF c
<1> QED BY <1>10, <1>11 DEF v

(* The lengths in another order have the same ones in ascending order.     *)
LEMMA KthReordered ==
  ASSUME NEW n \in Nat, NEW w \in Seq(Nat), Len(w) = n, NEW o, Lists(o, 1..n), Ascends(o, n, w),
         NEW idx, Lists(idx, 1..n), NEW k \in 1..n
  PROVE  Kth(Reordered(w, idx), k) = w[o[k]]
<1> DEFINE u == Reordered(w, idx)
           back == [x \in 1..n |-> CHOOSE i \in 1..n : idx[i] = o[x]]
<1>1. o \in [1..n -> 1..n] /\ Covers(o, n, 1..n) /\ Differ(o, n)
  BY ListsLength, ListsFacts
<1>2. idx \in [1..n -> 1..n] /\ Covers(idx, n, 1..n) /\ Differ(idx, n) /\ DOMAIN idx = 1..n
  BY ListsLength, ListsFacts
<1>3. ASSUME NEW x \in 1..n PROVE back[x] \in 1..n /\ idx[back[x]] = o[x]
  <2>1. \E i \in 1..n : idx[i] = o[x]
    BY <1>1, <1>2 DEF Covers
  <2> QED BY <2>1
<1>4. u = [i \in 1..n |-> w[idx[i]]] /\ u \in Seq(Nat) /\ Len(u) = n
  <2>1. \A i \in 1..n : w[idx[i]] \in Nat
    BY <1>2, SMTT(20)
  <2>2. u = [i \in 1..n |-> w[idx[i]]]
    BY <1>2 DEF Reordered
  <2> HIDE DEF u
  <2> QED BY <2>1, <2>2
<1>5. back \in [1..n -> 1..n]
  BY <1>3
<1> HIDE DEF back, u
<1>6. Differ(back, n)
  <2> SUFFICES ASSUME NEW x \in 1..n, NEW y \in 1..n, x # y, back[x] = back[y] PROVE FALSE
    BY DEF Differ
  <2>1. o[x] = o[y]
    BY <1>3
  <2> QED BY <1>1, <2>1 DEF Differ
<1>7. Covers(back, n, 1..n)
  <2> SUFFICES ASSUME NEW i \in 1..n PROVE \E x \in 1..n : back[x] = i
    BY <1>5 DEF Covers
  <2>1. PICK x \in 1..n : o[x] = idx[i]
    BY <1>1, <1>2 DEF Covers
  <2>2. back[x] = i
    BY <1>2, <1>3, <2>1 DEF Differ
  <2> QED BY <2>2
<1>8. Lists(back, 1..n)
  BY <1>5, <1>6, <1>7, ListsIntro
<1>9. \A x \in 1..n : u[back[x]] = w[o[x]]
  BY <1>3, <1>4
<1>10. Ascends(back, n, u)
  BY <1>9 DEF Ascends
<1>11. Kth(u, k) = u[back[k]]
  <2>1. u \in Seq(Nat) /\ Len(u) = n
    BY <1>4
  <2> QED BY ONLY n \in Nat, k \in 1..n, <2>1, <1>8, <1>10, KthSorted
<1> QED BY <1>9, <1>11 DEF u

-----------------------------------------------------------------------------
ByLength(w) ==
  Arrangement(Len(w), {p \in (DOMAIN w) \X (DOMAIN w) : w[p[1]] < w[p[2]]})

LEMMA LengthsAscend ==
  ASSUME NEW n \in Nat, NEW w \in Seq(Nat), Len(w) = n
  PROVE  Lists(ByLength(w), 1..n) /\ Ascends(ByLength(w), n, w)
<1> DEFINE before == {p \in (DOMAIN w) \X (DOMAIN w) : w[p[1]] < w[p[2]]}
           o == ByLength(w)
<1>1. \A a, b \in 1..n : <<a, b>> \in before <=> w[a] < w[b]
  OBVIOUS
<1>2. \A a \in 1..n : w[a] \in Nat
  OBVIOUS
<1>3. o = Arrangement(n, before)
  BY DEF ByLength
<1> HIDE DEF before, o
<1>4. Sorts(before, n)
  BY <1>1, <1>2, SMTT(20) DEF Sorts
<1>5. InOrder(o, n, before) /\ Lists(o, 1..n)
  BY <1>3, <1>4, ArrangementOrders, ArrangementLists
<1>6. o \in [1..n -> 1..n]
  BY <1>5, ListsLength, ListsFacts
<1>7. Ascends(o, n, w)
  <2> SUFFICES ASSUME NEW i \in 1..n, NEW j \in 1..n, i < j PROVE w[o[i]] <= w[o[j]]
    BY DEF Ascends
  <2>1. o[i] \in 1..n /\ o[j] \in 1..n
    BY <1>6
  <2>2. ~(w[o[j]] < w[o[i]])
    BY <1>1, <1>5, <2>1 DEF InOrder
  <2>3. w[o[i]] \in Nat /\ w[o[j]] \in Nat
    BY <1>2, <2>1
  <2> QED BY <2>2, <2>3
<1> QED BY <1>5, <1>7 DEF o

-----------------------------------------------------------------------------
(* Groups of equally many rows whose sums are apart by no more than G.     *)
Even(s, k, n, w, G) ==
  /\ \A i \in 1..k : Counted(s[i], n, w)
  /\ \A i, j \in 1..k : s[i].sum <= s[j].sum + G
  /\ \A i, j \in 1..k : Len(s[i].rows) = Len(s[j].rows)
EvenStates(k, n, w, G) == {s \in [1..k -> Groups] : Even(s, k, n, w, G) /\ Descending(s, k)}

LEMMA PairEven ==
  ASSUME NEW n \in Nat, NEW w \in [1..n -> Nat], \A x \in 1..n : w[x] >= 1, NEW k \in Nat, NEW G \in Nat,
         NEW s, Even(s, k, n, w, G), Descending(s, k),
         NEW t, Even(t, k, n, w, G), Descending(t, k),
         NEW u \in [1..k -> Groups], Paired(u, s, t, k)
  PROVE  Even(u, k, n, w, G)
<1> DEFINE back(i) == k + 1 - i
<1>1. /\ \A i \in 1..k : back(i) \in 1..k
      /\ \A i, j \in 1..k : i < j => back(j) < back(i)
  OBVIOUS
<1>2. \A i \in 1..k : u[i].sum = s[i].sum + t[back(i)].sum
                      /\ u[i].rows = s[i].rows \o t[back(i)].rows
  BY DEF Paired
<1> HIDE DEF back
<1>3. \A i \in 1..k : Counted(s[i], n, w) /\ Counted(t[i], n, w)
  BY DEF Even
<1>4. ASSUME NEW i \in 1..k PROVE s[i].sum \in Nat /\ t[i].sum \in Nat
  <2>1. Counted(s[i], n, w) /\ Counted(t[i], n, w)
    BY <1>3
  <2>2. s[i].sum \in Nat
    BY <2>1, CountedFacts
  <2>3. t[i].sum \in Nat
    BY <2>1, CountedFacts
  <2> QED BY <2>2, <2>3
<1>5. ASSUME NEW i \in 1..k
      PROVE  /\ Counted(u[i], n, w)
             /\ Len(u[i].rows) = Len(s[i].rows) + Len(t[back(i)].rows)
  <2>1. Counted(s[i], n, w) /\ Counted(t[back(i)], n, w) /\ u[i] \in Groups
    BY <1>1, <1>3
  <2>2. u[i].sum = s[i].sum + t[back(i)].sum /\ u[i].rows = s[i].rows \o t[back(i)].rows
    BY <1>2
  <2>3. /\ Counted(u[i], n, w)
        /\ Len(u[i].rows) = Len(s[i].rows) + Len(t[back(i)].rows)
        /\ \A m : Weighed(s[i], m, w) \/ Weighed(t[back(i)], m, w) => Weighed(u[i], m, w)
    BY <2>1, <2>2, CountedPair
  <2> QED BY <2>3
<1>6. ASSUME NEW i \in 1..k, NEW j \in 1..k PROVE Len(u[i].rows) = Len(u[j].rows)
  <2>1. Len(s[i].rows) = Len(s[j].rows) /\ Len(t[back(i)].rows) = Len(t[back(j)].rows)
    BY <1>1 DEF Even
  <2> QED BY <1>5, <2>1
<1>7. ASSUME NEW i \in 1..k, NEW j \in 1..k PROVE u[i].sum <= u[j].sum + G
  <2> DEFINE a == s[i].sum
             b == s[j].sum
             c == t[back(i)].sum
             d == t[back(j)].sum
  <2>1. a \in Nat /\ b \in Nat /\ c \in Nat /\ d \in Nat /\ u[i].sum = a + c /\ u[j].sum = b + d
    BY <1>1, <1>2, <1>4
  <2>2. a <= b + G /\ c <= d + G
    BY <1>1 DEF Even
  <2>3. i < j => c <= d
    BY <1>1 DEF Descending
  <2>4. j < i => a <= b
    BY DEF Descending
  <2>5. i = j => a = b /\ c = d
    OBVIOUS
  <2> HIDE DEF a, b, c, d
  <2>6. a + c <= (b + d) + G
    <3>1. i < j \/ j < i \/ i = j
      OBVIOUS
    <3> QED BY <2>1, <2>2, <2>3, <2>4, <2>5, <3>1
  <2> QED BY <2>1, <2>6
<1> QED BY <1>5, <1>6, <1>7 DEF Even

LEMMA EvenReordered ==
  ASSUME NEW n, NEW w, NEW k \in Nat, NEW G, NEW s, Even(s, k, n, w, G), NEW p, Lists(p, 1..k)
  PROVE  Even(Reordered(s, p), k, n, w, G)
<1>1. p \in [1..k -> 1..k] /\ DOMAIN p = 1..k
  BY ListsFacts, ListsLength
<1> DEFINE t == Reordered(s, p)
<1>2. \A i \in 1..k : t[i] = s[p[i]] /\ p[i] \in 1..k
  BY <1>1 DEF Reordered
<1> HIDE DEF t
<1>3. \A i \in 1..k : Counted(t[i], n, w)
  BY <1>2 DEF Even
<1>4. \A i, j \in 1..k : t[i].sum <= t[j].sum + G
  BY <1>2 DEF Even
<1>5. \A i, j \in 1..k : Len(t[i].rows) = Len(t[j].rows)
  BY <1>2, ZenonT(30) DEF Even
<1> QED BY <1>3, <1>4, <1>5 DEF Even, t

LEMMA EvenMerged ==
  ASSUME NEW n \in Nat, NEW w \in [1..n -> Nat], \A x \in 1..n : w[x] >= 1, NEW k \in Nat, NEW G \in Nat,
         NEW s \in EvenStates(k, n, w, G), NEW t \in EvenStates(k, n, w, G)
  PROVE  MergedStates(s, t) \in EvenStates(k, n, w, G)
<1>1. /\ s \in [1..k -> Groups] /\ Even(s, k, n, w, G) /\ Descending(s, k)
      /\ t \in [1..k -> Groups] /\ Even(t, k, n, w, G) /\ Descending(t, k)
  BY DEF EvenStates
<1>2. PICK u, p :
           /\ u \in [1..k -> Groups] /\ Paired(u, s, t, k) /\ Lists(p, 1..k)
           /\ MergedStates(s, t) = Reordered(u, p)
           /\ Descending(MergedStates(s, t), k)
  BY <1>1, MergedPairs
<1>3. Even(u, k, n, w, G)
  BY <1>1, <1>2, PairEven
<1>4. Even(Reordered(u, p), k, n, w, G)
  BY <1>2, <1>3, EvenReordered
<1>5. Reordered(u, p) \in [1..k -> Groups]
  <2>1. p \in [1..k -> 1..k] /\ DOMAIN p = 1..k
    BY <1>2, ListsFacts, ListsLength
  <2>2. u \in [1..k -> Groups]
    BY <1>2
  <2> QED BY ONLY <2>1, <2>2 DEF Reordered
<1> QED BY <1>2, <1>4, <1>5 DEF EvenStates

(* The neighbours in the order of length, k to a block: the last of each   *)
(* block is no longer than the first by more than G.                       *)
Blocks(w, k, m, G) ==
  \A j \in 1..m : w[ByLength(w)[j * k]] <= w[ByLength(w)[(j - 1) * k + 1]] + G

LEMMA FirstStatesEven ==
  ASSUME NEW k \in Nat, k >= 1, NEW m \in Nat, m >= 1, NEW n \in Nat, n = m * k,
         NEW w \in Seq(Nat), Len(w) = n, NEW G \in Nat, Blocks(w, k, m, G)
  PROVE  FirstStates(w, k, TRUE) \in [1..m -> EvenStates(k, n, w, G)]
<1> DEFINE order == ByLength(w)
           Alone(row) == [sum |-> w[row], rows |-> <<row>>]
           Place(j, i) == (j - 1) * k + i
           State(j) == [i \in 1..k |-> Alone(order[Place(j, i)])]
           q == [j \in 1..m |-> Ordered(State(j))]
<1>1. w \in [1..n -> Nat] /\ \A i \in 1..n : w[i] \in Nat
  OBVIOUS
<1>2. order \in [1..n -> 1..n] /\ Ascends(order, n, w)
  BY LengthsAscend, ListsFacts, ListsLength
<1>3. FirstStates(w, k, TRUE) = q
  <2>1. n \div k = m
    BY Multiple
  <2> QED BY <2>1 DEF FirstStates, ByLength
<1>4. \A j \in 1..m : w[order[j * k]] <= w[order[Place(j, 1)]] + G
  BY DEF Blocks
<1> HIDE DEF order
<1>5. ASSUME NEW row \in 1..n
      PROVE  /\ Alone(row) \in Groups /\ Alone(row).sum = w[row] /\ Alone(row).rows = <<row>>
             /\ Counted(Alone(row), n, w)
  <2>1. <<row>> \in Seq(Nat) /\ <<row>> \in Seq(1..n) /\ w[row] \in Int
    BY <1>1
  <2>2. Alone(row).sum = w[row] /\ Alone(row).rows = <<row>> /\ Alone(row) \in Groups
    BY <2>1, FieldsOfGroup
  <2>3. SumOver(<<row>>, w) = w[row]
    BY <1>1, SumOne
  <2> HIDE DEF Alone
  <2> QED BY <2>1, <2>2, <2>3 DEF Counted
<1>6. \A j \in 1..m, i \in 1..k : Place(j, i) \in 1..n
  <2>1. k # 0
    OBVIOUS
  <2>2. \A j \in 1..m, i \in 1..k : (j - 1) * k + i \in 1..(m * k)
    BY <2>1, Grid
  <2> QED BY <2>2
<1>7. \A j \in 1..m : Place(j, k) = j * k
  BY OneMore
<1>8. \A j \in 1..m, i, h \in 1..k : i < h => Place(j, i) < Place(j, h)
  <2> SUFFICES ASSUME NEW j \in 1..m, NEW i \in 1..k, NEW h \in 1..k, i < h
               PROVE  Place(j, i) < Place(j, h)
    OBVIOUS
  <2> DEFINE y == (j - 1) * k
  <2>1. y \in Int
    BY OneMore
  <2> HIDE DEF y
  <2>2. y + i < y + h
    BY <2>1
  <2> QED BY <2>2 DEF y
<1> HIDE DEF Alone, Place
<1>9. ASSUME NEW j \in 1..m PROVE Ordered(State(j)) \in EvenStates(k, n, w, G)
  <2> DEFINE s == State(j)
             o(i) == order[Place(j, i)]
  <2>1. 1 \in 1..k /\ k \in 1..k
    OBVIOUS
  <2>2. \A i \in 1..k : o(i) \in 1..n /\ s[i] = Alone(o(i))
    BY <1>2, <1>6
  <2>3. s \in [1..k -> Groups]
    BY <1>5, <2>2
  <2> HIDE DEF s
  <2>4. \A i \in 1..k : /\ Counted(s[i], n, w) /\ s[i].sum = w[o(i)] /\ s[i].rows = <<o(i)>>
                        /\ w[o(i)] \in Nat
    BY <1>1, <1>5, <2>2
  <2>5. \A i, h \in 1..k : i < h => w[o(i)] <= w[o(h)]
    BY <1>2, <1>6, <1>8 DEF Ascends
  <2>6. w[o(k)] <= w[o(1)] + G
    BY <1>4, <1>7
  <2> HIDE DEF o
  <2>7. \A i \in 1..k : (i < k \/ i = k) /\ (1 < i \/ i = 1)
    OBVIOUS
  <2>8. \A i \in 1..k : w[o(i)] <= w[o(k)] /\ w[o(1)] <= w[o(i)]
    BY <2>1, <2>4, <2>5, <2>7
  <2>9. ASSUME NEW i \in 1..k, NEW h \in 1..k PROVE s[i].sum <= s[h].sum + G
    <3>1. w[o(i)] <= w[o(k)] /\ w[o(1)] <= w[o(h)]
      BY <2>8
    <3>2. w[o(i)] \in Nat /\ w[o(k)] \in Nat /\ w[o(1)] \in Nat /\ w[o(h)] \in Nat
      BY <2>1, <2>4
    <3> DEFINE a == w[o(i)]
               b == w[o(k)]
               c == w[o(1)]
               d == w[o(h)]
    <3>4. /\ a \in Nat /\ b \in Nat /\ c \in Nat /\ d \in Nat
          /\ a <= b /\ c <= d /\ b <= c + G
      BY <2>6, <3>1, <3>2
    <3> HIDE DEF a, b, c, d
    <3>5. a <= d + G
      BY ONLY <3>4, G \in Nat
    <3>3. w[o(i)] <= w[o(h)] + G
      BY <3>5 DEF a, d
    <3> QED BY <2>4, <3>3
  <2>10. \A i \in 1..k : Len(s[i].rows) = 1
    <3> SUFFICES ASSUME NEW i \in 1..k PROVE Len(s[i].rows) = 1
      OBVIOUS
    <3>1. s[i].rows = <<o(i)>>
      BY <2>4
    <3> QED BY ONLY <3>1
  <2>11. Even(s, k, n, w, G)
    BY <2>4, <2>9, <2>10 DEF Even
  <2>12. PICK p : Lists(p, 1..k) /\ Ordered(s) = Reordered(s, p) /\ Descending(Ordered(s), k)
    BY <2>3, OrderedDescends
  <2>13. Even(Ordered(s), k, n, w, G)
    BY <2>11, <2>12, EvenReordered
  <2>14. Ordered(s) \in [1..k -> Groups]
    <3>1. p \in [1..k -> 1..k] /\ DOMAIN p = 1..k
      BY <2>12, ListsFacts, ListsLength
    <3> QED BY <2>3, <2>12, <3>1 DEF Reordered
  <2> QED BY <2>12, <2>13, <2>14 DEF EvenStates, s
<1> HIDE DEF State
<1> QED BY <1>3, <1>9

LEMMA GroupsEven ==
  ASSUME NEW k \in Nat, k >= 1, NEW m \in Nat, m >= 1, NEW n \in Nat, n = m * k,
         NEW w \in Seq(Nat), Len(w) = n, \A x \in 1..n : w[x] >= 1, NEW G \in Nat, Blocks(w, k, m, G)
  PROVE  Differenced(FirstStates(w, k, TRUE)) \in EvenStates(k, n, w, G)
<1> DEFINE q == FirstStates(w, k, TRUE)
           C == EvenStates(k, n, w, G)
<1>1. q \in [1..m -> C]
  BY FirstStatesEven
<1>2. w \in [1..n -> Nat]
  OBVIOUS
<1>3. \A s, t \in C : MergedStates(s, t) \in C
  BY <1>2, EvenMerged
<1> HIDE DEF q, C
<1>4. Differenced(q) \in C
  BY <1>1, <1>3, DifferencedIn
<1> QED BY <1>4 DEF q, C

-----------------------------------------------------------------------------
(* u is s with t behind it.                                                *)
Follows(u, s, t) ==
  /\ Len(u) = Len(s) + Len(t)
  /\ \A x \in 1..Len(s) : u[x] = s[x]
  /\ \A x \in 1..Len(t) : u[Len(s) + x] = t[x]

LEMMA Joined ==
  ASSUME NEW R, NEW s \in Seq(R), NEW t \in Seq(R)
  PROVE  s \o t \in Seq(R) /\ Follows(s \o t, s, t)
<1> DEFINE u == s \o t
<1>1. s \o t \in Seq(R) /\ Len(u) = Len(s) + Len(t)
  OBVIOUS
<1>2. \A x \in 1..Len(s) : u[x] = s[x]
  OBVIOUS
<1>3. ASSUME NEW x \in 1..Len(t) PROVE u[Len(s) + x] = t[x]
  <2>1. Len(s) + x \in 1..(Len(s) + Len(t)) /\ Len(s) + x > Len(s) /\ (Len(s) + x) - Len(s) = x
    OBVIOUS
  <2> QED BY <2>1
<1> QED BY <1>1, <1>2, <1>3 DEF Follows

(* Parts of the same size in a row: row x of part i is at (i - 1) * l + x.  *)
Laid(c, parts, k, l) ==
  /\ Len(c) = k * l
  /\ \A i \in 1..k : \A x \in 1..l : c[(i - 1) * l + x] = parts[i][x]

LEMMA LaidNext ==
  ASSUME NEW R, NEW l \in Nat, NEW m \in Nat, m >= 1, NEW parts,
         NEW s \in Seq(R), Laid(s, parts, m - 1, l),
         NEW t \in Seq(R), Len(t) = l, t = parts[m]
  PROVE  Laid(s \o t, parts, m, l)
<1> DEFINE j == m - 1
           a == j * l
           b == m * l
           u == s \o t
<1>1. j \in Nat /\ a \in Nat /\ b \in Nat /\ b = a + l
  <2>1. j \in Nat /\ m = j + 1
    OBVIOUS
  <2> HIDE DEF j
  <2>2. (j + 1) * l = j * l + l
    BY <2>1, OneMore
  <2>3. j * l \in Nat
    BY <2>1
  <2> QED BY <2>1, <2>2, <2>3
<1>2. Len(s) = a /\ \A i \in 1..j : \A x \in 1..l : s[(i - 1) * l + x] = parts[i][x]
  BY DEF Laid
<1>3. \A i \in 1..j : \A x \in 1..l : (i - 1) * l + x \in 1..a
  <2> SUFFICES ASSUME NEW i \in 1..j, NEW x \in 1..l PROVE (i - 1) * l + x \in 1..(j * l)
    OBVIOUS
  <2>1. l # 0
    OBVIOUS
  <2> QED BY <1>1, <2>1, Grid
<1> HIDE DEF a, b
<1>4. Len(u) = b /\ (\A y \in 1..a : u[y] = s[y]) /\ (\A x \in 1..l : u[a + x] = t[x])
  <2>1. Follows(u, s, t)
    BY Joined DEF u
  <2> QED BY <1>1, <1>2, <2>1 DEF Follows
<1> HIDE DEF u
<1>5. ASSUME NEW i \in 1..m, NEW x \in 1..l PROVE u[(i - 1) * l + x] = parts[i][x]
  <2>1. CASE i = m
    <3>1. (i - 1) * l = a
      BY <2>1 DEF a
    <3> QED BY <1>4, <2>1, <3>1
  <2>2. CASE i # m
    <3>1. i \in 1..j
      BY <2>2
    <3> QED BY <1>2, <1>3, <1>4, <3>1
  <2> QED BY <2>1, <2>2
<1> QED BY <1>4, <1>5 DEF Laid, u, b

LEMMA FlatBlocks ==
  ASSUME NEW R, NEW k \in Nat, NEW l \in Nat, NEW parts \in [1..k -> Seq(R)],
         \A i \in 1..k : Len(parts[i]) = l
  PROVE  Concatenated(parts) \in Seq(R) /\ Laid(Concatenated(parts), parts, k, l)
<1>1. PICK h : Joins(h, parts, k) /\ Concatenated(parts) = h[k]
  BY FlattenWalk
<1> DEFINE D == [m \in 0..k |-> {s \in Seq(R) : Laid(s, parts, m, l)}]
<1>2. \A m \in 0..k : D[m] = {s \in Seq(R) : Laid(s, parts, m, l)}
  OBVIOUS
<1> HIDE DEF D
<1>3. h[0] \in D[0]
  <2>1. h[0] = << >> /\ h[0] \in Seq(R) /\ Len(h[0]) = 0 /\ 0 * l = 0 /\ 0 \in 0..k
    BY <1>1 DEF Joins
  <2>2. Laid(h[0], parts, 0, l)
    BY <2>1 DEF Laid
  <2> QED BY <1>2, <2>1, <2>2
<1>4. ASSUME NEW m \in 1..k, h[m - 1] \in D[m - 1]
      PROVE  h[m] \in D[m]
  <2>1. m - 1 \in 0..k /\ m \in 0..k /\ m \in Nat /\ m >= 1
    OBVIOUS
  <2>2. h[m - 1] \in Seq(R) /\ Laid(h[m - 1], parts, m - 1, l)
    BY <1>2, <1>4, <2>1
  <2>3. h[m] = h[m - 1] \o parts[m] /\ parts[m] \in Seq(R) /\ Len(parts[m]) = l
    BY <1>1 DEF Joins
  <2>4. Laid(h[m - 1] \o parts[m], parts, m, l)
    BY <2>1, <2>2, <2>3, LaidNext
  <2>5. h[m - 1] \o parts[m] \in Seq(R)
    BY <2>2, <2>3
  <2> QED BY <1>2, <2>1, <2>3, <2>4, <2>5
<1>5. \A m \in 0..k : h[m] \in D[m]
  BY <1>3, <1>4, Stays
<1>6. k \in 0..k
  OBVIOUS
<1> QED BY <1>1, <1>2, <1>5, <1>6

-----------------------------------------------------------------------------
(* The sum of the numbers after place a up to place b.                     *)
SumBetween(u, a, b) == Total(SubSeq(u, a + 1, b))

LEMMA SumsJoin ==
  ASSUME NEW u \in Seq(Nat), NEW a \in 0..Len(u), NEW b \in a..Len(u), NEW c \in b..Len(u)
  PROVE  SumBetween(u, a, c) = SumBetween(u, a, b) + SumBetween(u, b, c)
<1> DEFINE s == SubSeq(u, a + 1, b)
           t == SubSeq(u, b + 1, c)
           v == SubSeq(u, a + 1, c)
<1>1. b \in 0..Len(u) /\ c \in a..Len(u) /\ a \in Nat /\ b \in Nat /\ c \in Nat
  OBVIOUS
<1>2. s \in Seq(Nat) /\ Len(s) = b - a /\ \A x \in 1..(b - a) : s[x] = u[a + x]
  BY PieceFacts
<1>3. t \in Seq(Nat) /\ Len(t) = c - b /\ \A x \in 1..(c - b) : t[x] = u[b + x]
  BY <1>1, PieceFacts
<1>4. v \in Seq(Nat) /\ Len(v) = c - a /\ \A x \in 1..(c - a) : v[x] = u[a + x]
  BY <1>1, PieceFacts
<1> HIDE DEF s, t, v
<1> DEFINE r == s \o t
           m == b - a
           p == c - b
<1>5. /\ r \in Seq(Nat) /\ Len(r) = m + p
      /\ \A x \in 1..m : r[x] = u[a + x]
      /\ \A x \in 1..p : r[m + x] = u[b + x]
  <2>1. r \in Seq(Nat) /\ Follows(r, s, t)
    BY <1>2, <1>3, Joined
  <2> HIDE DEF r
  <2> QED BY <1>2, <1>3, <2>1 DEF Follows
<1>7. m \in Nat /\ p \in Nat /\ c - a = m + p /\ b = a + m
  BY <1>1
<1> HIDE DEF r, m, p
<1>8. ASSUME NEW x \in 1..(m + p) PROVE r[x] = u[a + x]
  <2>1. CASE x <= m
    <3>1. x \in 1..m
      BY <1>7, <2>1
    <3> QED BY <1>5, <3>1
  <2>2. CASE x > m
    <3> DEFINE y == x - m
    <3>1. y \in 1..p /\ x = m + y /\ b + y = a + x
      BY <1>1, <1>7, <2>2
    <3> HIDE DEF y
    <3> QED BY <1>5, <3>1
  <2>3. x <= m \/ x > m
    BY <1>7
  <2> QED BY <2>1, <2>2, <2>3
<1>9. v = s \o t
  <2>1. Len(v) = m + p /\ \A x \in 1..(m + p) : v[x] = r[x]
    BY <1>4, <1>7, <1>8
  <2>2. v = r
    BY <1>4, <1>5, <2>1
  <2> QED BY <2>2 DEF r
<1>6. Total(v) = Total(s) + Total(t)
  BY <1>2, <1>3, <1>9, TotalConcat
<1> QED BY <1>6 DEF SumBetween, s, t, v

-----------------------------------------------------------------------------
LEMMA AscendingLists ==
  ASSUME NEW S, NEW rows, Lists(rows, S)
  PROVE  Lists(Ascending(rows), S)
<1>1. Len(rows) \in Nat
  BY ListsFacts
<1>2. PICK p : Lists(p, 1..Len(rows)) /\ Ascending(rows) = Reordered(rows, p)
  BY <1>1, ArrangementLists DEF Ascending
<1> QED BY <1>2, ListsReordered

(* k partitions of m rows each; the sums are lo at least and no more than  *)
(* G above it.                                                             *)
Balanced(parts, k, m, n, w, lo, G) ==
  /\ parts \in [1..k -> Seq(1..n)] /\ lo \in Nat
  /\ \A i \in 1..k : /\ Len(parts[i]) = m
                     /\ SumOver(parts[i], w) \in Nat
                     /\ lo <= SumOver(parts[i], w) /\ SumOver(parts[i], w) <= lo + G

LEMMA PartitionsBalanced ==
  ASSUME NEW k \in Nat, k >= 1, NEW m \in Nat, m >= 1, NEW n \in Nat, n = m * k,
         NEW w \in Seq(Nat), Len(w) = n, \A x \in 1..n : w[x] >= 1, NEW G \in Nat, Blocks(w, k, m, G)
  PROVE  \E lo : Balanced(Partitions(w, k, TRUE), k, m, n, w, lo, G)
<1> DEFINE groups == Differenced(FirstStates(w, k, TRUE))
           parts == Partitions(w, k, TRUE)
<1>1. parts = [i \in 1..k |-> Ascending(groups[i].rows)]
  BY DEF Partitions
<1>2. \A i \in 1..k : parts[i] = Ascending(groups[i].rows)
  BY <1>1
<1>3. parts = [i \in 1..k |-> parts[i]]
  BY <1>1
<1>4. n >= 1 /\ TRUE \in BOOLEAN
  <2>1. 1 * k <= m * k
    BY Growing
  <2> QED BY <2>1
<1>5. Len(w) = IF TRUE THEN m * k ELSE m
  OBVIOUS
<1>6. Holds(groups, k, 1..Len(w))
  <2>1. Queue(FirstStates(w, k, TRUE), m, k, 1..Len(w))
    BY <1>4, <1>5, FirstStatesHold
  <2> QED BY <2>1, DifferencedHolds
<1>7. groups \in EvenStates(k, n, w, G)
  BY GroupsEven
<1>8. Lists(Concatenated(parts), 1..Len(w))
  BY <1>4, <1>5, PartitionsList
<1> HIDE DEF groups, parts
<1>9. PICK B : Deals(B, k, 1..n) /\ \A i \in 1..k : Lists(groups[i].rows, B[i])
  BY <1>6 DEF Holds
<1>10. /\ Even(groups, k, n, w, G)
       /\ w \in [1..n -> Nat] /\ k \in 1..k
  BY <1>7 DEF EvenStates
<1>11. ASSUME NEW i \in 1..k
       PROVE  /\ parts[i] \in Seq(1..n) /\ Len(parts[i]) = Len(groups[i].rows)
              /\ SumOver(parts[i], w) = groups[i].sum /\ groups[i].sum \in Nat
  <2>1. Lists(groups[i].rows, B[i]) /\ B[i] \subseteq 1..n
    BY <1>9 DEF Deals
  <2>2. Lists(parts[i], B[i])
    BY <1>2, <2>1, AscendingLists
  <2>3. SumOver(parts[i], w) = SumOver(groups[i].rows, w) /\ Len(parts[i]) = Len(groups[i].rows)
    BY <1>10, <2>1, <2>2, SumListed
  <2>4. groups[i].sum = SumOver(groups[i].rows, w) /\ Counted(groups[i], n, w)
    BY <1>10 DEF Even, Counted
  <2>5. groups[i].sum \in Nat
    BY <1>10, <2>4, CountedFacts
  <2>6. parts[i] \in Seq(1..n)
    BY <2>1, <2>2 DEF Lists
  <2> QED BY <2>3, <2>4, <2>5, <2>6
<1> DEFINE l == Len(parts[k])
<1>12. l \in Nat /\ \A i \in 1..k : Len(parts[i]) = l
  <2>1. \A i \in 1..k : Len(groups[i].rows) = Len(groups[k].rows)
    BY <1>10 DEF Even
  <2>2. \A i \in 1..k : Len(parts[i]) = Len(groups[i].rows)
    BY <1>11
  <2>3. l \in Nat
    BY <1>10, <1>11
  <2> QED BY ONLY <1>10, <2>1, <2>2, <2>3
<1>13. parts \in [1..k -> Seq(1..n)]
  BY <1>3, <1>11
<1>14. l = m
  <2> HIDE DEF l
  <2>1. Laid(Concatenated(parts), parts, k, l)
    BY <1>12, <1>13, FlatBlocks
  <2>2. Len(Concatenated(parts)) = k * l /\ Len(Concatenated(parts)) = n
    BY <1>8, <2>1, ListsLength DEF Laid
  <2>3. l * k = m * k
    <3>1. k * l = l * k
      BY <1>12
    <3> QED BY <2>2, <3>1
  <2>4. k # 0 /\ (l * k) \div k = l /\ (m * k) \div k = m
    BY <1>12, Multiple
  <2> QED BY <2>3, <2>4
<1> DEFINE s(i) == groups[i].sum
<1>15. ASSUME NEW i \in 1..k
       PROVE  s(k) <= s(i) /\ s(i) <= s(k) + G
  <2>1. s(i) <= s(k) + G
    BY <1>10 DEF Even
  <2>2. Descending(groups, k)
    BY <1>7 DEF EvenStates
  <2>3. i < k => s(k) <= s(i)
    BY <1>10, <2>2 DEF Descending
  <2>4. i < k \/ i = k
    OBVIOUS
  <2>5. s(i) \in Nat
    BY <1>11
  <2> QED BY <2>1, <2>3, <2>4, <2>5
<1>16. Balanced(parts, k, m, n, w, s(k), G)
  <2> SUFFICES ASSUME NEW i \in 1..k
               PROVE  /\ Len(parts[i]) = m /\ SumOver(parts[i], w) \in Nat
                      /\ s(k) <= SumOver(parts[i], w) /\ SumOver(parts[i], w) <= s(k) + G
    BY <1>10, <1>11, <1>13 DEF Balanced
  <2> QED BY <1>11, <1>12, <1>14, <1>15
<1> QED BY <1>16 DEF parts

-----------------------------------------------------------------------------
(* The rows put into the order of the partitions: those of partition i are *)
(* together, and sum up to what it does.                                   *)
PutTogether(idx, parts, k, m, n, w) ==
  /\ k \in Nat /\ m \in Nat /\ m >= 1 /\ n \in Nat /\ n = k * m
  /\ w \in Seq(Nat) /\ Len(w) = n
  /\ parts \in [1..k -> Seq(1..n)] /\ \A i \in 1..k : Len(parts[i]) = m
  /\ idx \in Seq(1..n) /\ Laid(idx, parts, k, m)

LEMMA PartSums ==
  ASSUME NEW k, NEW m, NEW n, NEW w, NEW parts, NEW idx, PutTogether(idx, parts, k, m, n, w),
         NEW i \in 1..k
  PROVE  SumBetween(Reordered(w, idx), (i - 1) * m, i * m) = SumOver(parts[i], w)
<1>0. /\ k \in Nat /\ m \in Nat /\ m >= 1 /\ n \in Nat /\ n = k * m
      /\ w \in Seq(Nat) /\ Len(w) = n
      /\ parts \in [1..k -> Seq(1..n)] /\ Len(parts[i]) = m
      /\ idx \in Seq(1..n) /\ Laid(idx, parts, k, m)
  BY DEF PutTogether
<1> DEFINE u == Reordered(w, idx)
           a == (i - 1) * m
           b == i * m
           t == SubSeq(u, a + 1, b)
           v == Weights(parts[i], w)
<1>1. idx \in [1..n -> 1..n] /\ Len(idx) = n /\ DOMAIN idx = 1..n
  <2>1. Len(idx) = n
    BY <1>0 DEF Laid
  <2>2. idx \in Seq(1..n) /\ n \in Nat
    BY <1>0
  <2>4. DOMAIN idx = 1..n /\ \A x \in 1..n : idx[x] \in 1..n
    BY ONLY <2>1, <2>2
  <2>3. idx = [x \in 1..n |-> idx[x]]
    BY ONLY <2>1, <2>2
  <2> QED BY ONLY <2>1, <2>2, <2>3, <2>4
<1>2. u = [x \in 1..n |-> w[idx[x]]] /\ \A x \in 1..n : w[idx[x]] \in Nat
  <2>1. u = [x \in 1..n |-> w[idx[x]]]
    BY <1>1 DEF Reordered
  <2>2. \A x \in 1..n : w[x] \in Nat
    BY ONLY <1>0
  <2> QED BY ONLY <1>1, <2>1, <2>2
<1>3. u \in Seq(Nat) /\ Len(u) = n /\ \A x \in 1..n : u[x] = w[idx[x]]
  <2>1. n \in Nat
    BY <1>0
  <2> HIDE DEF u
  <2> QED BY ONLY <1>2, <2>1
<1>4. i - 1 \in Nat /\ i \in Nat /\ i <= k
  BY <1>0
<1>5. a \in Nat /\ b = a + m /\ b <= n
  <2>1. i * m <= k * m /\ i * m \in Nat /\ (i - 1) * m \in Nat
    BY <1>0, <1>4, Growing
  <2>2. (i - 1) * m = i * m - m
    BY <1>0, <1>4, OneMore
  <2> QED BY <1>0, <2>1, <2>2
<1>6. \A x \in 1..m : idx[a + x] = parts[i][x] /\ a + x \in 1..n
  <2>1. \A x \in 1..m : idx[a + x] = parts[i][x]
    BY <1>0 DEF Laid
  <2>2. n \in Nat /\ m \in Nat
    BY <1>0
  <2> HIDE DEF a, b
  <2>3. \A x \in 1..m : a + x \in 1..n
    BY ONLY <1>5, <2>2
  <2> QED BY ONLY <2>1, <2>3
<1> HIDE DEF a, b, u
<1>7. a \in 0..Len(u) /\ b \in a..Len(u) /\ b - a = m
  BY ONLY <1>0, <1>3, <1>5
<1>8. t \in Seq(Nat) /\ Len(t) = m /\ \A x \in 1..m : t[x] = u[a + x]
  <2>1. u \in Seq(Nat)
    BY <1>3
  <2>2. /\ SubSeq(u, a + 1, b) \in Seq(Nat)
        /\ Len(SubSeq(u, a + 1, b)) = b - a
        /\ \A x \in 1..(b - a) : SubSeq(u, a + 1, b)[x] = u[a + x]
    BY ONLY <1>7, <2>1, PieceFacts
  <2> QED BY <1>7, <2>2
<1>9. /\ v \in Seq(Nat) /\ Len(v) = m /\ SumOver(parts[i], w) = Total(v)
      /\ \A x \in 1..m : v[x] = w[parts[i][x]]
  <2>1. w \in [1..n -> Nat] /\ parts[i] \in Seq(1..n)
    BY <1>0, SMTT(20)
  <2>2. /\ Weights(parts[i], w) \in Seq(Nat) /\ Len(Weights(parts[i], w)) = Len(parts[i])
        /\ \A x \in 1..Len(parts[i]) : Weights(parts[i], w)[x] = w[parts[i][x]]
        /\ SumOver(parts[i], w) = Total(Weights(parts[i], w))
        /\ SumOver(parts[i], w) \in Nat
    BY <2>1, WeightsFacts
  <2> QED BY <1>0, <2>2
<1> HIDE DEF t, v
<1>10. ASSUME NEW x \in 1..m PROVE t[x] = v[x]
  <2>1. t[x] = u[a + x] /\ v[x] = w[parts[i][x]] /\ idx[a + x] = parts[i][x] /\ a + x \in 1..n
    BY <1>6, <1>8, <1>9
  <2>2. u[a + x] = w[idx[a + x]]
    BY ONLY <1>3, <2>1
  <2> QED BY ONLY <2>1, <2>2
<1>11. t = v
  BY <1>8, <1>9, <1>10
<1> QED BY <1>9, <1>11 DEF SumBetween, t, u, a, b

LEMMA BetweenFacts ==
  ASSUME NEW u \in Seq(Nat), NEW a \in 0..Len(u), NEW b \in a..Len(u)
  PROVE  SumBetween(u, a, b) \in Nat
<1>1. SubSeq(u, a + 1, b) \in Seq(Nat) /\ Len(SubSeq(u, a + 1, b)) = b - a
  BY PieceFacts
<1>2. b - a \in Nat
  OBVIOUS
<1>3. Total(SubSeq(u, a + 1, b)) \in Nat
  BY <1>1, <1>2, EachWithinTotal
<1> QED BY <1>3 DEF SumBetween

LEMMA NothingBetween ==
  ASSUME NEW u \in Seq(Nat), NEW a \in 0..Len(u)
  PROVE  SumBetween(u, a, a) = 0
<1>1. a \in a..Len(u)
  OBVIOUS
<1>2. SumBetween(u, a, a) = SumBetween(u, a, a) + SumBetween(u, a, a) /\ SumBetween(u, a, a) \in Nat
  BY <1>1, SumsJoin, BetweenFacts
<1> QED BY <1>2

(* Neighbouring partitions together.                                       *)
LEMMA LoadBounds ==
  ASSUME NEW k \in Nat, NEW m \in Nat, NEW u \in Seq(Nat), Len(u) = k * m,
         NEW lo \in Nat, NEW hi \in Nat,
         \A i \in 1..k : /\ lo <= SumBetween(u, (i - 1) * m, i * m)
                         /\ SumBetween(u, (i - 1) * m, i * m) <= hi,
         NEW c \in Nat, NEW g \in Nat, c + g <= k
  PROVE  /\ SumBetween(u, c * m, (c + g) * m) \in Nat
         /\ g * lo <= SumBetween(u, c * m, (c + g) * m)
         /\ SumBetween(u, c * m, (c + g) * m) <= g * hi
<1> DEFINE at(j) == (c + j) * m
           f == [j \in 0..g |-> SumBetween(u, at(0), at(j))]
           D == [j \in 0..g |-> {x \in Nat : j * lo <= x /\ x <= j * hi}]
<1>1. \A j \in 0..g : /\ f[j] = SumBetween(u, at(0), at(j))
                      /\ D[j] = {x \in Nat : j * lo <= x /\ x <= j * hi}
  OBVIOUS
<1>2. ASSUME NEW j \in 0..g PROVE at(j) \in 0..Len(u)
  <2>1. c + j \in Nat /\ c + j <= k
    OBVIOUS
  <2>2. (c + j) * m \in Nat /\ (c + j) * m <= k * m /\ k * m \in Nat
    BY <2>1, Growing
  <2> QED BY <2>2
<1>3. ASSUME NEW j \in 1..g
      PROVE  /\ at(j - 1) <= at(j)
             /\ lo <= SumBetween(u, at(j - 1), at(j)) /\ SumBetween(u, at(j - 1), at(j)) <= hi
  <2> DEFINE i == c + j
  <2>1. i \in 1..k /\ c + (j - 1) = i - 1 /\ i \in Nat /\ i - 1 \in Nat /\ i - 1 <= i
    OBVIOUS
  <2> HIDE DEF i
  <2>2. (i - 1) * m <= i * m
    BY <2>1, Growing
  <2>3. at(j) = i * m /\ at(j - 1) = (i - 1) * m
    BY <2>1 DEF i
  <2> QED BY <2>1, <2>2, <2>3
<1> HIDE DEF at, f, D
<1>4. f[0] \in D[0]
  <2>1. 0 \in 0..g /\ 0 * lo = 0 /\ 0 * hi = 0
    OBVIOUS
  <2>2. SumBetween(u, at(0), at(0)) = 0
    BY <1>2, <2>1, NothingBetween
  <2> QED BY <1>1, <2>1, <2>2, SMTT(20)
<1>5. ASSUME NEW j \in 1..g, f[j - 1] \in D[j - 1]
      PROVE  f[j] \in D[j]
  <2>1. j - 1 \in 0..g /\ j \in 0..g /\ 0 \in 0..g
    OBVIOUS
  <2> DEFINE x == f[j - 1]
             y == SumBetween(u, at(j - 1), at(j))
             p == j * lo
             q == j * hi
  <2>2. at(j - 1) \in 0..Len(u) /\ at(j) \in 0..Len(u) /\ at(j - 1) <= at(j)
    BY <1>2, <1>3, <2>1
  <2>3. y \in Nat /\ lo <= y /\ y <= hi
    <3>1. at(j) \in at(j - 1)..Len(u)
      BY <2>2
    <3> QED BY <1>3, <2>2, <3>1, BetweenFacts
  <2>4. at(0) <= at(j - 1)
    <3>1. c \in Nat /\ c + (j - 1) \in Nat /\ c <= c + (j - 1) /\ c + 0 = c
      OBVIOUS
    <3>2. c * m <= (c + (j - 1)) * m
      BY <3>1, Growing
    <3> QED BY <3>1, <3>2 DEF at
  <2>5. f[j] = x + y
    <3>1. at(0) \in 0..Len(u)
      BY <1>2, <2>1
    <3>2. at(j - 1) \in at(0)..Len(u) /\ at(j) \in at(j - 1)..Len(u)
      BY <2>2, <2>4, <3>1
    <3>3. SumBetween(u, at(0), at(j)) = SumBetween(u, at(0), at(j - 1)) + y
      BY <3>1, <3>2, SumsJoin
    <3> QED BY <1>1, <2>1, <3>3
  <2>6. x \in Nat /\ (j - 1) * lo <= x /\ x <= (j - 1) * hi
    BY <1>1, <1>5, <2>1
  <2>7. /\ (j - 1) * lo = p - lo /\ p \in Int
        /\ (j - 1) * hi = q - hi /\ q \in Int
    BY OneMore
  <2> HIDE DEF x, y, p, q
  <2>8. x + y \in Nat /\ p <= x + y /\ x + y <= q
    BY <2>3, <2>6, <2>7
  <2> QED BY <1>1, <2>1, <2>5, <2>8 DEF p, q
<1>6. \A j \in 0..g : f[j] \in D[j]
  BY <1>4, <1>5, Stays
<1>7. g \in 0..g /\ c + 0 = c
  OBVIOUS
<1>8. f[g] = SumBetween(u, c * m, (c + g) * m)
  BY <1>1, <1>7 DEF at
<1> QED BY <1>1, <1>6, <1>7, <1>8

-----------------------------------------------------------------------------
(* Load and Gap, for given rows.                                           *)
LoadOf(rows, d) == SumOver([i \in 1..(Len(rows) \div (cfg.world \div cfg.sp)) |-> i],
                           Tokens(Part(rows, "log_prob", d * cfg.sp)))
WidestGap(w, k) ==
  Max({Kth(w, j * k) - Kth(w, (j - 1) * k + 1) : j \in 1..(Len(w) \div k)})
GapOf(rows) == WidestGap(Tokens(rows), cfg.world)
EvenLoads(rows) == \A d, e \in DpRanks : LoadOf(rows, d) - LoadOf(rows, e) <= cfg.sp * GapOf(rows)

(* No block of neighbours is wider than the widest, in whatever order the  *)
(* lengths are given.                                                      *)
LEMMA GapsWithin ==
  ASSUME NEW k \in Nat, k >= 1, NEW m \in Nat, m >= 1, NEW n \in Nat, n = m * k,
         NEW w \in Seq(Nat), Len(w) = n, NEW idx, Lists(idx, 1..n)
  PROVE  WidestGap(Reordered(w, idx), k) \in Nat /\ Blocks(w, k, m, WidestGap(Reordered(w, idx), k))
<1> DEFINE o == ByLength(w)
           u == Reordered(w, idx)
           last(j) == j * k
           first(j) == (j - 1) * k + 1
           gap(j) == Kth(u, last(j)) - Kth(u, first(j))
           S == {gap(j) : j \in 1..m}
           b == Total(w)
<1>1. Lists(o, 1..n) /\ Ascends(o, n, w)
  BY LengthsAscend
<1>2. o \in [1..n -> 1..n]
  BY <1>1, ListsFacts, ListsLength
<1>3. \A i \in 1..n : Kth(u, i) = w[o[i]]
  BY <1>1, KthReordered
<1>4. Len(u) \div k = m
  <2>1. DOMAIN idx = 1..n
    BY ListsFacts, ListsLength
  <2>2. Len(u) = n
    BY <2>1 DEF Reordered
  <2> HIDE DEF u
  <2>3. k # 0 /\ (m * k) \div k = m
    BY Multiple
  <2> QED BY <2>2, <2>3
<1>5. b \in Nat /\ \A i \in 1..n : w[i] <= b /\ w[i] \in Nat
  <2>1. b \in Nat /\ \A i \in 1..n : w[i] <= b
    BY EachWithinTotal
  <2> QED BY <2>1
<1>6. ASSUME NEW j \in 1..m PROVE last(j) \in 1..n /\ first(j) \in 1..n /\ first(j) <= last(j)
  <2>1. k # 0 /\ 1 \in 1..k /\ k \in 1..k
    OBVIOUS
  <2>2. (j - 1) * k + 1 \in 1..(m * k) /\ (j - 1) * k + k \in 1..(m * k)
    BY <2>1, Grid
  <2>3. (j - 1) * k = j * k - k /\ j * k \in Int
    BY OneMore
  <2> QED BY <2>2, <2>3
<1>7. WidestGap(u, k) = Max(S)
  BY <1>4 DEF WidestGap
<1> HIDE DEF o, u, b, last, first
<1>8. ASSUME NEW j \in 1..m
      PROVE  gap(j) = w[o[last(j)]] - w[o[first(j)]] /\ gap(j) \in 0..b
  <2> DEFINE x == w[o[last(j)]]
             y == w[o[first(j)]]
  <2>1. last(j) \in 1..n /\ first(j) \in 1..n /\ first(j) <= last(j)
    BY <1>6
  <2>2. gap(j) = x - y
    BY <1>3, <2>1
  <2>3. x \in Nat /\ y \in Nat /\ x <= b
    BY <1>2, <1>5, <2>1
  <2>4. y <= x
    <3>1. first(j) < last(j) \/ first(j) = last(j)
      BY <2>1
    <3>2. CASE first(j) < last(j)
      BY <1>1, <2>1, <3>2 DEF Ascends
    <3>3. CASE first(j) = last(j)
      BY <2>3, <3>3
    <3> QED BY <3>1, <3>2, <3>3
  <2> HIDE DEF x, y, gap
  <2>5. gap(j) \in 0..b
    BY <1>5, <2>2, <2>3, <2>4
  <2> QED BY <2>2, <2>5 DEF x, y
<1>9. S \subseteq 0..b /\ \A j \in 1..m : gap(j) \in S
  BY <1>8
<1>10. S # {}
  <2>1. 1 \in 1..m
    OBVIOUS
  <2> QED BY <1>9, <2>1
<1> HIDE DEF S, gap
<1>11. Max(S) \in S /\ \A x \in S : x <= Max(S)
  BY <1>5, <1>9, <1>10, MaxOfBounded
<1>12. Max(S) \in Nat
  <2>1. \A x \in 0..b : x \in Nat
    BY <1>5
  <2>2. Max(S) \in 0..b
    BY <1>9, <1>11
  <2> QED BY <2>1, <2>2
<1>13. ASSUME NEW j \in 1..m PROVE w[o[last(j)]] <= w[o[first(j)]] + Max(S)
  <2>1. gap(j) <= Max(S) /\ gap(j) = w[o[last(j)]] - w[o[first(j)]]
    BY <1>8, <1>9, <1>11
  <2>2. w[o[last(j)]] \in Nat /\ w[o[first(j)]] \in Nat
    BY <1>2, <1>5, <1>6
  <2> QED BY <1>12, <2>1, <2>2
<1>14. Blocks(w, k, m, Max(S))
  BY <1>13 DEF Blocks, o, last, first
<1> QED BY <1>7, <1>12, <1>14 DEF u

(* The tokens of the rows of a dp rank: from partition to partition.       *)
LEMMA LoadBetween ==
  ASSUME cfg \in Settings, lens \in [Rows -> Lengths[cfg]],
         NEW rows \in Seq(Rows), Len(rows) = NumRows,
         NEW m \in Nat, m >= 1, NumRows = m * cfg.world, NEW d \in DpRanks
  PROVE  /\ LoadOf(rows, d)
              = SumBetween(Tokens(rows), (d * cfg.sp) * m, (d * cfg.sp + cfg.sp) * m)
         /\ d * cfg.sp \in Nat /\ d * cfg.sp + cfg.sp <= cfg.world
<1>1. PICK g \in Nat, v \in Nat, size \in Nat : Shared("log_prob", g, v, size)
  BY SharedRows
<1>2. /\ v >= 1 /\ size >= 1 /\ g >= 1 /\ cfg.sp = g
      /\ cfg.world = v * g /\ cfg.world \div g = v /\ NumRows = size * v
      /\ \A c \in 0..(v - 1) : c * g \in Ranks /\ (c * g) \div g = c
  BY <1>1 DEF Shared, Group
<1>3. d \in 0..(v - 1) /\ d \in Nat
  BY <1>2 DEF DpRanks
<1>4. size = m * g
  <2>1. m * (v * g) = (m * g) * v
    OBVIOUS
  <2>2. m * g \in Nat
    BY <1>2
  <2> DEFINE x == m * g
  <2>3. x \in Nat /\ size * v = x * v
    BY <1>2, <2>1, <2>2
  <2> HIDE DEF x
  <2>4. (size * v) \div v = size /\ (x * v) \div v = x
    BY <1>2, <2>3, Multiple
  <2>5. size = x
    BY <2>3, <2>4
  <2> QED BY <2>5 DEF x
<1> DEFINE r == d * g
           a == (r \div g) * size
           u == Tokens(rows)
<1>5. r \in Ranks /\ r \div g = d
  BY <1>2, <1>3
<1>6. PartAt(rows, "log_prob", r, a, size)
  BY <1>1, <1>5, PartPlace
<1>7. a = d * size
  BY <1>5
<1>8. a = r * m /\ a + size = (r + g) * m
  <2>1. d * (m * g) = (d * g) * m
    BY <1>3
  <2>2. ((d * g) + g) * m = (d * g) * m + m * g
    BY <1>3
  <2> QED BY <1>4, <1>7, <2>1, <2>2
<1>9. r \in Nat /\ r + g <= cfg.world
  <2>1. d + 1 \in Nat /\ d + 1 <= v
    BY <1>2, <1>3
  <2>2. (d + 1) * g <= v * g /\ (d + 1) * g = d * g + g /\ d * g \in Nat
    BY <1>2, <1>3, <2>1, Growing, OneMore
  <2> QED BY <1>2, <2>2
<1> DEFINE e == a + size
           t == SubSeq(rows, a + 1, e)
           s == SubSeq(u, a + 1, e)
<1>10. /\ a \in 0..Len(rows) /\ e \in a..Len(rows)
       /\ Part(rows, "log_prob", r) = t
  BY <1>6 DEF PartAt
<1>11. Len(rows) \div (cfg.world \div cfg.sp) = size
  <2>1. (size * v) \div v = size
    BY <1>2, Multiple
  <2> QED BY <1>2, <2>1
<1>12. u \in Seq(Nat) /\ Len(u) = Len(rows) /\ u = [x \in DOMAIN rows |-> PromptTokens + lens[rows[x]]]
  BY TokensFacts DEF Tokens
<1>13. e - a = size /\ a \in Nat
  BY <1>2, <1>10
<1> HIDE DEF r, a, u, e
<1>14. /\ t \in Seq(Rows) /\ Len(t) = e - a /\ \A x \in 1..(e - a) : t[x] = rows[a + x]
  BY <1>10, PieceFacts
<1>15. /\ s \in Seq(Nat) /\ Len(s) = e - a /\ \A x \in 1..(e - a) : s[x] = u[a + x]
  <2>1. a \in 0..Len(u) /\ e \in a..Len(u) /\ u \in Seq(Nat)
    BY <1>10, <1>12
  <2>2. /\ SubSeq(u, a + 1, e) \in Seq(Nat)
        /\ Len(SubSeq(u, a + 1, e)) = e - a
        /\ \A x \in 1..(e - a) : SubSeq(u, a + 1, e)[x] = u[a + x]
    BY ONLY <2>1, PieceFacts
  <2> QED BY <2>2
<1>16. Tokens(t) = s
  <2>1. \A x \in 1..size : a + x \in DOMAIN rows
    <3>1. DOMAIN rows = 1..Len(rows) /\ Len(rows) \in Nat
      OBVIOUS
    <3> QED BY <1>10, <1>13, <3>1
  <2> HIDE DEF t, s
  <2>2. DOMAIN t = 1..size /\ DOMAIN s = 1..size /\ s = [x \in 1..size |-> s[x]]
    BY <1>13, <1>14, <1>15
  <2>3. Tokens(t) = [x \in 1..size |-> PromptTokens + lens[t[x]]]
    BY <2>2 DEF Tokens
  <2>4. \A x \in 1..size : s[x] = PromptTokens + lens[t[x]]
    BY <1>12, <1>13, <1>14, <1>15, <2>1
  <2> QED BY <2>2, <2>3, <2>4
<1>17. LoadOf(rows, d) = SumOver([i \in 1..size |-> i], s)
  BY <1>2, <1>10, <1>11, <1>16 DEF LoadOf, r
<1>18. DOMAIN s = 1..size
  BY <1>13, <1>15
<1>19. SumOver([i \in 1..size |-> i], s) = Total(s)
  <2> HIDE DEF s
  <2>1. SumOver([i \in DOMAIN s |-> i], s) = Total(s)
    BY <1>15, SumOfPlaces
  <2> QED BY <1>18, <2>1
<1>20. LoadOf(rows, d) = SumBetween(u, a, e)
  BY <1>17, <1>19 DEF SumBetween
<1>21. a = r * m /\ e = (r + g) * m
  BY <1>8 DEF e
<1> QED BY <1>2, <1>9, <1>20, <1>21 DEF r, u

LEMMA BalancedLoads ==
  ASSUME cfg \in Settings, cfg.balance, lens \in [Rows -> Lengths[cfg]], NEW old, Lists(old, Rows),
         NEW idx, idx = Concatenated(Partitions(Tokens(old), cfg.world, TRUE))
  PROVE  EvenLoads(Reordered(old, idx))
<1> DEFINE k == cfg.world
           g == cfg.sp
           n == NumRows
           m == NumRows \div cfg.world
           w == Tokens(old)
           parts == Partitions(w, k, TRUE)
           new == Reordered(old, idx)
           u == Reordered(w, idx)
           G == WidestGap(u, k)
<1>1. k \in Nat /\ k # 0 /\ n \in Nat /\ n # 0 /\ n % k = 0 /\ g \in Nat
  BY SettingFacts
<1>2. m \in Nat /\ n = m * k /\ m >= 1
  <2>1. m \in Nat /\ m * k \in Nat /\ n = m * k + (n % k)
    BY <1>1, Division
  <2> HIDE DEF m, k, n
  <2>2. n = m * k
    BY <1>1, <2>1
  <2>3. m # 0
    BY <1>1, <2>1, <2>2
  <2> QED BY <2>1, <2>2, <2>3
<1>3. old \in Seq(Rows) /\ Len(old) = n
  BY RowsCounted DEF Lists
<1>4. w \in Seq(Nat) /\ Len(w) = n /\ \A x \in 1..n : w[x] >= 1
  BY <1>3, TokensFacts
<1>5. w = [x \in DOMAIN old |-> PromptTokens + lens[old[x]]]
  BY DEF Tokens
<1>6. idx = Concatenated(parts)
  OBVIOUS
<1> HIDE DEF k, n, m, w
<1>7. Lists(idx, 1..n)
  <2>1. Len(w) = IF TRUE THEN m * k ELSE m
    BY <1>2, <1>4
  <2>2. k >= 1 /\ TRUE \in BOOLEAN
    BY <1>1
  <2>3. Lists(Concatenated(parts), 1..Len(w))
    BY <1>1, <1>2, <1>4, <2>1, <2>2, PartitionsList
  <2> QED BY <1>4, <1>6, <2>3
<1>8. G \in Nat /\ Blocks(w, k, m, G)
  <2>1. k >= 1
    BY <1>1
  <2> QED BY <1>1, <1>2, <1>4, <1>7, <2>1, GapsWithin
<1> HIDE DEF G
<1>9. PICK lo : Balanced(parts, k, m, n, w, lo, G)
  <2>1. k >= 1
    BY <1>1
  <2> QED BY <1>1, <1>2, <1>4, <1>8, <2>1, PartitionsBalanced
<1> HIDE DEF parts
<1>10. /\ parts \in [1..k -> Seq(1..n)] /\ lo \in Nat
       /\ \A i \in 1..k : /\ Len(parts[i]) = m /\ SumOver(parts[i], w) \in Nat
                          /\ lo <= SumOver(parts[i], w) /\ SumOver(parts[i], w) <= lo + G
  BY <1>9 DEF Balanced
<1>11. idx \in Seq(1..n) /\ Laid(idx, parts, k, m)
  <2>1. \A i \in 1..k : Len(parts[i]) = m
    BY <1>10
  <2>2. Concatenated(parts) \in Seq(1..n) /\ Laid(Concatenated(parts), parts, k, m)
    BY <1>1, <1>2, <1>10, <2>1, FlatBlocks
  <2> QED BY <1>6, <2>2
<1>12. DOMAIN idx = 1..n /\ Len(idx) = n /\ \A x \in 1..n : idx[x] \in 1..n
  <2>1. Len(idx) = n
    BY ONLY <1>1, <1>7, ListsLength
  <2>2. DOMAIN idx = 1..Len(idx) /\ idx \in [1..Len(idx) -> 1..n]
    BY ONLY <1>7, ListsFacts
  <2> QED BY ONLY <2>1, <2>2
<1>13. new \in Seq(Rows) /\ Len(new) = n
  <2>1. \A x \in 1..n : old[x] \in Rows
    BY ONLY <1>1, <1>3
  <2>2. \A x \in 1..n : old[idx[x]] \in Rows
    BY ONLY <1>12, <2>1
  <2>3. new = [x \in 1..n |-> old[idx[x]]]
    BY ONLY <1>12 DEF Reordered, new
  <2> HIDE DEF new
  <2> QED BY ONLY <1>1, <2>2, <2>3
<1>14. Tokens(new) = u
  <2>1. new = [x \in 1..n |-> old[idx[x]]] /\ DOMAIN new = 1..n /\ DOMAIN old = 1..n
    <3>1. new = [x \in 1..n |-> old[idx[x]]]
      BY ONLY <1>12 DEF Reordered, new
    <3>2. DOMAIN old = 1..n
      BY ONLY <1>1, <1>3
    <3> QED BY ONLY <3>1, <3>2
  <2>2. Tokens(new) = [x \in 1..n |-> PromptTokens + lens[old[idx[x]]]]
    BY <2>1 DEF Tokens
  <2>3. u = [x \in 1..n |-> w[idx[x]]]
    BY <1>12 DEF Reordered
  <2>4. \A x \in 1..n : w[idx[x]] = PromptTokens + lens[old[idx[x]]]
    BY <1>5, <1>12, <2>1
  <2> QED BY <2>2, <2>3, <2>4
<1>15. u \in Seq(Nat) /\ Len(u) = n
  <2>1. \A x \in 1..n : w[x] \in Nat
    BY ONLY <1>1, <1>4
  <2>2. \A x \in 1..n : w[idx[x]] \in Nat
    BY ONLY <1>12, <2>1
  <2>3. u = [x \in 1..n |-> w[idx[x]]]
    BY ONLY <1>12 DEF Reordered, u
  <2> HIDE DEF u
  <2> QED BY ONLY <1>1, <2>2, <2>3
<1> DEFINE hi == lo + G
<1>16. ASSUME NEW i \in 1..k
       PROVE  lo <= SumBetween(u, (i - 1) * m, i * m) /\ SumBetween(u, (i - 1) * m, i * m) <= hi
  <2>1. n = k * m
    BY <1>1, <1>2
  <2>3. SumBetween(u, (i - 1) * m, i * m) = SumOver(parts[i], w)
    <3>1. k \in Nat /\ m \in Nat /\ m >= 1 /\ n \in Nat
      BY <1>1, <1>2
    <3>2. w \in Seq(Nat) /\ Len(w) = n
      BY <1>4
    <3>3. parts \in [1..k -> Seq(1..n)]
      BY <1>10
    <3>5. \A j \in 1..k : Len(parts[j]) = m
      BY <1>10
    <3>6. PutTogether(idx, parts, k, m, n, w)
      BY ONLY <1>11, <2>1, <3>1, <3>2, <3>3, <3>5 DEF PutTogether
    <3>4. SumBetween(Reordered(w, idx), (i - 1) * m, i * m) = SumOver(parts[i], w)
      BY ONLY <3>6, i \in 1..k, PartSums
    <3> QED BY <3>4 DEF u
  <2> QED BY <1>10, <2>3
<1>17. GapOf(new) = G
  BY <1>14 DEF GapOf, G, k
<1> HIDE DEF new, u
<1>18. hi \in Nat
  BY <1>8, <1>10
<1>19. Len(u) = k * m
  BY <1>1, <1>2, <1>15
<1> HIDE DEF hi
<1>20. ASSUME NEW d \in DpRanks
       PROVE  LoadOf(new, d) \in Nat /\ g * lo <= LoadOf(new, d) /\ LoadOf(new, d) <= g * hi
  <2> DEFINE c == d * g
  <2>1. LoadOf(new, d) = SumBetween(Tokens(new), c * m, (c + g) * m) /\ c \in Nat /\ c + g <= k
    BY <1>2, <1>13, LoadBetween DEF k, n
  <2> HIDE DEF c, g
  <2>2. /\ SumBetween(u, c * m, (c + g) * m) \in Nat
        /\ g * lo <= SumBetween(u, c * m, (c + g) * m)
        /\ SumBetween(u, c * m, (c + g) * m) <= g * hi
    BY <1>1, <1>2, <1>10, <1>15, <1>16, <1>18, <1>19, <2>1, LoadBounds
  <2> QED BY <1>14, <2>1, <2>2
<1>21. g * hi = g * lo + g * G /\ g * lo \in Nat /\ g * G \in Nat
  BY <1>1, <1>8, <1>10 DEF hi
<1>22. ASSUME NEW d \in DpRanks, NEW e \in DpRanks
       PROVE  LoadOf(new, d) - LoadOf(new, e) <= g * G
  <2> DEFINE x == LoadOf(new, d)
             y == LoadOf(new, e)
             p == g * lo
             q == g * G
  <2>1. x \in Nat /\ y \in Nat /\ p <= y /\ x <= p + q /\ p \in Nat /\ q \in Nat
    BY <1>20, <1>21
  <2> HIDE DEF x, y, p, q
  <2>2. x - y <= q
    BY <2>1
  <2> QED BY <2>2 DEF x, y, q
<1> QED BY <1>17, <1>22 DEF EvenLoads, new

-----------------------------------------------------------------------------
(* The rows stay as _balance_batch has dealt them out; until then no       *)
(* column has been computed.                                               *)
BalanceInv ==
  /\ pc = "balance" => DOMAIN batch = {"prompt", "response"}
  /\ cfg.balance /\ pc \in Afterwards \ {"balance"} => EvenLoads(batch["response"])

LEMMA LoadsDealt ==
  ASSUME BatchInv, BalanceInv, UnionGenerated \/ Balance
  PROVE  BalanceInv'
<1>1. CASE UnionGenerated
  <2>1. /\ UNCHANGED cfg /\ DOMAIN batch' = {"prompt", "response"}
        /\ pc' = IF cfg.balance THEN "balance" ELSE "log_prob"
    BY <1>1 DEF UnionGenerated
  <2>2. cfg'.balance => pc' = "balance"
    BY <2>1
  <2> QED BY <2>1, <2>2 DEF BalanceInv
<1>2. CASE Balance
  <2> DEFINE old == batch["response"]
             idx == Concatenated(Partitions(Tokens(old), cfg.world, TRUE))
             new == Reordered(old, idx)
  <2>1. /\ pc = "balance" /\ pc' = "log_prob" /\ UNCHANGED <<cfg, lens>>
        /\ batch' = [key \in DOMAIN batch |-> Reordered(batch[key], idx)]
    BY <1>2 DEF Balance
  <2>2. cfg \in Settings /\ cfg.balance /\ lens \in [Rows -> Lengths[cfg]] /\ Aligned(batch)
    BY <2>1 DEF BatchInv, Afterwards
  <2>3. Lists(old, Rows) /\ "response" \in DOMAIN batch
    BY <2>2 DEF Aligned
  <2>4. batch'["response"] = new
    BY <2>1, <2>3
  <2> HIDE DEF old, idx
  <2>5. EvenLoads(new)
    BY <2>2, <2>3, BalancedLoads DEF idx
  <2> HIDE DEF new
  <2>6. cfg' = cfg /\ lens' = lens
    BY <2>1
  <2>7. EvenLoads(batch["response"])' <=> EvenLoads(new)
    BY ONLY <2>4, <2>6 DEF EvenLoads, DpRanks, LoadOf, GapOf, WidestGap, Tokens, Part, Group
  <2> QED BY <2>1, <2>5, <2>7 DEF BalanceInv
<1> QED BY <1>1, <1>2

(* A step with the same rows, lengths and ranks.                           *)
LEMMA LoadsKept ==
  ASSUME BatchInv, BalanceInv, UNCHANGED <<cfg, lens>>, batch'["response"] = batch["response"],
         \/ UNCHANGED <<pc, batch>>
         \/ {pc, pc'} \subseteq Afterwards \ {"balance"}
  PROVE  BalanceInv'
<1>1. EvenLoads(batch["response"])' <=> EvenLoads(batch["response"])
  BY DEF EvenLoads, DpRanks, LoadOf, GapOf, WidestGap, Tokens, Part, Group
<1> QED BY <1>1 DEF BalanceInv

LEMMA BalanceStep ==
  ASSUME BatchInv, BalanceInv, [Next]_vars
  PROVE  BalanceInv'
<1>1. CASE Fetch \/ StopProfile
  <2>1. pc' \notin Afterwards
    BY <1>1 DEF Fetch, StopProfile, Afterwards
  <2> QED BY <2>1 DEF BalanceInv, Afterwards
<1>2. CASE UnionGenerated \/ Balance
  BY <1>2, LoadsDealt
<1>3. CASE (\E r \in Ranks : RankStep(r)) \/ UNCHANGED vars
  <2>1. UNCHANGED <<cfg, lens, pc, batch>>
    BY <1>3 DEF RankStep, Generate, Forward, Update, vars
  <2> QED BY <2>1, LoadsKept
<1>4. CASE AfterUpdate \/ Segment \/ RewardRetried
  <2>1. UNCHANGED <<cfg, lens, batch>> /\ {pc, pc'} \subseteq Afterwards \ {"balance"}
    BY <1>4, AfterCallStays DEF AfterUpdate, Segment, RewardRetried, Afterwards
  <2> QED BY <2>1, LoadsKept
<1>5. CASE UnionComputed \/ Judge
  <2>1. UNCHANGED <<cfg, lens>> /\ {pc, pc'} \subseteq Afterwards \ {"balance"}
    BY <1>5, AfterCallStays DEF UnionComputed, Judge, Afterwards
  <2>2. "response" \in DOMAIN batch
    BY <2>1 DEF BatchInv, Aligned
  <2>3. batch'["response"] = batch["response"]
    <3>1. CASE UnionComputed
      BY <2>2, <3>1 DEF UnionComputed
    <3>2. CASE Judge
      BY <2>2, <3>2 DEF Judge
    <3> QED BY <1>5, <3>1, <3>2
  <2> QED BY <2>1, <2>3, LoadsKept
<1> QED BY <1>1, <1>2, <1>3, <1>4, <1>5 DEF Next, DriverStep, Terminated

LEMMA LoadsBalanced ==
  ASSUME BatchInv, BalanceInv
  PROVE  RanksBalanced
<1> SUFFICES ASSUME cfg.balance, "log_prob" \in DOMAIN batch,
                    NEW d \in DpRanks, NEW e \in DpRanks
             PROVE  Load(d) - Load(e) <= cfg.sp * Gap
  BY DEF RanksBalanced, DpRanks
<1>1. pc \in Afterwards \ {"balance"}
  <2>1. pc # "balance"
    BY DEF BalanceInv
  <2>2. batch # << >> /\ batch # [prompt |-> AllPrompts(cfg.prompts, cfg.n)]
    OBVIOUS
  <2> QED BY <2>1, <2>2 DEF BatchInv
<1>2. EvenLoads(batch["response"])
  BY <1>1 DEF BalanceInv
<1>3. /\ \A x : Load(x) = LoadOf(batch["response"], x)
      /\ Gap = GapOf(batch["response"])
  BY DEF Load, LoadOf, Gap, GapOf, WidestGap
<1> QED BY <1>2, <1>3 DEF EvenLoads

(* _balance_batch deals the rows out so that two dp ranks differ by no     *)
(* more than two neighbours in the order of length, as many rows apart as  *)
(* there are ranks; update_policy makes ppo_epochs passes and takes every  *)
(* row of a dp rank in exactly one micro-batch of each, none is empty, and *)
(* with use_dynamic_bsz none goes over the room by a whole row: for every  *)
(* number of ranks, rows and epochs, and whatever the lengths of the       *)
(* answers.                                                                *)
THEOREM WorkIsEven == Spec => []EvenWork
<1>1. Init => TrainInv /\ BalanceInv
  BY DEF Init, TrainInv, BalanceInv, Updated, Afterwards
<1>2. BatchInv /\ BalanceInv /\ TrainInv => EvenWork
  BY TrainedRows, LoadsBalanced DEF EvenWork
<1> QED BY <1>1, <1>2, ColumnsInit, ColumnsStep, TrainedStep, BalanceStep, PTL DEF Spec
=============================================================================
