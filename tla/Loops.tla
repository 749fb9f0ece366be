-------------------------------- MODULE Loops --------------------------------
(***************************************************************************)
(* Facts about loops over a sequence, as the models write them: a fold     *)
(* with an operator that makes of the result so far and an element the     *)
(* next result.  A module that proves something about such a loop          *)
(* instantiates this one with that operator.  Induction is on sets of      *)
(* numbers: a property that fails somewhere has a least number at which it *)
(* fails.                                                                  *)
(***************************************************************************)
EXTENDS Sequences, Naturals, FiniteSetsExt, FiniteSetTheorems, WellFoundedInduction, TLAPS

CONSTANT Step(_, _, _)   \* what the loop reads, the result so far, an element

(* The operators of SequencesExt that these loops use, as it defines them: *)
(* with that module every instance of this one would hold a copy of Bags   *)
(* and its theorems.  Where an instance is used, "DEF" relates the two.    *)
FoldLeft(op(_, _), base, seq) ==
    MapThenFoldSet(LAMBDA x, y : op(y, x), base, LAMBDA i : seq[i], LAMBDA S : Max(S), DOMAIN seq)
SetToSeq(S) == CHOOSE f \in [1..Cardinality(S) -> S] : IsInjective(f)
FlattenSeq(seqs) ==
    IF Len(seqs) = 0 THEN seqs
    ELSE LET flatten[i \in 1..Len(seqs)] ==
                 IF i = 1 THEN seqs[i] ELSE flatten[i - 1] \o seqs[i]
         IN  flatten[Len(seqs)]

-----------------------------------------------------------------------------
(* Numbers.                                                                *)

(* A set of numbers that is not empty has a least one.                     *)
LEMMA LeastNumber ==
    ASSUME NEW S, S \subseteq Nat, S # {}
    PROVE  \E m \in S : \A k \in S : m <= k
<1>1. PICK m \in S : \A k \in S : ~ (<<k, m>> \in OpToRel(<, Nat))
    BY NatLessThanWellFounded, WFMin
<1>2. \A k \in S : k \in Nat /\ m \in Nat /\ (<<k, m>> \in OpToRel(<, Nat) <=> k < m)
    BY DEF OpToRel
<1>3. \A k \in S : k \in Nat /\ m \in Nat /\ ~ (k < m)
    BY <1>1, <1>2
<1>4. \A k \in S : m <= k
    BY <1>3
<1> QED
    BY <1>4

(* Induction up to a bound.                                                *)
LEMMA InductionUpTo ==
    ASSUME NEW n \in Nat, NEW S, 0 \in S, \A k \in 1..n : k - 1 \in S => k \in S
    PROVE  \A k \in 0..n : k \in S
<1> DEFINE Bad == {k \in 0..n : k \notin S}
<1>1. CASE Bad = {}
    BY <1>1
<1>2. CASE Bad # {}
  <2>0. Bad \subseteq Nat /\ Bad \subseteq 0..n /\ \A k \in 0..n : k \in Bad <=> k \notin S
      OBVIOUS
  <2> HIDE DEF Bad
  <2>1. PICK m \in Bad : \A k \in Bad : m <= k
      BY <1>2, <2>0, LeastNumber
  <2>2. m \in 1..n
      BY <2>0, <2>1
  <2>3. m - 1 \in 0..n /\ ~ (m <= m - 1)
      BY <2>2
  <2>4. m - 1 \in S
      BY <2>0, <2>1, <2>3
  <2> QED
      BY <2>0, <2>1, <2>2, <2>4
<1> QED
    BY <1>1, <1>2

(* Induction on all numbers.                                               *)
LEMMA InductionOnNat ==
    ASSUME NEW S, 0 \in S, \A k \in Nat \ {0} : k - 1 \in S => k \in S
    PROVE  Nat \subseteq S
<1> SUFFICES ASSUME NEW n \in Nat PROVE n \in S
    OBVIOUS
<1>1. \A k \in 0..n : k \in S
    BY InductionUpTo
<1> QED
    BY <1>1

(* The greatest number up to n in a set.                                   *)
LEMMA MaxInRange ==
    ASSUME NEW n \in Nat, NEW t \in SUBSET (1..n), t # {}
    PROVE  /\ Max(t) \in t
           /\ \A k \in t : k <= Max(t)
<1> DEFINE Above == {k \in 0..n : \A j \in t : j <= k}
<1>1. PICK m \in Above : \A k \in Above : m <= k
  <2>1. n \in Above /\ Above \subseteq Nat
      OBVIOUS
  <2> HIDE DEF Above
  <2> QED
      BY <2>1, LeastNumber
<1>2. m \in t
  <2>1. CASE m = 0
    <3>1. PICK j \in t : TRUE
        OBVIOUS
    <3>2. j \in 1..n /\ j <= 0
        BY <2>1, <1>1
    <3> QED
        BY <3>2
  <2>2. CASE m # 0
    <3>1. m - 1 \in 0..n /\ m - 1 \notin Above
        BY <1>1, <2>2
    <3>2. PICK j \in t : ~ (j <= m - 1)
        BY <3>1
    <3>3. j \in 1..n /\ j <= m /\ m \in 0..n
        BY <1>1
    <3> QED
        BY <3>2, <3>3
  <2> QED
      BY <2>1, <2>2
<1>3. m \in t /\ \A k \in t : m >= k
    BY <1>1, <1>2
<1>4. Max(t) \in t /\ \A k \in t : Max(t) >= k
    BY <1>3 DEF Max
<1> QED
    BY <1>4

LEMMA MaxOfPrefix ==
    ASSUME NEW k \in Nat \ {0}
    PROVE  Max(1..k) = k /\ (1..k) \ {Max(1..k)} = 1..(k - 1)
<1>1. Max(1..k) \in 1..k /\ \A j \in 1..k : j <= Max(1..k)
  <2>1. 1..k \in SUBSET (1..k) /\ 1..k # {}
      OBVIOUS
  <2> QED
      BY <2>1, MaxInRange
<1>2. Max(1..k) = k
    BY <1>1
<1>3. (1..k) \ {k} = 1..(k - 1)
    OBVIOUS
<1> QED
    BY <1>2, <1>3

-----------------------------------------------------------------------------
(* Folds.                                                                  *)

(* The recursion by which a fold over n positions is defined, and that it  *)
(* has a solution: st gives a result and a position the next result.       *)
FoldSolution(g, n, base, st) ==
    \A t \in SUBSET (1..n) : g[t] = IF t = {} THEN base ELSE st[<<g[t \ {Max(t)}], Max(t)>>]

LEMMA FoldExists ==
    ASSUME NEW n \in Nat, NEW T, NEW base \in T, NEW st \in [T \X (1..n) -> T]
    PROVE  \E g \in [SUBSET (1..n) -> T] : FoldSolution(g, n, base, st)
<1> DEFINE Solves(m, g) == \A t \in SUBSET (1..m) :
                 g[t] = IF t = {} THEN base ELSE st[<<g[t \ {Max(t)}], Max(t)>>]
           S == {m \in 0..n : \E g \in [SUBSET (1..m) -> T] : Solves(m, g)}
<1>1. 0 \in S
  <2> DEFINE g == [t \in SUBSET (1..0) |-> base]
  <2>1. \A t \in SUBSET (1..0) : t = {}
      OBVIOUS
  <2>2. g \in [SUBSET (1..0) -> T] /\ Solves(0, g)
      BY <2>1
  <2> HIDE DEF g, Solves
  <2>3. \E h \in [SUBSET (1..0) -> T] : Solves(0, h)
      BY <2>2
  <2>4. 0 \in 0..n
      OBVIOUS
  <2> QED
      BY <2>3, <2>4
<1>2. ASSUME NEW m \in 1..n, m - 1 \in S PROVE m \in S
  <2>1. PICK h \in [SUBSET (1..(m - 1)) -> T] : Solves(m - 1, h)
      BY <1>2
  <2> DEFINE g == [t \in SUBSET (1..m) |->
                      IF m \in t THEN st[<<h[t \ {m}], m>>] ELSE h[t]]
  <2>2. \A t \in SUBSET (1..m) : /\ m \notin t => t \in SUBSET (1..(m - 1))
                                /\ t \ {m} \in SUBSET (1..(m - 1))
      OBVIOUS
  <2>3. g \in [SUBSET (1..m) -> T]
    <3> SUFFICES ASSUME NEW t \in SUBSET (1..m)
                 PROVE  (IF m \in t THEN st[<<h[t \ {m}], m>>] ELSE h[t]) \in T
        OBVIOUS
    <3>1. CASE m \in t
      <4>1. h[t \ {m}] \in T
          BY <2>2
      <4> QED
          BY <4>1, <3>1
    <3>2. CASE m \notin t
        BY <3>2, <2>2
    <3> QED
        BY <3>1, <3>2
  <2>4. ASSUME NEW t \in SUBSET (1..m), t # {}, m \in t
        PROVE  g[t] = st[<<g[t \ {Max(t)}], Max(t)>>]
    <3>1. Max(t) \in t /\ \A k \in t : k <= Max(t)
      <4>1. m \in Nat /\ t \in SUBSET (1..m) /\ t # {}
          BY <2>4
      <4> HIDE DEF g, S
      <4> QED
          BY <4>1, MaxInRange
    <3>2. Max(t) \in 1..m /\ m <= Max(t)
        BY <3>1, <2>4
    <3>2a. Max(t) = m
        BY <3>2
    <3>3. t \ {m} \in SUBSET (1..m) /\ m \notin t \ {m}
        OBVIOUS
    <3>4. g[t \ {m}] = h[t \ {m}]
        BY <3>3
    <3>5. g[t] = st[<<h[t \ {m}], m>>]
        BY <2>4
    <3> HIDE DEF g
    <3> QED
        BY <3>2a, <3>4, <3>5
  <2>5. ASSUME NEW t \in SUBSET (1..m), t # {}, m \notin t
        PROVE  g[t] = st[<<g[t \ {Max(t)}], Max(t)>>]
    <3>1. t \in SUBSET (1..(m - 1))
        BY <2>5, <2>2
    <3>2. t \ {Max(t)} \in SUBSET (1..m) /\ m \notin t \ {Max(t)}
        BY <2>5
    <3>3. g[t] = h[t] /\ g[t \ {Max(t)}] = h[t \ {Max(t)}]
        BY <2>5, <3>2
    <3>4. h[t] = st[<<h[t \ {Max(t)}], Max(t)>>]
        BY <2>1, <2>5, <3>1
    <3> HIDE DEF g
    <3> QED
        BY <3>3, <3>4
  <2>6. g[{}] = base
    <3>1. {} \in SUBSET (1..m) /\ {} \in SUBSET (1..(m - 1)) /\ m \notin {}
        OBVIOUS
    <3>2. h[{}] = base
        BY <2>1, <3>1
    <3> QED
        BY <3>1, <3>2
  <2> HIDE DEF g
  <2>7. Solves(m, g)
      BY <2>4, <2>5, <2>6
  <2> HIDE DEF Solves
  <2>8. \E f \in [SUBSET (1..m) -> T] : Solves(m, f)
      BY <2>3, <2>7
  <2> QED
      BY <2>8
<1>3. n \in 0..n /\ \A m \in 0..n : m \in S
  <2> HIDE DEF S
  <2> QED
    BY <1>1, <1>2, InductionUpTo
<1>4. PICK g \in [SUBSET (1..n) -> T] : Solves(n, g)
  <2> HIDE DEF Solves
  <2> QED
    BY <1>3
<1>5. FoldSolution(g, n, base, st)
    BY <1>4 DEF FoldSolution
<1> QED
    BY <1>5

(* A loop from start over s, its results after each element, and what it   *)
(* comes to.                                                               *)
Result(db, start, s) == FoldLeft(LAMBDA acc, x : Step(db, acc, x), start, s)
Runs(f, db, start, s) ==
    /\ f[0] = start
    /\ \A k \in 1..Len(s) : f[k] = Step(db, f[k - 1], s[k])

(* A set of results that the steps do not leave contains every one of a    *)
(* run.                                                                    *)
THEOREM RunStaysIn ==
    ASSUME NEW db, NEW T, NEW X, NEW start \in T, NEW s \in Seq(X),
           \A acc \in T, x \in X : Step(db, acc, x) \in T,
           NEW f, Runs(f, db, start, s)
    PROVE  \A k \in 0..Len(s) : f[k] \in T
<1> DEFINE S == {k \in 0..Len(s) : f[k] \in T}
<1>1. Len(s) \in Nat /\ \A k \in 1..Len(s) : s[k] \in X
    OBVIOUS
<1>2. 0 \in S
    BY <1>1 DEF Runs
<1>3. ASSUME NEW k \in 1..Len(s), k - 1 \in S PROVE k \in S
    BY <1>1, <1>3 DEF Runs
<1> HIDE DEF S
<1>4. \A k \in 0..Len(s) : k \in S
    BY <1>1, <1>2, <1>3, InductionUpTo
<1> QED
    BY <1>4 DEF S

(* The fold is the last result of a run.                                   *)
THEOREM FoldRuns ==
    ASSUME NEW db, NEW T, NEW X, NEW start \in T, NEW s \in Seq(X),
           \A acc \in T, x \in X : Step(db, acc, x) \in T
    PROVE  \E f : Runs(f, db, start, s) /\ Result(db, start, s) = f[Len(s)]
<1> DEFINE n == Len(s)
           st == [p \in T \X (1..n) |-> Step(db, p[1], s[p[2]])]
           Body(it) == [t \in SUBSET (1..n) |->
                          IF t = {} THEN start ELSE Step(db, it[t \ {Max(t)}], s[Max(t)])]
           iter == CHOOSE it : it = Body(it)
<1>1. n \in Nat /\ DOMAIN s = 1..n /\ \A k \in 1..n : s[k] \in X
    OBVIOUS
<1>2. st \in [T \X (1..n) -> T]
    BY <1>1
<1>3. PICK h \in [SUBSET (1..n) -> T] : FoldSolution(h, n, start, st)
  <2> HIDE DEF st, n
  <2> QED
      BY <1>1, <1>2, FoldExists
<1>4. h = Body(h)
  <2>1. ASSUME NEW t \in SUBSET (1..n), t # {}
        PROVE  h[t] = Step(db, h[t \ {Max(t)}], s[Max(t)])
    <3>1. Max(t) \in 1..n
        BY <1>1, <2>1, MaxInRange
    <3>2. h[t \ {Max(t)}] \in T
        OBVIOUS
    <3>3. <<h[t \ {Max(t)}], Max(t)>> \in T \X (1..n)
        BY <3>1, <3>2
    <3> QED
        BY <1>3, <2>1, <3>3 DEF FoldSolution
  <2>2. h[{}] = start
      BY <1>3 DEF FoldSolution
  <2> QED
      BY <2>1, <2>2
<1>5. iter = Body(iter)
  <2> HIDE DEF Body
  <2> QED
      BY <1>4
<1>6. Result(db, start, s) = iter[1..n]
    BY <1>1 DEF Result, FoldLeft, MapThenFoldSet
<1> HIDE DEF iter
<1> DEFINE f == [k \in 0..n |-> iter[1..k]]
<1>7. f[0] = start
  <2>1. 1..0 = {} /\ {} \in SUBSET (1..n) /\ 0 \in 0..n
      BY <1>1
  <2>2. iter[{}] = start
      BY <1>5, <2>1
  <2> QED
      BY <2>1, <2>2
<1>8. ASSUME NEW k \in 1..n PROVE f[k] = Step(db, f[k - 1], s[k])
  <2>0. n \in Nat /\ k \in 1..n
      BY <1>1
  <2>1. 1..k \in SUBSET (1..n) /\ 1..k # {} /\ k \in 0..n /\ k - 1 \in 0..n /\ k \in Nat \ {0}
    <3> HIDE DEF n
    <3>1. k \in Nat \ {0} /\ k \in 0..n /\ k - 1 \in 0..n /\ k \in 1..k
        BY <2>0
    <3>2. \A j \in 1..k : j \in 1..n
        BY <2>0
    <3> QED
        BY <3>1, <3>2
  <2>2. Max(1..k) = k /\ (1..k) \ {Max(1..k)} = 1..(k - 1)
      BY <2>1, MaxOfPrefix
  <2>3. iter[1..k] = Step(db, iter[1..(k - 1)], s[k])
      BY <1>5, <2>1, <2>2
  <2> QED
      BY <2>1, <2>3
<1>9. f[n] = iter[1..n] /\ DOMAIN f = 0..n /\ f = [k \in 0..n |-> f[k]]
    BY <1>1
<1> HIDE DEF f
<1>10. Runs(f, db, start, s)
    BY <1>7, <1>8 DEF Runs
<1> QED
    BY <1>6, <1>9, <1>10

(* A loop over no element, and over one more.                              *)
THEOREM ResultOfNone ==
    ASSUME NEW db, NEW T, NEW X, NEW start \in T,
           \A acc \in T, x \in X : Step(db, acc, x) \in T
    PROVE  Result(db, start, <<>>) = start
<1>1. <<>> \in Seq(X) /\ Len(<<>>) = 0
    OBVIOUS
<1> DEFINE s == <<>>
<1>2. PICK f : Runs(f, db, start, s) /\ Result(db, start, s) = f[Len(s)]
  <2>1. s \in Seq(X)
      BY <1>1
  <2> HIDE DEF s
  <2> QED
      BY <2>1, FoldRuns
<1> QED
    BY <1>1, <1>2 DEF Runs

THEOREM ResultOfAppend ==
    ASSUME NEW db, NEW T, NEW X, NEW start \in T, NEW s \in Seq(X), NEW y \in X,
           \A acc \in T, x \in X : Step(db, acc, x) \in T
    PROVE  Result(db, start, Append(s, y)) = Step(db, Result(db, start, s), y)
<1> DEFINE n == Len(s)
           a == Append(s, y)
<1>1. /\ n \in Nat /\ a \in Seq(X) /\ Len(a) = n + 1 /\ a[n + 1] = y
      /\ \A k \in 1..n : a[k] = s[k]
    OBVIOUS
<1>2. PICK f : Runs(f, db, start, s) /\ Result(db, start, s) = f[n]
    BY FoldRuns
<1>3. PICK g : Runs(g, db, start, a) /\ Result(db, start, a) = g[Len(a)]
  <2> HIDE DEF a
  <2> QED
      BY <1>1, FoldRuns
<1> HIDE DEF a
<1> DEFINE S == {k \in 0..n : f[k] = g[k]}
<1>4. 0 \in S
    BY <1>1, <1>2, <1>3 DEF Runs
<1>5. ASSUME NEW k \in 1..n, k - 1 \in S PROVE k \in S
  <2>1. k \in 1..(n + 1) /\ k \in 0..n
      BY <1>1
  <2>2. f[k] = Step(db, f[k - 1], s[k]) /\ g[k] = Step(db, g[k - 1], a[k])
      BY <1>1, <1>2, <1>3, <2>1 DEF Runs
  <2> QED
      BY <1>1, <1>5, <2>1, <2>2
<1> HIDE DEF S
<1>6. \A k \in 0..n : k \in S
    BY <1>1, <1>4, <1>5, InductionUpTo
<1>7. f[n] = g[n]
    BY <1>1, <1>6 DEF S
<1>8. n + 1 \in 1..(n + 1) /\ (n + 1) - 1 = n
    BY <1>1
<1>9. g[n + 1] = Step(db, g[n], y)
    BY <1>1, <1>3, <1>8 DEF Runs
<1> QED
    BY <1>1, <1>2, <1>3, <1>7, <1>9 DEF a

(* The fold is one of the results.                                         *)
LEMMA ResultInSet ==
    ASSUME NEW db, NEW T, NEW X, NEW start \in T, NEW s \in Seq(X),
           \A acc \in T, x \in X : Step(db, acc, x) \in T
    PROVE  Result(db, start, s) \in T
<1>1. PICK f : Runs(f, db, start, s) /\ Result(db, start, s) = f[Len(s)]
    BY FoldRuns
<1>2. \A k \in 0..Len(s) : f[k] \in T
    BY <1>1, RunStaysIn
<1> QED
    BY <1>1, <1>2

(* A loop over two sequences, one after the other.                         *)
THEOREM ResultOfConcat ==
    ASSUME NEW db, NEW T, NEW X, NEW start \in T, NEW s \in Seq(X), NEW t \in Seq(X),
           \A acc \in T, x \in X : Step(db, acc, x) \in T
    PROVE  Result(db, start, s \o t) = Result(db, Result(db, start, s), t)
<1> DEFINE n == Len(s)
           m == Len(t)
           c == s \o t
           mid == Result(db, start, s)
<1>1. /\ n \in Nat /\ m \in Nat /\ c \in Seq(X) /\ Len(c) = n + m
      /\ \A k \in 1..n : c[k] = s[k]
      /\ \A k \in 1..m : c[n + k] = t[k]
    OBVIOUS
<1>2. PICK f : Runs(f, db, start, s) /\ Result(db, start, s) = f[n]
    BY FoldRuns
<1>3. PICK g : Runs(g, db, start, c) /\ Result(db, start, c) = g[Len(c)]
  <2>1. c \in Seq(X)
      BY <1>1
  <2> HIDE DEF c
  <2> QED
      BY <2>1, FoldRuns
<1>4. mid \in T
    BY ResultInSet
<1>5. PICK h : Runs(h, db, mid, t) /\ Result(db, mid, t) = h[m]
  <2> HIDE DEF mid
  <2> QED
      BY <1>4, FoldRuns
<1>6. mid = f[n]
    BY <1>2
<1> HIDE DEF c, mid, n, m
<1> DEFINE S == {k \in 0..n : f[k] = g[k]}
<1>7. 0 \in S
    BY <1>1, <1>2, <1>3 DEF Runs
<1>8. ASSUME NEW k \in 1..n, k - 1 \in S PROVE k \in S
  <2>1. k \in 1..(n + m) /\ k \in 0..n
      BY <1>1
  <2>2. f[k] = Step(db, f[k - 1], s[k]) /\ g[k] = Step(db, g[k - 1], c[k])
      BY <1>1, <1>2, <1>3, <2>1 DEF Runs, n
  <2> QED
      BY <1>1, <1>8, <2>1, <2>2
<1> HIDE DEF S
<1>9. \A k \in 0..n : k \in S
    BY <1>1, <1>7, <1>8, InductionUpTo
<1>10. g[n] = mid
    BY <1>1, <1>6, <1>9 DEF S
<1> DEFINE U == {k \in 0..m : h[k] = g[n + k]}
<1>11. 0 \in U
    BY <1>1, <1>5, <1>10 DEF Runs
<1>12. ASSUME NEW k \in 1..m, k - 1 \in U PROVE k \in U
  <2>1. n + k \in 1..(n + m) /\ k \in 0..m /\ (n + k) - 1 = n + (k - 1)
      BY <1>1
  <2>2. h[k] = Step(db, h[k - 1], t[k]) /\ g[n + k] = Step(db, g[n + (k - 1)], c[n + k])
      BY <1>1, <1>3, <1>5, <2>1 DEF Runs, m
  <2> QED
      BY <1>1, <1>12, <2>1, <2>2
<1> HIDE DEF U
<1>13. \A k \in 0..m : k \in U
    BY <1>1, <1>11, <1>12, InductionUpTo
<1>14. h[m] = g[n + m]
    BY <1>1, <1>13 DEF U
<1>15. Result(db, start, c) = Result(db, mid, t)
    BY <1>1, <1>3, <1>5, <1>14
<1> QED
    BY <1>15 DEF c, mid

-----------------------------------------------------------------------------
(* Sequences of sequences.                                                 *)

Joins(f, seqs) ==
    /\ f[0] = <<>>
    /\ \A k \in 1..Len(seqs) : f[k] = f[k - 1] \o seqs[k]

(* A loop in which only one element changes anything, and that one once.   *)
THEOREM ResultOfOne ==
    ASSUME NEW db, NEW X, NEW x \in X, NEW s \in Seq(X),
           NEW j \in 1..Len(s), s[j] = x, \A k \in 1..Len(s) : s[k] = x => k = j,
           \A acc : \A y \in X : y # x => Step(db, acc, y) = acc,
           NEW start, NEW r, r = Step(db, start, x), Step(db, r, x) \in {start, r}
    PROVE  Result(db, start, s) = r
<1> DEFINE n == Len(s)
           T == {start, r}
<1>1. n \in Nat /\ \A k \in 1..n : s[k] \in X
    OBVIOUS
<1>2. start \in T /\ \A acc \in T, y \in X : Step(db, acc, y) \in T
    OBVIOUS
<1>3. PICK f : Runs(f, db, start, s) /\ Result(db, start, s) = f[n]
  <2> HIDE DEF T
  <2> QED
      BY <1>2, FoldRuns
<1>4. f[0] = start /\ \A k \in 1..n : f[k] = Step(db, f[k - 1], s[k])
    BY <1>3 DEF Runs
<1> DEFINE S == {k \in 0..n : f[k] = IF k < j THEN start ELSE r}
<1>5. 0 \in S
    BY <1>1, <1>4
<1>6. ASSUME NEW k \in 1..n, k - 1 \in S PROVE k \in S
  <2>1. k \in 0..n /\ f[k] = Step(db, f[k - 1], s[k])
      BY <1>4
  <2>2. CASE k = j
    <3>1. f[k - 1] = start
        BY <1>6, <2>2
    <3> QED
        BY <2>1, <2>2, <3>1
  <2>3. CASE k # j
    <3>1. s[k] \in X /\ s[k] # x
        BY <1>1, <2>3
    <3>2. f[k] = f[k - 1]
        BY <2>1, <3>1
    <3>3. f[k - 1] = IF k < j THEN start ELSE r
        BY <1>6, <2>3
    <3> QED
        BY <2>1, <3>2, <3>3
  <2> QED
      BY <2>2, <2>3
<1> HIDE DEF S, n
<1>7. \A k \in 0..n : k \in S
    BY <1>1, <1>5, <1>6, InductionUpTo
<1>8. f[n] = r
  <2>1. n \in 0..n /\ ~(n < j)
      BY <1>1 DEF n
  <2> QED
      BY <1>7, <2>1 DEF S
<1> QED
    BY <1>3, <1>8

LEMMA JoinExists ==
    ASSUME NEW X, NEW seqs \in Seq(Seq(X))
    PROVE  \E f \in [0..Len(seqs) -> Seq(X)] : Joins(f, seqs)
<1> DEFINE n == Len(seqs)
           Upto(m, f) == f[0] = <<>> /\ \A k \in 1..m : f[k] = f[k - 1] \o seqs[k]
           Q == {m \in 0..n : \E f \in [0..n -> Seq(X)] : Upto(m, f)}
<1>1. n \in Nat /\ \A k \in 1..n : seqs[k] \in Seq(X)
    OBVIOUS
<1>2. 0 \in Q
  <2>1. [k \in 0..n |-> <<>>] \in [0..n -> Seq(X)] /\ 0 \in 0..n
      BY <1>1
  <2>2. Upto(0, [k \in 0..n |-> <<>>])
      BY <2>1
  <2> QED
      BY <2>1, <2>2
<1>3. ASSUME NEW m \in 1..n, m - 1 \in Q PROVE m \in Q
  <2>1. PICK f \in [0..n -> Seq(X)] : Upto(m - 1, f)
      BY <1>3
  <2>2. m \in 0..n /\ m - 1 \in 0..n /\ m # 0
      BY <1>1
  <2> DEFINE new == f[m - 1] \o seqs[m]
             g == [f EXCEPT ![m] = new]
  <2>3. new \in Seq(X)
    <3>1. f[m - 1] \in Seq(X) /\ seqs[m] \in Seq(X)
        BY <1>1, <2>2
    <3> QED
        BY <3>1
  <2> HIDE DEF new
  <2>4. g \in [0..n -> Seq(X)] /\ g[m] = new /\ \A k \in 0..n : k # m => g[k] = f[k]
      BY <2>2, <2>3
  <2> HIDE DEF g
  <2>5. g[0] = <<>>
      BY <1>1, <2>1, <2>2, <2>4
  <2>6. ASSUME NEW k \in 1..m PROVE g[k] = g[k - 1] \o seqs[k]
    <3>1. k - 1 \in 0..n /\ k - 1 # m /\ k \in 0..n
        BY <1>1
    <3>2. g[k - 1] = f[k - 1]
        BY <2>4, <3>1
    <3>3. CASE k = m
        BY <2>4, <3>2, <3>3 DEF new
    <3>4. CASE k # m
      <4>1. k \in 1..(m - 1)
          BY <2>2, <3>4
      <4> QED
          BY <2>1, <2>4, <3>1, <3>2, <3>4, <4>1
    <3> QED
        BY <3>3, <3>4
  <2> QED
      BY <2>2, <2>4, <2>5, <2>6
<1> HIDE DEF Q
<1>4. \A m \in 0..n : m \in Q
    BY <1>1, <1>2, <1>3, InductionUpTo
<1>5. n \in 0..n
    BY <1>1
<1>6. n \in Q
    BY <1>4, <1>5
<1> QED
    BY <1>6 DEF Q, Joins

(* FlattenSeq joins them, one after the other.                             *)
THEOREM FlattenJoins ==
    ASSUME NEW X, NEW seqs \in Seq(Seq(X))
    PROVE  \E f \in [0..Len(seqs) -> Seq(X)] : Joins(f, seqs) /\ FlattenSeq(seqs) = f[Len(seqs)]
<1> DEFINE n == Len(seqs)
           Body(it) == [i \in 1..n |-> IF i = 1 THEN seqs[i] ELSE it[i - 1] \o seqs[i]]
           iter == CHOOSE it : it = Body(it)
<1>1. n \in Nat /\ \A k \in 1..n : seqs[k] \in Seq(X)
    OBVIOUS
<1>2. PICK f \in [0..n -> Seq(X)] : Joins(f, seqs)
    BY JoinExists
<1>3. CASE n = 0
  <2>1. seqs = <<>>
      BY <1>3
  <2> QED
      BY <1>2, <1>3, <2>1 DEF FlattenSeq, Joins
<1>4. CASE n # 0
  <2> DEFINE h == [k \in 1..n |-> f[k]]
  <2>1. h = Body(h)
    <3>1. ASSUME NEW k \in 1..n PROVE f[k] = IF k = 1 THEN seqs[k] ELSE h[k - 1] \o seqs[k]
      <4>1. CASE k = 1
        <5>0. 1 \in 1..n /\ 1 - 1 = 0
            BY <1>1, <4>1
        <5>1. f[1] = <<>> \o seqs[1] /\ seqs[1] \in Seq(X)
            BY <1>1, <1>2, <5>0 DEF Joins
        <5> QED
            BY <4>1, <5>1
      <4>2. CASE k # 1
        <5>1. k - 1 \in 1..n
            BY <1>1, <4>2
        <5> QED
            BY <1>2, <4>2, <5>1 DEF Joins
      <4> QED
          BY <4>1, <4>2
    <3> QED
        BY <3>1
  <2>2. iter = Body(iter)
    <3> HIDE DEF Body
    <3> QED
        BY <2>1
  <2>3. FlattenSeq(seqs) = iter[n]
      BY <1>4 DEF FlattenSeq
  <2> HIDE DEF iter
  <2> DEFINE Q == {k \in 0..n : k # 0 => iter[k] = f[k]}
  <2>4. 0 \in Q
      BY <1>1
  <2>5. ASSUME NEW k \in 1..n, k - 1 \in Q PROVE k \in Q
    <3>1. iter[k] = IF k = 1 THEN seqs[k] ELSE iter[k - 1] \o seqs[k]
        BY <2>2
    <3>0. k \in 0..n /\ (k = 1 => k - 1 = 0)
        BY <1>1
    <3>2. f[k] = f[k - 1] \o seqs[k] /\ k \in 0..n /\ f[0] = <<>>
        BY <1>2, <3>0 DEF Joins
    <3>3. CASE k = 1
      <4>0. k \in 1..n /\ k - 1 = 0
          BY <3>3
      <4>1. seqs[1] \in Seq(X) /\ f[1] = <<>> \o seqs[1]
          BY <1>1, <3>2, <3>3, <4>0
      <4> QED
          BY <3>1, <3>2, <3>3, <4>1
    <3>4. CASE k # 1
      <4>1. k - 1 # 0
          BY <3>4
      <4> QED
          BY <2>5, <3>1, <3>2, <3>4, <4>1
    <3> QED
        BY <3>3, <3>4
  <2> HIDE DEF Q
  <2>6. \A k \in 0..n : k \in Q
      BY <1>1, <2>4, <2>5, InductionUpTo
  <2>7. iter[n] = f[n]
      BY <1>1, <1>4, <2>6 DEF Q
  <2> QED
      BY <1>2, <2>3, <2>7
<1> QED
    BY <1>3, <1>4

(* The sequences of seqs, joined.                                          *)
Joined(seqs) == FlattenSeq(seqs)

(* f is the run of a loop over the sequences of seqs, one after the other, *)
(* and ends where the loop over their elements does.                       *)
RunsOver(f, db, start, seqs) ==
    /\ f[0] = start
    /\ \A k \in 1..Len(seqs) : f[k] = Result(db, f[k - 1], seqs[k])
    /\ Result(db, start, Joined(seqs)) = f[Len(seqs)]

(* A loop over a sequence of sequences that are joined is a loop of loops. *)
THEOREM ResultOfFlatten ==
    ASSUME NEW db, NEW T, NEW X, NEW start \in T, NEW seqs \in Seq(Seq(X)),
           \A acc \in T, x \in X : Step(db, acc, x) \in T
    PROVE  \E f \in [0..Len(seqs) -> T] : RunsOver(f, db, start, seqs)
<1> DEFINE n == Len(seqs)
<1>1. n \in Nat /\ \A k \in 1..n : seqs[k] \in Seq(X)
    OBVIOUS
<1>2. PICK j \in [0..n -> Seq(X)] : Joins(j, seqs) /\ FlattenSeq(seqs) = j[n]
    BY FlattenJoins
<1> HIDE DEF n
<1> DEFINE f == [k \in 0..n |-> Result(db, start, j[k])]
<1>3. ASSUME NEW k \in 0..n PROVE Result(db, start, j[k]) \in T
  <2> DEFINE jk == j[k]
  <2>1. jk \in Seq(X)
      BY <1>2
  <2> HIDE DEF jk
  <2>2. Result(db, start, jk) \in T
      BY <2>1, ResultInSet
  <2> QED
      BY <2>2 DEF jk
<1>4. f \in [0..n -> T] /\ 0 \in 0..n /\ n \in 0..n
    BY <1>1, <1>3
<1>5. f[0] = start
    BY <1>2, <1>4, ResultOfNone DEF Joins
<1>6. ASSUME NEW k \in 1..n PROVE f[k] = Result(db, f[k - 1], seqs[k])
  <2>1. k \in 0..n /\ k - 1 \in 0..n
      BY <1>1
  <2> DEFINE a == j[k - 1]
             b == seqs[k]
  <2>2. a \in Seq(X) /\ b \in Seq(X) /\ j[k] = a \o b
      BY <1>1, <1>2, <2>1 DEF Joins, n
  <2>3. f[k] = Result(db, start, j[k]) /\ f[k - 1] = Result(db, start, a)
      BY <2>1
  <2> HIDE DEF a, b
  <2>4. Result(db, start, a \o b) = Result(db, Result(db, start, a), b)
      BY <2>2, ResultOfConcat
  <2> QED
      BY <2>2, <2>3, <2>4 DEF b
<1>7. f[n] = Result(db, start, FlattenSeq(seqs))
    BY <1>2, <1>4
<1> QED
    BY <1>4, <1>5, <1>6, <1>7 DEF n, RunsOver, Joined

-----------------------------------------------------------------------------
(* Sums over finite sets.                                                  *)

\* A sum over a set, one element chosen after the other.
Pick(t) == CHOOSE x \in t : TRUE
SumSolution(g, h, S) ==
    \A t \in SUBSET S : g[t] = IF t = {} THEN 0 ELSE h[Pick(t)] + g[t \ {Pick(t)}]

LEMMA SizeOfRest ==
    ASSUME NEW S, IsFiniteSet(S), NEW t \in SUBSET S, NEW x \in t
    PROVE  /\ IsFiniteSet(t) /\ IsFiniteSet(t \ {x})
           /\ Cardinality(t) \in Nat \ {0} /\ Cardinality(t \ {x}) = Cardinality(t) - 1
<1>1. IsFiniteSet(t)
    BY FS_Subset
<1>2. Cardinality(t) \in Nat
    BY <1>1, FS_CardinalityType
<1>3. IsFiniteSet(t \ {x}) /\ Cardinality(t \ {x}) = Cardinality(t) - 1
    BY <1>1, FS_RemoveElement
<1>4. Cardinality(t \ {x}) \in Nat
    BY <1>3, FS_CardinalityType
<1> QED
    BY <1>1, <1>2, <1>3, <1>4

LEMMA SumExists ==
    ASSUME NEW S, IsFiniteSet(S), NEW h \in [S -> Nat]
    PROVE  \E g \in [SUBSET S -> Nat] : SumSolution(g, h, S)
<1> DEFINE c == Cardinality(S)
           Size(t) == Cardinality(t)
           Upto(m, g) == \A t \in SUBSET S : Size(t) <= m =>
                            g[t] = IF t = {} THEN 0 ELSE h[Pick(t)] + g[t \ {Pick(t)}]
           G == {m \in 0..c : \E g \in [SUBSET S -> Nat] : Upto(m, g)}
<1>1. c \in Nat /\ \A t \in SUBSET S : Size(t) \in Nat /\ Size(t) <= c /\ (Size(t) = 0 <=> t = {})
  <2>1. \A t \in SUBSET S : IsFiniteSet(t) /\ Size(t) <= c
      BY FS_Subset
  <2>2. \A t \in SUBSET S : Size(t) \in Nat /\ (Size(t) = 0 <=> t = {})
      BY <2>1, FS_CardinalityType, FS_EmptySet
  <2> QED
      BY <2>1, <2>2
<1>2. \A t \in SUBSET S : t # {} => Pick(t) \in t /\ t \ {Pick(t)} \in SUBSET S
                                   /\ Size(t \ {Pick(t)}) = Size(t) - 1 /\ h[Pick(t)] \in Nat
  <2> SUFFICES ASSUME NEW t \in SUBSET S, t # {}
               PROVE  Pick(t) \in t /\ t \ {Pick(t)} \in SUBSET S
                      /\ Size(t \ {Pick(t)}) = Size(t) - 1 /\ h[Pick(t)] \in Nat
      OBVIOUS
  <2>1. Pick(t) \in t
      BY DEF Pick
  <2>2. Size(t \ {Pick(t)}) = Size(t) - 1
      BY <2>1, SizeOfRest
  <2> QED
      BY <2>1, <2>2
<1> HIDE DEF c, Size
<1>3. 0 \in G
  <2> DEFINE g == [t \in SUBSET S |-> 0]
  <2>1. g \in [SUBSET S -> Nat] /\ g[{}] = 0
      OBVIOUS
  <2>2. \A t \in SUBSET S : Size(t) <= 0 => t = {}
      BY <1>1
  <2> HIDE DEF g
  <2>3. Upto(0, g)
      BY <2>1, <2>2
  <2> HIDE DEF Upto
  <2> QED
      BY <1>1, <2>1, <2>3
<1>4. ASSUME NEW m \in 1..c, m - 1 \in G PROVE m \in G
  <2>1. PICK g \in [SUBSET S -> Nat] : Upto(m - 1, g)
      BY <1>4
  <2> DEFINE f == [t \in SUBSET S |->
                      IF Size(t) = m THEN h[Pick(t)] + g[t \ {Pick(t)}] ELSE g[t]]
  <2>2. f \in [SUBSET S -> Nat]
    <3> SUFFICES ASSUME NEW t \in SUBSET S
                 PROVE  (IF Size(t) = m THEN h[Pick(t)] + g[t \ {Pick(t)}] ELSE g[t]) \in Nat
        OBVIOUS
    <3>1. CASE Size(t) = m
      <4>1. t # {}
          BY <1>1, <3>1
      <4>2. h[Pick(t)] \in Nat /\ g[t \ {Pick(t)}] \in Nat
          BY <1>2, <4>1
      <4> QED
          BY <3>1, <4>2
    <3>2. CASE Size(t) # m
        BY <3>2
    <3> QED
        BY <3>1, <3>2
  <2>3. ASSUME NEW t \in SUBSET S, Size(t) <= m
        PROVE  f[t] = IF t = {} THEN 0 ELSE h[Pick(t)] + f[t \ {Pick(t)}]
    <3>1. CASE t = {}
      <4>1. Size(t) = 0 /\ Size(t) # m /\ Size(t) <= m - 1
          BY <1>1, <3>1
      <4>2. f[t] = g[t] /\ g[t] = 0
          BY <2>1, <3>1, <4>1
      <4> QED
          BY <3>1, <4>2
    <3>2. CASE t # {}
      <4> DEFINE u == t \ {Pick(t)}
      <4>1. u \in SUBSET S /\ Size(u) = Size(t) - 1 /\ Size(t) \in Nat
          BY <1>1, <1>2, <3>2
      <4>2. f[u] = g[u]
        <5>1. Size(u) # m
            BY <2>3, <4>1
        <5> HIDE DEF u
        <5> QED
            BY <4>1, <5>1
      <4>3. f[t] = h[Pick(t)] + g[u]
        <5>1. CASE Size(t) = m
            BY <5>1
        <5>2. CASE Size(t) # m
          <6>1. Size(t) <= m - 1
              BY <2>3, <4>1, <5>2
          <6>2. f[t] = g[t]
              BY <5>2
          <6> QED
              BY <2>1, <3>2, <6>1, <6>2
        <5> QED
            BY <5>1, <5>2
      <4> HIDE DEF f
      <4> QED
          BY <3>2, <4>2, <4>3
    <3> QED
        BY <3>1, <3>2
  <2> HIDE DEF f
  <2>4. Upto(m, f)
      BY <2>3
  <2>5. m \in 0..c
      BY <1>1
  <2> HIDE DEF Upto
  <2> QED
      BY <2>2, <2>4, <2>5
<1>5. c \in 0..c /\ \A m \in 0..c : m \in G
  <2> HIDE DEF G
  <2> QED
      BY <1>1, <1>3, <1>4, InductionUpTo
<1>6. PICK g \in [SUBSET S -> Nat] : Upto(c, g)
  <2> HIDE DEF Upto
  <2> QED
      BY <1>5
<1>7. SumSolution(g, h, S)
    BY <1>1, <1>6 DEF SumSolution
<1> QED
    BY <1>7

(* Two such sums are the same where they add up the same.                  *)
LEMMA SumUnique ==
    ASSUME NEW S, IsFiniteSet(S), NEW f, NEW h, SumSolution(f, h, S),
           NEW Q, NEW g, NEW k, SumSolution(g, k, Q), S \subseteq Q, \A x \in S : h[x] = k[x]
    PROVE  f[S] = g[S]
<1> DEFINE c == Cardinality(S)
           Size(t) == Cardinality(t)
           G == {m \in 0..c : \A t \in SUBSET S : Size(t) = m => f[t] = g[t]}
<1>1. c \in Nat /\ \A t \in SUBSET S : Size(t) = 0 => t = {}
  <2>1. \A t \in SUBSET S : IsFiniteSet(t)
      BY FS_Subset
  <2> QED
      BY <2>1, FS_CardinalityType, FS_EmptySet
<1>2. 0 \in G
  <2>1. {} \in SUBSET S /\ {} \in SUBSET Q
      OBVIOUS
  <2>2. f[{}] = 0 /\ g[{}] = 0
      BY <2>1 DEF SumSolution
  <2> HIDE DEF c, Size
  <2> QED
      BY <1>1, <2>2
<1>3. ASSUME NEW m \in 1..c, m - 1 \in G PROVE m \in G
  <2>1. ASSUME NEW t \in SUBSET S, Size(t) = m PROVE f[t] = g[t]
    <3>1. t # {}
        BY <1>1, <2>1, FS_EmptySet
    <3>2. Pick(t) \in t
        BY <3>1 DEF Pick
    <3> DEFINE u == t \ {Pick(t)}
    <3>3. u \in SUBSET S /\ Size(u) = m - 1
        BY <2>1, <3>2, SizeOfRest
    <3>4. f[u] = g[u]
        BY <1>3, <3>3
    <3>5. t \in SUBSET Q /\ h[Pick(t)] = k[Pick(t)]
        BY <3>2
    <3>6. f[t] = h[Pick(t)] + f[u]
        BY <3>1 DEF SumSolution
    <3>7. g[t] = k[Pick(t)] + g[u]
        BY <3>1, <3>5 DEF SumSolution
    <3> QED
        BY <3>4, <3>5, <3>6, <3>7
  <2>2. m \in 0..c
      BY <1>1
  <2> QED
      BY <2>1, <2>2
<1>4. c \in 0..c /\ \A m \in 0..c : m \in G
  <2> HIDE DEF G
  <2> QED
      BY <1>1, <1>2, <1>3, InductionUpTo
<1> QED
    BY <1>4

(* The order does not matter: any element may be added last.               *)
LEMMA SumAdds ==
    ASSUME NEW S, IsFiniteSet(S), NEW h \in [S -> Nat],
           NEW g \in [SUBSET S -> Nat], SumSolution(g, h, S)
    PROVE  \A t \in SUBSET S : \A x \in S \ t : g[t \cup {x}] = g[t] + h[x]
<1> DEFINE c == Cardinality(S)
           Size(t) == Cardinality(t)
           G == {m \in 0..c : \A t \in SUBSET S : \A x \in S \ t :
                                 Size(t) = m => g[t \cup {x}] = g[t] + h[x]}
<1>1. /\ c \in Nat
      /\ \A t \in SUBSET S : Size(t) \in 0..c /\ (Size(t) = 0 <=> t = {})
  <2>1. \A t \in SUBSET S : IsFiniteSet(t) /\ Size(t) <= c
      BY FS_Subset
  <2> QED
      BY <2>1, FS_CardinalityType, FS_EmptySet
<1>2. ASSUME NEW t \in SUBSET S, NEW x \in S \ t, Pick(t \cup {x}) = x
      PROVE  g[t \cup {x}] = g[t] + h[x]
  <2>1. (t \cup {x}) \ {x} = t /\ t \cup {x} \in SUBSET S /\ t \cup {x} # {}
      OBVIOUS
  <2>2. g[t \cup {x}] = h[x] + g[t]
      BY <1>2, <2>1 DEF SumSolution
  <2>3. g[t] \in Nat /\ h[x] \in Nat
      OBVIOUS
  <2> QED
      BY <2>2, <2>3
<1>3. 0 \in G
  <2>1. ASSUME NEW x \in S PROVE g[{} \cup {x}] = g[{}] + h[x]
    <3>1. Pick({} \cup {x}) = x /\ {} \in SUBSET S /\ x \in S \ {}
        BY DEF Pick
    <3> QED
        BY <1>2, <3>1
  <2> HIDE DEF c, Size
  <2> QED
      BY <1>1, <2>1
<1>4. ASSUME NEW m \in 1..c, m - 1 \in G PROVE m \in G
  <2>1. ASSUME NEW t \in SUBSET S, NEW x \in S \ t, Size(t) = m, Pick(t \cup {x}) # x
        PROVE  g[t \cup {x}] = g[t] + h[x]
    <3> DEFINE w == t \cup {x}
               y == Pick(w)
               u == t \ {y}
    <3>1. y \in w /\ y # x
      <4>1. w # {}
          OBVIOUS
      <4>2. Pick(w) \in w
          BY <4>1 DEF Pick
      <4> QED
          BY <2>1, <4>2
    <3> HIDE DEF y
    <3>2. y \in t /\ u \in SUBSET S /\ y \in S \ u /\ x \in S \ u /\ u \cup {y} = t
          /\ w \ {y} = u \cup {x} /\ w \in SUBSET S /\ w # {}
        BY <3>1
    <3>3. Size(u) = m - 1
        BY <2>1, <3>2, SizeOfRest
    <3>4. g[u \cup {x}] = g[u] + h[x] /\ g[u \cup {y}] = g[u] + h[y]
        BY <1>4, <3>2, <3>3
    <3>5. g[w] = h[y] + g[w \ {y}]
        BY <3>2 DEF SumSolution, y
    <3>6. g[u] \in Nat /\ h[x] \in Nat /\ h[y] \in Nat
        BY <3>2
    <3>7. g[w] = h[y] + g[u \cup {x}] /\ g[t] = g[u \cup {y}]
        BY <3>2, <3>5
    <3> HIDE DEF u, w
    <3>8. g[w] = g[t] + h[x]
        BY <3>4, <3>6, <3>7
    <3> QED
        BY <3>8 DEF w
  <2>2. m \in 0..c
      BY <1>1
  <2> QED
      BY <1>2, <2>1, <2>2
<1>5. \A m \in 0..c : m \in G
  <2> HIDE DEF G
  <2> QED
      BY <1>1, <1>3, <1>4, InductionUpTo
<1> HIDE DEF c, Size
<1>6. ASSUME NEW t \in SUBSET S, NEW x \in S \ t PROVE g[t \cup {x}] = g[t] + h[x]
  <2>1. PICK m \in 0..c : m = Size(t)
      BY <1>1
  <2>2. m \in G
      BY <1>5
  <2> QED
      BY <2>1, <2>2
<1> QED
    BY <1>6

(* SumFunction is such a sum.                                              *)
SumsUp(g, h, S) ==
    /\ g \in [SUBSET S -> Nat] /\ SumSolution(g, h, S)
    /\ SumFunction(h) = g[S]

LEMMA SumIs ==
    ASSUME NEW S, IsFiniteSet(S), NEW h \in [S -> Nat]
    PROVE  \E g : SumsUp(g, h, S)
<1> DEFINE Body(it) == [t \in SUBSET S |-> IF t = {} THEN 0 ELSE h[Pick(t)] + it[t \ {Pick(t)}]]
           iter == CHOOSE it : it = Body(it)
<1>1. PICK g \in [SUBSET S -> Nat] : SumSolution(g, h, S)
    BY SumExists
<1>2. g = Body(g)
    BY <1>1 DEF SumSolution
<1>3. iter = Body(iter)
  <2> HIDE DEF Body
  <2> QED
      BY <1>2
<1>4. SumFunction(h) = iter[S]
  <2>1. DOMAIN h = S
      OBVIOUS
  <2> QED
      BY <2>1 DEF SumFunction, SumFunctionOnSet, FoldFunctionOnSet, MapThenFoldSet, Pick
<1> HIDE DEF iter
<1>5. SumSolution(iter, h, S)
    BY <1>3 DEF SumSolution
<1>6. iter[S] = g[S]
  <2>1. S \subseteq S /\ \A x \in S : h[x] = h[x]
      OBVIOUS
  <2> QED
      BY <1>1, <1>5, <2>1, SumUnique
<1>7. SumsUp(g, h, S)
    BY <1>1, <1>4, <1>6 DEF SumsUp
<1> QED
    BY <1>7

(* A sum over no element, and over one more.                               *)
THEOREM SumOfNone ==
    ASSUME NEW h, h = [x \in {} |-> h[x]]
    PROVE  SumFunction(h) = 0
<1>1. PICK none : none = {}
    OBVIOUS
<1>2. h \in [none -> Nat] /\ IsFiniteSet(none)
    BY <1>1, FS_EmptySet
<1>3. PICK g : SumsUp(g, h, none)
    BY <1>2, SumIs
<1> QED
    BY <1>1, <1>3 DEF SumsUp, SumSolution

THEOREM SumOfMore ==
    ASSUME NEW S, IsFiniteSet(S), NEW x, x \notin S, NEW h \in [S \cup {x} -> Nat],
           NEW k \in [S -> Nat], \A y \in S : k[y] = h[y]
    PROVE  SumFunction(h) = SumFunction(k) + h[x]
<1> DEFINE Q == S \cup {x}
<1>1. IsFiniteSet(Q) /\ h \in [Q -> Nat] /\ S \in SUBSET Q /\ x \in Q \ S
    BY FS_AddElement
<1>2. PICK g : g \in [SUBSET Q -> Nat] /\ SumSolution(g, h, Q) /\ SumFunction(h) = g[Q]
  <2> HIDE DEF Q
  <2>1. \E g : SumsUp(g, h, Q)
      BY <1>1, SumIs
  <2> QED
      BY <2>1 DEF SumsUp
<1>3. PICK f : SumSolution(f, k, S) /\ SumFunction(k) = f[S]
  <2>1. \E f : SumsUp(f, k, S)
      BY SumIs
  <2> QED
      BY <2>1 DEF SumsUp
<1>4. g[S \cup {x}] = g[S] + h[x]
  <2> HIDE DEF Q
  <2> QED
      BY <1>1, <1>2, SumAdds
<1>5. f[S] = g[S]
  <2>1. S \subseteq Q
      OBVIOUS
  <2> HIDE DEF Q
  <2> QED
      BY <1>2, <1>3, <2>1, SumUnique
<1> QED
    BY <1>2, <1>3, <1>4, <1>5

(* The sum over the elements of a list that are in K, added in the order   *)
(* of the list.                                                            *)
SumOver(h, T) == SumFunction([x \in T |-> h[x]])
Prefix(s, k) == {s[j] : j \in 1..k}
SumOfSome(h, s, K) == SumOver(h, Prefix(s, Len(s)) \cap K)

AddsOne(T, x, U) == IsFiniteSet(T) /\ x \notin T /\ U = T \cup {x}
NumbersOn(h, U) == \A y \in U : h[y] \in Nat

LEMMA SumOverMore ==
    ASSUME NEW T, NEW x, NEW U, AddsOne(T, x, U), NEW h, NumbersOn(h, U)
    PROVE  SumOver(h, U) = SumOver(h, T) + h[x]
<1>0. IsFiniteSet(T) /\ x \notin T /\ U = T \cup {x} /\ \A y \in U : h[y] \in Nat
    BY DEF AddsOne, NumbersOn
<1> DEFINE g == [y \in T \cup {x} |-> h[y]]
           l == [y \in T |-> h[y]]
<1>1. g \in [T \cup {x} -> Nat] /\ l \in [T -> Nat]
    BY <1>0
<1>2. (\A y \in T : l[y] = g[y]) /\ g[x] = h[x]
    OBVIOUS
<1>3. SumOver(h, U) = SumFunction(g) /\ SumOver(h, T) = SumFunction(l)
    BY <1>0 DEF SumOver
<1> HIDE DEF g, l
<1>4. SumFunction(g) = SumFunction(l) + g[x]
    BY <1>0, <1>1, <1>2, SumOfMore
<1> QED
    BY <1>2, <1>3, <1>4

(* What has been added after each element of a list without repetitions    *)
(* is, at its end, the sum over the elements that count.                   *)
AddsUp(f, s, h, K) ==
    /\ f[0] = 0
    /\ \A k \in 1..Len(s) : f[k] = f[k - 1] + IF s[k] \in K THEN h[s[k]] ELSE 0

THEOREM SumOfList ==
    ASSUME NEW S, NEW h \in [S -> Nat], NEW K, NEW s \in Seq(S),
           \A j, k \in 1..Len(s) : s[j] = s[k] => j = k,
           NEW f, AddsUp(f, s, h, K)
    PROVE  f[Len(s)] = SumOfSome(h, s, K)
<1> DEFINE Sums(k, T) == /\ T = Prefix(s, k) \cap K /\ IsFiniteSet(T) /\ T \in SUBSET S
                         /\ f[k] = SumOver(h, T) /\ f[k] \in Nat
           G == {k \in 0..Len(s) : \E T : Sums(k, T)}
<1>1. Len(s) \in Nat /\ \A k \in 1..Len(s) : s[k] \in S /\ h[s[k]] \in Nat
    OBVIOUS
<1>2. 0 \in G
  <2>1. Prefix(s, 0) \cap K = {}
      BY DEF Prefix
  <2>2. IsFiniteSet({})
      BY FS_EmptySet
  <2>3. SumOver(h, {}) = 0
    <3> DEFINE g == [x \in {} |-> h[x]]
    <3>1. g = [x \in {} |-> g[x]]
        OBVIOUS
    <3> HIDE DEF g
    <3>2. SumFunction(g) = 0
        BY <3>1, SumOfNone
    <3> QED
        BY <3>2 DEF SumOver, g
  <2>4. Sums(0, {})
      BY <2>1, <2>2, <2>3 DEF AddsUp
  <2> QED
      BY <1>1, <2>4
<1>3. ASSUME NEW k \in 1..Len(s), k - 1 \in G PROVE k \in G
  <2>1. PICK m : m = k - 1
      OBVIOUS
  <2>2. m \in 0..Len(s) /\ k \in 0..Len(s) /\ m \in G /\ m < k /\ m \in Nat /\ k \in Nat
      BY <1>1, <1>3, <2>1
  <2>3. PICK T : Sums(m, T)
      BY <2>2
  <2>4. PICK y : y = s[k]
      OBVIOUS
  <2>5. y \in S /\ h[y] \in Nat
      BY <1>1, <2>4
  <2>6. Prefix(s, k) = Prefix(s, m) \cup {y} /\ y \notin Prefix(s, m)
    <3>1. Prefix(s, k) = Prefix(s, m) \cup {y}
        BY <1>1, <2>1, <2>2, <2>4 DEF Prefix
    <3>2. y \notin Prefix(s, m)
        BY <1>1, <2>1, <2>2, <2>4 DEF Prefix
    <3> QED
        BY <3>1, <3>2
  <2>7. f[k] = f[m] + IF y \in K THEN h[y] ELSE 0
      BY <2>1, <2>4 DEF AddsUp
  <2>8. CASE y \in K
    <3>1. PICK U : U = T \cup {y}
        OBVIOUS
    <3>2. U = Prefix(s, k) \cap K /\ y \in S \ T /\ U \in SUBSET S
        BY <2>3, <2>5, <2>6, <2>8, <3>1
    <3>3. T \in SUBSET S /\ IsFiniteSet(T)
        BY <2>3
    <3>4. SumOver(h, U) = SumOver(h, T) + h[y]
      <4> HIDE DEF Sums, G
      <4>1. AddsOne(T, y, U)
          BY <3>1, <3>2, <3>3 DEF AddsOne
      <4>2. NumbersOn(h, U)
          BY <3>2 DEF NumbersOn
      <4> QED
          BY <4>1, <4>2, SumOverMore
    <3>5. IsFiniteSet(U)
        BY <3>1, <3>3, FS_AddElement
    <3>6. Sums(k, U)
        BY <2>3, <2>5, <2>7, <2>8, <3>2, <3>4, <3>5
    <3> QED
        BY <2>2, <3>6
  <2>9. CASE y \notin K
    <3>1. Sums(k, T)
        BY <2>3, <2>6, <2>7, <2>9
    <3> QED
        BY <2>2, <3>1
  <2> QED
      BY <2>8, <2>9
<1>4. \A k \in 0..Len(s) : k \in G
  <2> HIDE DEF G
  <2> QED
      BY <1>1, <1>2, <1>3, InductionUpTo
<1>5. Len(s) \in G
    BY <1>1, <1>4
<1> QED
    BY <1>5 DEF SumOfSome

(* The step adds h[x] if x is in K.                                        *)
Adding(db, S, h, K) ==
    \A r \in Nat, x \in S : Step(db, r, x) = r + IF x \in K THEN h[x] ELSE 0

(* A loop that adds a number for each element that is in K.                *)
THEOREM SumOfLoop ==
    ASSUME NEW db, NEW S, NEW h \in [S -> Nat], NEW K, NEW s \in Seq(S),
           \A j, k \in 1..Len(s) : s[j] = s[k] => j = k, Adding(db, S, h, K)
    PROVE  Result(db, 0, s) = SumOfSome(h, s, K)
<1> DEFINE T == Nat
           start == 0
<1>1. start \in T /\ \A r \in T, x \in S : Step(db, r, x) \in T
    BY DEF Adding
<1>2. Len(s) \in Nat /\ \A k \in 1..Len(s) : s[k] \in S /\ k - 1 \in 0..Len(s)
    OBVIOUS
<1> HIDE DEF T, start
<1>3. PICK f : Runs(f, db, start, s) /\ Result(db, start, s) = f[Len(s)]
    BY <1>1, FoldRuns
<1>4. \A k \in 0..Len(s) : f[k] \in T
    BY <1>1, <1>3, RunStaysIn
<1>5. f[0] = 0
    BY <1>3 DEF Runs, start
<1>6. \A k \in 1..Len(s) : f[k] = f[k - 1] + IF s[k] \in K THEN h[s[k]] ELSE 0
    BY <1>2, <1>3, <1>4 DEF Runs, T, Adding
<1>7. f[Len(s)] = SumOfSome(h, s, K)
  <2>1. AddsUp(f, s, h, K)
      BY <1>5, <1>6, Zenon DEF AddsUp
  <2> QED
      BY <2>1, SumOfList
<1> QED
    BY <1>3, <1>7 DEF start

-----------------------------------------------------------------------------
(* Finite sets in some order.  A strict order of S is a set of pairs.      *)

StrictOrder(R, S) ==
    /\ \A x, y \in S : x # y => <<x, y>> \in R \/ <<y, x>> \in R
    /\ \A x, y, z \in S : <<x, y>> \in R /\ <<y, z>> \in R => <<x, z>> \in R

(* s lists every element of S once, ...                                    *)
Lists(s, S) ==
    /\ s \in [1..Cardinality(S) -> S]
    /\ \A j, k \in 1..Cardinality(S) : s[j] = s[k] => j = k
    /\ \A x \in S : \E k \in 1..Cardinality(S) : s[k] = x

(* ... in the order R.                                                     *)
InOrder(s, S, R) == \A j, k \in 1..Cardinality(S) : j < k => <<s[j], s[k]>> \in R

LEMMA SizeAndRest ==
    ASSUME NEW S, IsFiniteSet(S)
    PROVE  /\ Cardinality(S) \in Nat /\ (Cardinality(S) = 0 <=> S = {})
           /\ \A x \in S : IsFiniteSet(S \ {x}) /\ Cardinality(S \ {x}) = Cardinality(S) - 1
BY FS_CardinalityType, FS_EmptySet, FS_RemoveElement

(* A finite set that is not empty has a greatest element.                  *)
LEMMA GreatestElement ==
    ASSUME NEW S, IsFiniteSet(S), S # {}, NEW R, StrictOrder(R, S)
    PROVE  \E m \in S : \A x \in S \ {m} : <<x, m>> \in R
<1> DEFINE Sized(n) == {T \in SUBSET S : IsFiniteSet(T) /\ Cardinality(T) = n /\ T # {}}
           Has(T) == \E m \in T : \A x \in T \ {m} : <<x, m>> \in R
           Q == {n \in Nat : \A T \in Sized(n) : Has(T)}
<1>1. 0 \in Q
    BY FS_EmptySet
<1>2. ASSUME NEW n \in Nat \ {0}, n - 1 \in Q PROVE n \in Q
  <2> SUFFICES ASSUME NEW T \in Sized(n) PROVE Has(T)
      OBVIOUS
  <2>1. PICK e \in T : TRUE
      OBVIOUS
  <2>2. CASE T \ {e} = {}
      BY <2>1, <2>2
  <2>3. CASE T \ {e} # {}
    <3>1. T \ {e} \in Sized(n - 1)
        BY <2>1, <2>3, SizeAndRest
    <3>2. PICK m \in T \ {e} : \A x \in (T \ {e}) \ {m} : <<x, m>> \in R
        BY <1>2, <3>1
    <3>3. CASE <<e, m>> \in R
        BY <3>2, <3>3
    <3>4. CASE <<e, m>> \notin R
      <4>1. <<m, e>> \in R
          BY <2>1, <3>2, <3>4 DEF StrictOrder
      <4>2. ASSUME NEW x \in T \ {e} PROVE <<x, e>> \in R
          BY <2>1, <3>2, <4>1, <4>2 DEF StrictOrder
      <4> QED
          BY <2>1, <4>2
    <3> QED
        BY <3>3, <3>4
  <2> QED
      BY <2>2, <2>3
<1> HIDE DEF Q
<1>3. Nat \subseteq Q
    BY <1>1, <1>2, InductionOnNat
<1>4. S \in Sized(Cardinality(S)) /\ Cardinality(S) \in Nat
    BY SizeAndRest
<1>5. Has(S)
    BY <1>3, <1>4 DEF Q
<1> QED
    BY <1>5

(* A finite set can be listed in order.                                    *)
THEOREM CanBeSorted ==
    ASSUME NEW S, IsFiniteSet(S), NEW R, StrictOrder(R, S)
    PROVE  \E s : Lists(s, S) /\ InOrder(s, S, R)
<1> DEFINE Sized(n) == {T \in SUBSET S : IsFiniteSet(T) /\ Cardinality(T) = n}
           Has(T) == \E s : Lists(s, T) /\ InOrder(s, T, R)
           Q == {n \in Nat : \A T \in Sized(n) : Has(T)}
<1>1. 0 \in Q
  <2> SUFFICES ASSUME NEW T \in Sized(0) PROVE Has(T)
      OBVIOUS
  <2>1. T = {} /\ Cardinality(T) = 0 /\ 1..0 = {}
      BY FS_EmptySet
  <2>2. <<>> \in [1..0 -> T] 
      BY <2>1
  <2>3. Lists(<<>>, T) /\ InOrder(<<>>, T, R)
      BY <2>1, <2>2 DEF Lists, InOrder
  <2> QED
      BY <2>3
<1>2. ASSUME NEW n \in Nat \ {0}, n - 1 \in Q PROVE n \in Q
  <2> SUFFICES ASSUME NEW T \in Sized(n) PROVE Has(T)
      OBVIOUS
  <2>1. T # {} /\ IsFiniteSet(T) /\ Cardinality(T) = n /\ T \subseteq S
      BY SizeAndRest
  <2>2. StrictOrder(R, T)
      BY <2>1 DEF StrictOrder
  <2>3. PICK m \in T : \A x \in T \ {m} : <<x, m>> \in R
      BY <2>1, <2>2, GreatestElement
  <2> DEFINE P == T \ {m}
  <2>4. P \in Sized(n - 1) /\ Cardinality(P) = n - 1 /\ P \subseteq T /\ m \notin P
      BY <2>1, <2>3, SizeAndRest
  <2>5. PICK s : Lists(s, P) /\ InOrder(s, P, R)
      BY <1>2, <2>4
  <2>6. T = P \cup {m}
      BY <2>3
  <2>7. \A x \in P : <<x, m>> \in R
      BY <2>3
  <2> HIDE DEF P
  <2> DEFINE t == [k \in 1..n |-> IF k = n THEN m ELSE s[k]]
  <2>8. /\ s \in [1..(n - 1) -> P]
        /\ \A j, k \in 1..(n - 1) : s[j] = s[k] => j = k
        /\ \A x \in P : \E k \in 1..(n - 1) : s[k] = x
        /\ \A j, k \in 1..(n - 1) : j < k => <<s[j], s[k]>> \in R
      BY <2>4, <2>5 DEF Lists, InOrder
  <2>9. \A k \in 1..n : \/ k = n /\ t[k] = m
                        \/ k \in 1..(n - 1) /\ t[k] = s[k] /\ t[k] \in P
      BY <2>8
  <2>10. t \in [1..n -> T] /\ t[n] = m /\ n \in 1..n
      BY <2>6, <2>9
  <2>11. \A k \in 1..(n - 1) : k \in 1..n /\ t[k] = s[k]
      BY <2>9
  <2> HIDE DEF t
  <2>12. \A j, k \in 1..n : t[j] = t[k] => j = k
      BY <2>4, <2>8, <2>9
  <2>13. \A x \in T : \E k \in 1..n : t[k] = x
      BY <2>6, <2>8, <2>10, <2>11
  <2>14. \A j, k \in 1..n : j < k => <<t[j], t[k]>> \in R
    <3> SUFFICES ASSUME NEW j \in 1..n, NEW k \in 1..n, j < k PROVE <<t[j], t[k]>> \in R
        OBVIOUS
    <3>1. j \in 1..(n - 1) /\ t[j] = s[j] /\ t[j] \in P
        BY <2>9
    <3>2. CASE k = n
        BY <2>7, <2>10, <3>1, <3>2
    <3>3. CASE k # n
      <4>1. k \in 1..(n - 1) /\ t[k] = s[k]
          BY <2>9, <3>3
      <4> QED
          BY <2>8, <3>1, <4>1
    <3> QED
        BY <3>2, <3>3
  <2>15. Lists(t, T) /\ InOrder(t, T, R)
      BY <2>1, <2>10, <2>12, <2>13, <2>14 DEF Lists, InOrder
  <2> QED
      BY <2>15
<1> HIDE DEF Q
<1>3. Nat \subseteq Q
    BY <1>1, <1>2, InductionOnNat
<1>4. S \in Sized(Cardinality(S)) /\ Cardinality(S) \in Nat
    BY SizeAndRest
<1>5. Has(S)
    BY <1>3, <1>4 DEF Q
<1> QED
    BY <1>5

(* What the library chooses to list a set.                                 *)
THEOREM SetToSeqLists ==
    ASSUME NEW S, IsFiniteSet(S)
    PROVE  /\ Lists(SetToSeq(S), S) /\ SetToSeq(S) \in Seq(S)
           /\ Len(SetToSeq(S)) = Cardinality(S)
<1> DEFINE n == Cardinality(S)
           Good(f) == f \in [1..n -> S] /\ IsInjective(f)
<1>1. n \in Nat
    BY FS_CardinalityType
<1>2. PICK f : f \in Bijection(1..n, S)
    BY FS_CardinalityType DEF ExistsBijection
<1>3. Good(f)
    BY <1>2 DEF Bijection, Injection, IsInjective
<1>4. Good(SetToSeq(S))
  <2>1. SetToSeq(S) = CHOOSE g : Good(g)
      BY DEF SetToSeq
  <2> HIDE DEF Good
  <2> QED
      BY <1>3, <2>1
<1>5. SetToSeq(S) \in Injection(1..n, S)
    BY <1>4 DEF Injection, IsInjective
<1>6. SetToSeq(S) \in Surjection(1..n, S)
  <2>1. IsFiniteSet(1..n) /\ Cardinality(1..n) = n
      BY <1>1, FS_Interval
  <2> HIDE DEF n
  <2>2. n = Cardinality(S)
      BY DEF n
  <2> QED
      BY <1>5, <2>1, <2>2, FS_Injection
<1>7. Lists(SetToSeq(S), S)
    BY <1>4, <1>6 DEF Lists, Surjection, IsInjective
<1> QED
    BY <1>1, <1>7 DEF Lists
=============================================================================
