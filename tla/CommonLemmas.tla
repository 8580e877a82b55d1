---------------------------- MODULE CommonLemmas ----------------------------
(***************************************************************************)
(* Facts about operators that several components are modelled with: Min    *)
(* and Max of a set of numbers, where they exist; sequences, one element   *)
(* of which is given or replaced, their concatenation, head and tail;      *)
(* FlattenSeq; and the parts of a sequence that Positions defines, what is *)
(* picked from it in order and what is left without repetitions.  What     *)
(* needs an induction is proved by the least counterexample, a set of      *)
(* numbers having a least element.                                         *)
(***************************************************************************)
EXTENDS Positions, FiniteSetsExt, FiniteSetTheorems, WellFoundedInduction, TLAPS

(* Every non-empty set of naturals has a least element, which Min chooses. *)
LEMMA MinIsLeast ==
  ASSUME NEW S \in SUBSET Nat, S # {}
  PROVE  Min(S) \in S /\ \A y \in S : Min(S) <= y
<1> DEFINE R == {p \in Nat \X Nat : p[1] < p[2]}
<1>1. IsWellFoundedOn(R, Nat)
  BY NatLessThanWellFounded DEF OpToRel
<1>2. PICK x \in S : \A y \in S : ~(<<y, x>> \in R)
  <2> HIDE DEF R
  <2> QED
    BY <1>1, WFMin
<1>3. \A y \in S : x <= y
  <2> SUFFICES ASSUME NEW y \in S PROVE x <= y
    OBVIOUS
  <2>1. x \in Nat /\ y \in Nat /\ ~(<<y, x>> \in R)
    BY <1>2
  <2> QED
    BY <2>1
<1> QED
  BY <1>3 DEF Min

(* A non-empty set of bounded naturals has a greatest, which Max chooses.  *)
LEMMA MaxIsGreatest ==
  ASSUME NEW n \in Nat, NEW S \in SUBSET (1..n), S # {}
  PROVE  Max(S) \in S /\ \A y \in S : y <= Max(S)
<1> DEFINE T == {n - x : x \in S}
<1>0. \A x \in S : x \in Nat /\ x <= n /\ n - x \in Nat
  OBVIOUS
<1>1. T \in SUBSET Nat /\ T # {}
  BY <1>0
<1>2. Min(T) \in T /\ \A y \in T : Min(T) <= y
  BY <1>1, MinIsLeast
<1>3. PICK x \in S : Min(T) = n - x
  BY <1>2
<1>4. \A y \in S : y <= x
  <2> SUFFICES ASSUME NEW y \in S PROVE y <= x
    OBVIOUS
  <2>1. n - x <= n - y
    BY <1>2, <1>3
  <2> QED
    BY <1>0, <2>1
<1>5. \E z \in S : \A y \in S : z >= y
  BY <1>4
<1> QED
  BY <1>5 DEF Max

(* A sequence of one element is a sequence of what it is in.               *)
LEMMA OneElement ==
  ASSUME NEW T, NEW t \in T
  PROVE  <<t>> \in Seq(T) /\ <<>> \in Seq(T)
OBVIOUS

(* What a sequence is, as a function.                                      *)
LEMMA SequenceElements ==
  ASSUME NEW T, NEW s \in Seq(T)
  PROVE  DOMAIN s = 1..Len(s) /\ Len(s) \in Nat /\ \A i \in 1..Len(s) : s[i] \in T
OBVIOUS

(* A sequence with one element replaced.                                   *)
LEMMA ReplaceElement ==
  ASSUME NEW T, NEW s \in Seq(T), NEW i \in 1..Len(s), NEW t \in T
  PROVE  /\ [s EXCEPT ![i] = t] \in Seq(T) /\ Len([s EXCEPT ![i] = t]) = Len(s)
         /\ DOMAIN [s EXCEPT ![i] = t] = DOMAIN s
OBVIOUS

(* The sequence of partial concatenations that FlattenSeq chooses exists,  *)
(* so that it takes the last of one.                                       *)
LEMMA FlattenDefined ==
  ASSUME NEW T, NEW ss \in Seq(Seq(T)), ss # <<>>
  PROVE  \E f : /\ FlattenSeq(ss) = f[Len(ss)]
                /\ f[1] = ss[1] /\ \A i \in 2..Len(ss) : f[i] = f[i - 1] \o ss[i]
<1> DEFINE n == Len(ss)
           Sums(f, m) == f \in [1..m -> Seq(T)] /\
             \A i \in 1..m : f[i] = IF i = 1 THEN ss[i] ELSE f[i - 1] \o ss[i]
           Bad == {m \in 1..n : ~\E f : Sums(f, m)}
<1>0. n \in Nat \ {0} /\ \A i \in 1..n : ss[i] \in Seq(T)
  OBVIOUS
<1> HIDE DEF n
<1>1. Bad = {}
  <2> SUFFICES ASSUME Bad # {} PROVE FALSE
    OBVIOUS
  <2> DEFINE m == Min(Bad)
  <2>1. Bad \in SUBSET Nat
    BY <1>0
  <2> HIDE DEF Bad
  <2>2. m \in Bad /\ \A k \in Bad : m <= k
    BY <2>1, MinIsLeast
  <2> HIDE DEF m
  <2>3. m \in 1..n /\ ~\E f : Sums(f, m)
    BY <2>2 DEF Bad
  <2>4. CASE m = 1
    <3>1. Sums([i \in 1..m |-> ss[i]], m)
      BY <1>0, <2>3, <2>4
    <3> QED
      BY <2>3, <3>1
  <2>5. CASE m # 1
    <3>1. m - 1 \in 1..n /\ m - 1 \in Nat /\ ~(m <= m - 1)
      BY <1>0, <2>3, <2>5
    <3>2. PICK f : Sums(f, m - 1)
      BY <2>2, <3>1 DEF Bad
    <3> DEFINE g == [i \in 1..m |-> IF i = m THEN f[m - 1] \o ss[m] ELSE f[i]]
    <3>3. f[m - 1] \in Seq(T) /\ ss[m] \in Seq(T) /\ f[m - 1] \o ss[m] \in Seq(T)
      <4>1. f[m - 1] \in Seq(T)
        BY <2>3, <3>1, <3>2
      <4> QED
        BY <1>0, <2>3, <4>1
    <3>4. \A i \in 1..m : i # m => i \in 1..(m - 1) /\ g[i] = f[i]
      BY <2>3
    <3>5. g[m] = f[m - 1] \o ss[m]
      <4>1. m \in 1..m
        BY <1>0, <2>3
      <4> QED
        BY <4>1
    <3>6. g \in [1..m -> Seq(T)]
      BY <3>2, <3>3, <3>4
    <3>7. \A i \in 1..m : g[i] = IF i = 1 THEN ss[i] ELSE g[i - 1] \o ss[i]
      <4> SUFFICES ASSUME NEW i \in 1..m PROVE g[i] = IF i = 1 THEN ss[i] ELSE g[i - 1] \o ss[i]
        OBVIOUS
      <4>1. i # 1 => i - 1 \in 1..m /\ i - 1 # m
        BY <2>3
      <4> HIDE DEF g
      <4>2. CASE i = m
        BY <2>5, <3>4, <3>5, <4>1, <4>2
      <4>3. CASE i # m
        BY <3>2, <3>4, <4>1, <4>3
      <4> QED
        BY <4>2, <4>3
    <3> QED
      BY <2>3, <3>6, <3>7
  <2> QED
    BY <2>4, <2>5
<1>2. PICK F : Sums(F, n)
  <2>1. n \in 1..n
    BY <1>0
  <2>2. n \notin Bad
    <3> HIDE DEF Bad
    <3> QED
      BY <1>1
  <2> HIDE DEF Sums
  <2> QED
    BY <2>1, <2>2
<1>3. \E f : f = [i \in 1..n |-> IF i = 1 THEN ss[i] ELSE f[i - 1] \o ss[i]]
  <2>1. F = [i \in 1..n |-> IF i = 1 THEN ss[i] ELSE F[i - 1] \o ss[i]]
    BY <1>2
  <2> QED
    BY <2>1
<1>4. \E f : /\ f = [i \in 1..n |-> IF i = 1 THEN ss[i] ELSE f[i - 1] \o ss[i]]
             /\ FlattenSeq(ss) = f[n]
  BY <1>0, <1>3 DEF FlattenSeq, n
<1>5. PICK f : /\ f = [i \in 1..n |-> IF i = 1 THEN ss[i] ELSE f[i - 1] \o ss[i]]
               /\ FlattenSeq(ss) = f[n]
  BY <1>4
<1>6. f[1] = ss[1] /\ \A i \in 2..n : f[i] = f[i - 1] \o ss[i]
  <2>1. 1 \in 1..n /\ \A i \in 2..n : i \in 1..n /\ i # 1
    BY <1>0
  <2> QED
    BY <1>5, <2>1
<1> QED
  BY <1>5, <1>6 DEF n

(* FlattenSeq returns a sequence of the elements of the sequences it is    *)
(* given, and of no others; it is empty only when they all are.            *)
LEMMA FlattenElements ==
  ASSUME NEW T, NEW ss \in Seq(Seq(T))
  PROVE  /\ FlattenSeq(ss) \in Seq(T)
         /\ \A i \in DOMAIN FlattenSeq(ss) :
              \E j \in DOMAIN ss : \E k \in DOMAIN ss[j] : ss[j][k] = FlattenSeq(ss)[i]
         /\ \A j \in DOMAIN ss : \A k \in DOMAIN ss[j] :
              \E i \in DOMAIN FlattenSeq(ss) : FlattenSeq(ss)[i] = ss[j][k]
<1>1. CASE ss = <<>>
  <2> DEFINE F == FlattenSeq(ss)
  <2>1. F = <<>>
    BY <1>1 DEF FlattenSeq
  <2> HIDE DEF F
  <2>2. F \in Seq(T) /\ DOMAIN F = {} /\ DOMAIN ss = {}
    BY <1>1, <2>1
  <2> QED
    BY <2>2 DEF F
<1>2. CASE ss # <<>>
  <2> DEFINE n == Len(ss)
             Good(r, m) ==
               /\ r \in Seq(T)
               /\ \A i \in DOMAIN r : \E j \in 1..m : \E k \in DOMAIN ss[j] : ss[j][k] = r[i]
               /\ \A j \in 1..m : \A k \in DOMAIN ss[j] : \E i \in DOMAIN r : r[i] = ss[j][k]
  <2>0. n \in Nat \ {0} /\ DOMAIN ss = 1..n /\ \A i \in 1..n : ss[i] \in Seq(T)
    BY <1>2
  <2>1. PICK f : /\ FlattenSeq(ss) = f[n]
                 /\ f[1] = ss[1] /\ \A i \in 2..n : f[i] = f[i - 1] \o ss[i]
    BY <1>2, FlattenDefined
  <2> HIDE DEF n
  <2> DEFINE Bad == {m \in 1..n : ~Good(f[m], m)}
  <2>2. Bad = {}
    <3> SUFFICES ASSUME Bad # {} PROVE FALSE
      OBVIOUS
    <3> DEFINE m == Min(Bad)
    <3>1. Bad \in SUBSET Nat
      BY <2>0
    <3> HIDE DEF Bad
    <3>2. m \in Bad /\ \A k \in Bad : m <= k
      BY <3>1, MinIsLeast
    <3> HIDE DEF m
    <3>3. m \in 1..n /\ ~Good(f[m], m)
      BY <3>2 DEF Bad
    <3>4. CASE m = 1
      <4>1. 1..m = {1} /\ f[m] = ss[1]
        BY <2>1, <3>4
      <4> QED
        BY <2>0, <3>3, <3>4, <4>1
    <3>5. CASE m # 1
      <4>1. m \in 2..n /\ m - 1 \in 1..n /\ m - 1 \in Nat /\ ~(m <= m - 1)
            /\ 1..m = 1..(m - 1) \cup {m}
        BY <2>0, <3>3, <3>5
      <4>2. Good(f[m - 1], m - 1)
        BY <3>2, <4>1 DEF Bad
      <4>3. f[m] = f[m - 1] \o ss[m] /\ ss[m] \in Seq(T)
        BY <2>0, <2>1, <3>3, <4>1
      <4> DEFINE p == f[m - 1]
                 q == ss[m]
                 r == p \o q
      <4>4. /\ p \in Seq(T) /\ q \in Seq(T) /\ r \in Seq(T) /\ Len(r) = Len(p) + Len(q)
            /\ \A i \in DOMAIN p : i \in DOMAIN r /\ r[i] = p[i]
            /\ \A i \in DOMAIN q : i + Len(p) \in DOMAIN r /\ r[i + Len(p)] = q[i]
            /\ \A i \in DOMAIN r : (i \in DOMAIN p /\ r[i] = p[i])
                                   \/ (i - Len(p) \in DOMAIN q /\ r[i] = q[i - Len(p)])
        <5>1. p \in Seq(T) /\ q \in Seq(T)
          BY <4>2, <4>3
        <5> HIDE DEF p, q
        <5> QED
          BY <5>1
      <4>5. \A i \in DOMAIN r : \E j \in 1..m : \E k \in DOMAIN ss[j] : ss[j][k] = r[i]
        <5> SUFFICES ASSUME NEW i \in DOMAIN r
                     PROVE  \E j \in 1..m : \E k \in DOMAIN ss[j] : ss[j][k] = r[i]
          OBVIOUS
        <5> HIDE DEF r
        <5>1. CASE i \in DOMAIN p /\ r[i] = p[i]
          BY <4>1, <4>2, <5>1
        <5>2. CASE i - Len(p) \in DOMAIN q /\ r[i] = q[i - Len(p)]
          BY <4>1, <5>2
        <5> QED
          BY <4>4, <5>1, <5>2
      <4>6. \A j \in 1..m : \A k \in DOMAIN ss[j] : \E i \in DOMAIN r : r[i] = ss[j][k]
        <5> SUFFICES ASSUME NEW j \in 1..m, NEW k \in DOMAIN ss[j]
                     PROVE  \E i \in DOMAIN r : r[i] = ss[j][k]
          OBVIOUS
        <5> HIDE DEF r
        <5>1. CASE j \in 1..(m - 1)
          <6>1. PICK i \in DOMAIN p : p[i] = ss[j][k]
            BY <4>2, <5>1
          <6> QED
            BY <4>4, <6>1
        <5>2. CASE j = m
          BY <4>4, <5>2
        <5> QED
          BY <4>1, <5>1, <5>2
      <4>7. Good(r, m)
        BY <4>4, <4>5, <4>6
      <4>8. f[m] = r
        BY <4>3
      <4> HIDE DEF r, Good
      <4> QED
        BY <3>3, <4>7, <4>8
    <3> QED
      BY <3>4, <3>5
  <2>3. Good(f[n], n)
    <3>1. n \in 1..n
      BY <2>0
    <3>2. n \notin Bad
      <4> HIDE DEF Bad
      <4> QED
        BY <2>2
    <3> HIDE DEF Good
    <3> QED
      BY <3>1, <3>2
  <2> DEFINE F == FlattenSeq(ss)
  <2>4. Good(F, n)
    <3> HIDE DEF Good
    <3> QED
      BY <2>1, <2>3
  <2> HIDE DEF F
  <2> QED
    BY <2>0, <2>4 DEF F
<1> QED
  BY <1>1, <1>2

(* A relation that holds between the elements of each sequence, in their   *)
(* order, and between those of any two of the sequences, holds between all *)
(* elements of FlattenSeq in its order.                                    *)
LEMMA FlattenRelated ==
  ASSUME NEW T, NEW ss \in Seq(Seq(T)), NEW R,
         \A j \in DOMAIN ss : \A k, l \in DOMAIN ss[j] : k < l => <<ss[j][k], ss[j][l]>> \in R,
         \A i, j \in DOMAIN ss : i < j =>
           \A k \in DOMAIN ss[i], l \in DOMAIN ss[j] : <<ss[i][k], ss[j][l]>> \in R
  PROVE  \A k, l \in DOMAIN FlattenSeq(ss) :
           k < l => <<FlattenSeq(ss)[k], FlattenSeq(ss)[l]>> \in R
<1>1. CASE ss = <<>>
  <2> DEFINE F == FlattenSeq(ss)
  <2>1. F = <<>>
    BY <1>1 DEF FlattenSeq
  <2> HIDE DEF F
  <2>2. DOMAIN F = {}
    BY <2>1
  <2> QED
    BY <2>2 DEF F
<1>2. CASE ss # <<>>
  <2> DEFINE n == Len(ss)
             From(x, m) == \E j \in 1..m : \E k \in DOMAIN ss[j] : ss[j][k] = x
             Good(r, m) ==
               /\ r \in Seq(T)
               /\ \A i \in DOMAIN r : From(r[i], m)
               /\ \A k, l \in DOMAIN r : k < l => <<r[k], r[l]>> \in R
  <2>0. n \in Nat \ {0} /\ DOMAIN ss = 1..n /\ \A i \in 1..n : ss[i] \in Seq(T)
    BY <1>2
  <2>1. PICK f : /\ FlattenSeq(ss) = f[n]
                 /\ f[1] = ss[1] /\ \A i \in 2..n : f[i] = f[i - 1] \o ss[i]
    BY <1>2, FlattenDefined
  <2> HIDE DEF n
  <2> DEFINE Bad == {m \in 1..n : ~Good(f[m], m)}
  <2>2. Bad = {}
    <3> SUFFICES ASSUME Bad # {} PROVE FALSE
      OBVIOUS
    <3> DEFINE m == Min(Bad)
    <3>1. Bad \in SUBSET Nat
      BY <2>0
    <3> HIDE DEF Bad
    <3>2. m \in Bad /\ \A k \in Bad : m <= k
      BY <3>1, MinIsLeast
    <3> HIDE DEF m
    <3>3. m \in 1..n /\ ~Good(f[m], m)
      BY <3>2 DEF Bad
    <3>4. CASE m = 1
      <4>1. f[m] = ss[m] /\ ss[m] \in Seq(T) /\ m \in 1..m /\ m \in DOMAIN ss
        BY <2>0, <2>1, <3>3, <3>4
      <4>2. Good(ss[m], m)
        BY <4>1
      <4> HIDE DEF Good
      <4> QED
        BY <3>3, <4>1, <4>2
    <3>5. CASE m # 1
      <4>1. m \in 2..n /\ m - 1 \in 1..n /\ m - 1 \in Nat /\ ~(m <= m - 1) /\ m \in 1..m
            /\ 1..m = 1..(m - 1) \cup {m} /\ m \in DOMAIN ss
            /\ \A j \in 1..(m - 1) : j < m /\ j \in DOMAIN ss
        BY <2>0, <3>3, <3>5
      <4>2. Good(f[m - 1], m - 1)
        BY <3>2, <4>1 DEF Bad
      <4> DEFINE p == f[m - 1]
                 q == ss[m]
                 r == p \o q
      <4>3. f[m] = r /\ q \in Seq(T)
        BY <2>0, <2>1, <3>3, <4>1
      <4>4. /\ p \in Seq(T) /\ \A i \in DOMAIN p : From(p[i], m - 1)
            /\ \A k, l \in DOMAIN p : k < l => <<p[k], p[l]>> \in R
        BY <4>2
      <4>5. \A k, l \in DOMAIN q : k < l => <<q[k], q[l]>> \in R
        BY <4>1
      <4>6. \A k \in DOMAIN p, l \in DOMAIN q : <<p[k], q[l]>> \in R
        <5> TAKE k \in DOMAIN p, l \in DOMAIN q
        <5>1. PICK j \in 1..(m - 1) : \E i \in DOMAIN ss[j] : ss[j][i] = p[k]
          BY <4>4
        <5>2. PICK i \in DOMAIN ss[j] : ss[j][i] = p[k]
          BY <5>1
        <5>3. <<ss[j][i], ss[m][l]>> \in R
          BY <4>1
        <5> QED
          BY <5>2, <5>3
      <4>7. \A i \in DOMAIN p : From(p[i], m)
        BY <4>1, <4>4
      <4>8. \A i \in DOMAIN q : From(q[i], m)
        BY <4>1
      <4> HIDE DEF p, q, From
      <4>9. /\ r \in Seq(T)
            /\ \A i \in DOMAIN r : (i \in DOMAIN p /\ r[i] = p[i])
                                   \/ (i - Len(p) \in DOMAIN q /\ r[i] = q[i - Len(p)] /\ i > Len(p))
            /\ DOMAIN p = 1..Len(p) /\ Len(p) \in Nat
            /\ \A i \in DOMAIN r : i \in Nat
        BY <4>3, <4>4
      <4> HIDE DEF r
      <4>10. \A i \in DOMAIN r : From(r[i], m)
        BY <4>7, <4>8, <4>9
      <4>11. \A k, l \in DOMAIN r : k < l => <<r[k], r[l]>> \in R
        <5> SUFFICES ASSUME NEW k \in DOMAIN r, NEW l \in DOMAIN r, k < l
                     PROVE  <<r[k], r[l]>> \in R
          OBVIOUS
        <5>1. CASE l \in DOMAIN p /\ r[l] = p[l]
          <6>1. k \in DOMAIN p /\ r[k] = p[k]
            BY <4>9, <5>1
          <6> QED
            BY <4>4, <5>1, <6>1
        <5>2. CASE l - Len(p) \in DOMAIN q /\ r[l] = q[l - Len(p)] /\ l > Len(p)
          <6>1. CASE k \in DOMAIN p /\ r[k] = p[k]
            BY <4>6, <5>2, <6>1
          <6>2. CASE k - Len(p) \in DOMAIN q /\ r[k] = q[k - Len(p)]
            <7>1. k - Len(p) < l - Len(p)
              BY <4>9
            <7> QED
              BY <4>5, <5>2, <6>2, <7>1
          <6> QED
            BY <4>9, <6>1, <6>2
        <5> QED
          BY <4>9, <5>1, <5>2
      <4>12. Good(r, m)
        BY <4>9, <4>10, <4>11
      <4> HIDE DEF Good
      <4> QED
        BY <3>3, <4>3, <4>12
    <3> QED
      BY <3>4, <3>5
  <2>3. Good(f[n], n)
    <3>1. n \in 1..n
      BY <2>0
    <3>2. n \notin Bad
      <4> HIDE DEF Bad
      <4> QED
        BY <2>2
    <3> HIDE DEF Good
    <3> QED
      BY <3>1, <3>2
  <2> DEFINE F == FlattenSeq(ss)
  <2>4. Good(F, n)
    <3> HIDE DEF Good
    <3> QED
      BY <2>1, <2>3
  <2> HIDE DEF F
  <2> QED
    BY <2>4 DEF F
<1> QED
  BY <1>1, <1>2

(* Of the positions 1..n, FlattenSeq picks those of a set, each once and   *)
(* in order, when every other one contributes nothing.                     *)
LEMMA FlattenSelection ==
  ASSUME NEW n \in Nat, NEW S \in SUBSET (1..n)
  PROVE  LET s == FlattenSeq([i \in 1..n |-> IF i \in S THEN <<i>> ELSE <<>>]) IN
         /\ s \in Seq(S) /\ \A i \in S : \E k \in DOMAIN s : s[k] = i
         /\ \A j, k \in DOMAIN s : j < k => s[j] < s[k]
<1> DEFINE ss == [i \in 1..n |-> IF i \in S THEN <<i>> ELSE <<>>]
           s == FlattenSeq(ss)
<1>1. ss \in Seq(Seq(S)) /\ DOMAIN ss = 1..n /\ Len(ss) = n
      /\ \A i \in 1..n : ss[i] = IF i \in S THEN <<i>> ELSE <<>>
  <2>1. \A i \in 1..n : (IF i \in S THEN <<i>> ELSE <<>>) \in Seq(S)
    BY OneElement
  <2>2. ss \in [1..n -> Seq(S)]
    BY <2>1
  <2>3. \A i \in 1..n : ss[i] = IF i \in S THEN <<i>> ELSE <<>>
    OBVIOUS
  <2> HIDE DEF ss
  <2> QED
    BY <2>2, <2>3
<1>2. /\ s \in Seq(S)
      /\ \A j \in DOMAIN ss : \A k \in DOMAIN ss[j] : \E i \in DOMAIN s : s[i] = ss[j][k]
  <2> HIDE DEF ss
  <2> QED
    BY <1>1, FlattenElements
<1>3. \A i \in S : \E k \in DOMAIN s : s[k] = i
  <2> HIDE DEF ss, s
  <2> SUFFICES ASSUME NEW i \in S PROVE \E k \in DOMAIN s : s[k] = i
    OBVIOUS
  <2>1. i \in 1..n /\ ss[i] = <<i>> /\ 1 \in DOMAIN ss[i] /\ ss[i][1] = i
    BY <1>1
  <2> QED
    BY <1>1, <1>2, <2>1
<1>4. \A j, k \in DOMAIN s : j < k => s[j] < s[k]
  <2>1. CASE n = 0
    <3>1. S = {}
      BY <2>1
    <3> HIDE DEF s
    <3>2. DOMAIN s = {}
      BY <1>2, <3>1
    <3> QED
      BY <3>2
  <2>2. CASE n # 0
    <3>1. ss # <<>>
      <4> HIDE DEF ss
      <4> QED
        BY <1>1, <2>2
    <3>2. PICK f : /\ s = f[n]
                   /\ f[1] = ss[1] /\ \A i \in 2..n : f[i] = f[i - 1] \o ss[i]
      <4> HIDE DEF ss
      <4> QED
        BY <1>1, <3>1, FlattenDefined
    <3> HIDE DEF ss, s
    <3> DEFINE Good(r, m) ==
                 /\ r \in Seq(Nat) /\ \A j \in DOMAIN r : r[j] <= m
                 /\ \A j, k \in DOMAIN r : j < k => r[j] < r[k]
               Bad == {m \in 1..n : ~Good(f[m], m)}
    <3>3. Bad = {}
      <4> SUFFICES ASSUME Bad # {} PROVE FALSE
        OBVIOUS
      <4> DEFINE m == Min(Bad)
      <4>1. Bad \in SUBSET Nat
        OBVIOUS
      <4> HIDE DEF Bad
      <4>2. m \in Bad /\ \A k \in Bad : m <= k
        BY <4>1, MinIsLeast
      <4> HIDE DEF m
      <4>3. m \in 1..n /\ ~Good(f[m], m)
        BY <4>2 DEF Bad
      <4>4. CASE m = 1
        <5>1. f[m] = <<1>> \/ f[m] = <<>>
          BY <1>1, <3>2, <4>3, <4>4
        <5> DEFINE r == f[m]
        <5>2. /\ r \in Seq(Nat) /\ DOMAIN r \subseteq {1} /\ \A j \in DOMAIN r : r[j] = 1
          <6> HIDE DEF r
          <6>1. CASE r = <<1>>
            BY <6>1
          <6>2. CASE r = <<>>
            BY <6>2
          <6> QED
            BY <5>1, <6>1, <6>2 DEF r
        <5>3. \A j, k \in DOMAIN r : ~(j < k)
          BY <5>2
        <5>4. \A j \in DOMAIN r : r[j] <= m
          BY <4>4, <5>2
        <5> HIDE DEF r
        <5>5. Good(r, m)
          BY <5>2, <5>3, <5>4
        <5> HIDE DEF Good
        <5> QED
          BY <4>3, <5>5 DEF r
      <4>5. CASE m # 1
        <5>1. m \in 2..n /\ m - 1 \in 1..n /\ ~(m <= m - 1) /\ m \in 1..m
          BY <4>3, <4>5
        <5>2. Good(f[m - 1], m - 1)
          BY <4>2, <5>1 DEF Bad
        <5> DEFINE p == f[m - 1]
                   q == ss[m]
        <5>3. f[m] = p \o q /\ (q = <<m>> \/ q = <<>>)
          BY <1>1, <3>2, <4>3, <5>1
        <5>4. /\ p \in Seq(Nat) /\ \A j \in DOMAIN p : p[j] < m
              /\ \A j, k \in DOMAIN p : j < k => p[j] < p[k]
          <6>1. p \in Seq(Nat) /\ \A j \in DOMAIN p : p[j] \in Nat /\ p[j] <= m - 1
            <7>1. p \in Seq(Nat) /\ \A j \in DOMAIN p : p[j] <= m - 1
              BY <5>2
            <7> HIDE DEF p
            <7> QED
              BY <7>1
          <6>2. \A x \in Nat : x <= m - 1 => x < m
            BY <5>1
          <6> QED
            BY <5>2, <6>1, <6>2
        <5> HIDE DEF p, q
        <5>5. CASE q = <<>>
          <6>1. f[m] = p
            BY <5>3, <5>4, <5>5
          <6>2. \A j \in DOMAIN p : p[j] \in Nat /\ p[j] <= m
            BY <4>3, <5>4
          <6> QED
            BY <4>3, <5>4, <6>1, <6>2
        <5>6. CASE q = <<m>>
          <6>1. /\ p \o q \in Seq(Nat) /\ DOMAIN (p \o q) = 1..(Len(p) + 1) /\ Len(p) \in Nat
                /\ \A j \in 1..Len(p) : j \in DOMAIN p /\ (p \o q)[j] = p[j]
                /\ (p \o q)[Len(p) + 1] = m
            BY <5>1, <5>4, <5>6
          <6>2. \A j, k \in DOMAIN (p \o q) : j < k => (p \o q)[j] < (p \o q)[k]
            <7> SUFFICES ASSUME NEW j \in 1..(Len(p) + 1), NEW k \in 1..(Len(p) + 1), j < k
                         PROVE  (p \o q)[j] < (p \o q)[k]
              BY <6>1
            <7>1. j \in 1..Len(p) /\ (k \in 1..Len(p) \/ k = Len(p) + 1)
              BY <6>1
            <7> QED
              BY <5>4, <6>1, <7>1
          <6>3. \A j \in DOMAIN (p \o q) : (p \o q)[j] <= m
            <7> SUFFICES ASSUME NEW j \in 1..(Len(p) + 1) PROVE (p \o q)[j] <= m
              BY <6>1
            <7>1. j \in 1..Len(p) \/ j = Len(p) + 1
              BY <6>1
            <7>2. j \in 1..Len(p) => p[j] \in Nat /\ p[j] <= m
              BY <4>3, <5>4
            <7> QED
              BY <4>3, <6>1, <7>1, <7>2
          <6> QED
            BY <4>3, <5>3, <6>1, <6>2, <6>3
        <5> QED
          BY <5>3, <5>5, <5>6
      <4> QED
        BY <4>4, <4>5
    <3>4. n \in 1..n /\ n \notin Bad
      <4> HIDE DEF Bad
      <4> QED
        BY <2>2, <3>3
    <3> QED
      BY <3>2, <3>4
  <2> QED
    BY <2>1, <2>2
<1> HIDE DEF ss
<1>5. /\ s \in Seq(S) /\ \A i \in S : \E k \in DOMAIN s : s[k] = i
      /\ \A j, k \in DOMAIN s : j < k => s[j] < s[k]
  BY <1>2, <1>3, <1>4
<1> QED
  BY <1>5 DEF ss

(* InOrder holds the positions of a set, each once.                        *)
LEMMA InOrderPicks ==
  ASSUME NEW n \in Nat, NEW S \in SUBSET (1..n)
  PROVE  LET s == InOrder(n, S) IN
         /\ s \in Seq(S) /\ DOMAIN s = 1..Len(s) /\ Len(s) \in Nat
         /\ \A k \in DOMAIN s : s[k] \in S
         /\ \A i \in S : \E k \in DOMAIN s : s[k] = i
         /\ \A j, k \in DOMAIN s : j < k => s[j] < s[k]
         /\ \A j, k \in DOMAIN s : s[j] = s[k] => j = k
<1> DEFINE s == InOrder(n, S)
<1>1. /\ s \in Seq(S) /\ \A i \in S : \E k \in DOMAIN s : s[k] = i
      /\ \A j, k \in DOMAIN s : j < k => s[j] < s[k]
  BY FlattenSelection DEF InOrder
<1> HIDE DEF s
<1>2. DOMAIN s = 1..Len(s) /\ Len(s) \in Nat /\ \A k \in DOMAIN s : s[k] \in S
  BY <1>1, SequenceElements
<1>3. ASSUME NEW j \in DOMAIN s, NEW k \in DOMAIN s, s[j] = s[k] PROVE j = k
  <2>1. s[j] \in Nat /\ s[k] \in Nat /\ j \in Nat /\ k \in Nat
    <3>1. s[j] \in S /\ s[k] \in S /\ j \in 1..Len(s) /\ k \in 1..Len(s)
      BY <1>2
    <3>2. S \subseteq Nat /\ \A x \in 1..Len(s) : x \in Nat
      BY <1>2
    <3> QED
      BY <3>1, <3>2
  <2>2. ~(j < k) /\ ~(k < j)
    BY <1>1, <1>3, <2>1
  <2> QED
    BY <2>1, <2>2
<1> QED
  BY <1>1, <1>2, <1>3 DEF s

(* A sequence of members of a smaller set.                                 *)
LEMMA SequenceIn ==
  ASSUME NEW S, NEW T, S \subseteq T, NEW s \in Seq(S)
  PROVE  s \in Seq(T)
OBVIOUS

(* A sequence whose elements differ has as many as it is long.             *)
LEMMA ApartCardinality ==
  ASSUME NEW s, NEW n \in Nat, DOMAIN s = 1..n, s = [i \in 1..n |-> s[i]],
         \A i, j \in DOMAIN s : s[i] = s[j] => i = j
  PROVE  Cardinality(ToSet(s)) = n
<1>1. IsFiniteSet(1..n) /\ Cardinality(1..n) = n
  <2>1. 1 \in Int /\ n \in Int /\ (IF 1 > n THEN 0 ELSE n - 1 + 1) = n
    OBVIOUS
  <2> QED
    BY <2>1, FS_Interval
<1>2. s \in Bijection(1..n, ToSet(s))
  BY DEF Bijection, Injection, Surjection, IsInjective, ToSet
<1> QED
  BY <1>1, <1>2, FS_Bijection DEF ExistsBijection

(* Chosen holds the elements at the positions of a set.                    *)
LEMMA ChosenElements ==
  ASSUME NEW X, NEW seq \in Seq(X), NEW S \in SUBSET (DOMAIN seq)
  PROVE  LET c == Chosen(seq, S) IN
         /\ c \in Seq(X) /\ DOMAIN c = 1..Len(c) /\ Len(c) \in Nat
         /\ \A k \in DOMAIN c : \E i \in S : c[k] = seq[i]
         /\ \A i \in S : \E k \in DOMAIN c : c[k] = seq[i]
<1> DEFINE n == Len(seq)
           at == InOrder(n, S)
           c == Chosen(seq, S)
<1>1. DOMAIN seq = 1..n /\ n \in Nat /\ \A i \in 1..n : seq[i] \in X
  BY SequenceElements
<1> HIDE DEF n
<1>2. /\ DOMAIN at = 1..Len(at) /\ Len(at) \in Nat /\ \A k \in DOMAIN at : at[k] \in S
      /\ \A i \in S : \E k \in DOMAIN at : at[k] = i
  BY <1>1, InOrderPicks
<1>3. c = [k \in DOMAIN at |-> seq[at[k]]]
  BY DEF Chosen, Selected, n
<1> HIDE DEF at, c
<1>4. \A k \in DOMAIN at : seq[at[k]] \in X
  BY <1>1, <1>2
<1>5. c \in Seq(X) /\ DOMAIN c = 1..Len(c) /\ Len(c) \in Nat
  BY <1>2, <1>3, <1>4
<1>6. \A k \in DOMAIN c : \E i \in S : c[k] = seq[i]
  BY <1>2, <1>3
<1>7. \A i \in S : \E k \in DOMAIN c : c[k] = seq[i]
  BY <1>2, <1>3
<1> QED
  BY <1>5, <1>6, <1>7 DEF c

(* Chosen repeats nothing when the sequence does not.                      *)
LEMMA ChosenOnce ==
  ASSUME NEW X, NEW seq \in Seq(X), NEW S \in SUBSET (DOMAIN seq), IsInjective(seq)
  PROVE  IsInjective(Chosen(seq, S))
<1> DEFINE at == InOrder(Len(seq), S)
<1>1. DOMAIN seq = 1..Len(seq) /\ Len(seq) \in Nat
  BY SequenceElements
<1>2. /\ \A k \in DOMAIN at : at[k] \in DOMAIN seq
      /\ \A j, k \in DOMAIN at : at[j] = at[k] => j = k
  <2>1. S \in SUBSET (1..Len(seq))
    BY <1>1
  <2> QED
    BY <1>1, <2>1, InOrderPicks
<1>3. Chosen(seq, S) = [k \in DOMAIN at |-> seq[at[k]]]
  BY DEF Chosen, Selected
<1> HIDE DEF at
<1> QED
  BY <1>2, <1>3 DEF IsInjective

(* Dedupe has every element of a sequence once.                            *)
LEMMA DedupeElements ==
  ASSUME NEW X, NEW seq \in Seq(X)
  PROVE  LET once == Dedupe(seq) IN
         /\ once \in Seq(X) /\ DOMAIN once = 1..Len(once) /\ Len(once) \in Nat
         /\ ToSet(once) = ToSet(seq)
         /\ \A j, k \in DOMAIN once : once[j] = once[k] => j = k
<1> DEFINE n == Len(seq)
           D == {i \in DOMAIN seq : \A j \in 1..(i - 1) : seq[j] # seq[i]}
           at == InOrder(n, D)
           once == Dedupe(seq)
<1>1. DOMAIN seq = 1..n /\ n \in Nat
  BY SequenceElements
<1>2. D \in SUBSET (DOMAIN seq) /\ once = Chosen(seq, D)
  BY DEF Dedupe
<1>3. \A i \in DOMAIN seq : \E m \in D : seq[m] = seq[i]
  <2> HIDE DEF n, once
  <2> SUFFICES ASSUME NEW i \in DOMAIN seq PROVE \E m \in D : seq[m] = seq[i]
    OBVIOUS
  <2> DEFINE E == {j \in DOMAIN seq : seq[j] = seq[i]}
  <2>1. E \in SUBSET Nat /\ E # {}
    BY <1>1
  <2>2. PICK m \in E : \A j \in E : m <= j
    BY <2>1, MinIsLeast
  <2>3. \A j \in 1..(m - 1) : j \in DOMAIN seq /\ ~(m <= j)
    BY <1>1, <2>2
  <2> QED
    BY <2>2, <2>3
<1>4. \A i, j \in D : seq[i] = seq[j] => i = j
  <2> HIDE DEF n, once
  <2> SUFFICES ASSUME NEW i \in D, NEW j \in D, seq[i] = seq[j] PROVE i = j
    OBVIOUS
  <2>1. i \in Nat \ {0} /\ j \in Nat \ {0}
    BY <1>1
  <2>2. i < j => i \in 1..(j - 1)
    BY <2>1
  <2>3. j < i => j \in 1..(i - 1)
    BY <2>1
  <2> QED
    BY <2>1, <2>2, <2>3
<1>5. /\ once \in Seq(X) /\ DOMAIN once = 1..Len(once) /\ Len(once) \in Nat
      /\ \A k \in DOMAIN once : \E i \in D : once[k] = seq[i]
      /\ \A i \in D : \E k \in DOMAIN once : once[k] = seq[i]
  <2> HIDE DEF D, once
  <2> QED
    BY <1>2, ChosenElements
<1>6. \A k \in DOMAIN at : at[k] \in D
      /\ \A j \in DOMAIN at : at[j] = at[k] => j = k
  <2> HIDE DEF D, n, once
  <2> QED
    BY <1>1, <1>2, InOrderPicks
<1>7. once = [k \in DOMAIN at |-> seq[at[k]]]
  BY <1>2 DEF Chosen, Selected
<1>8. D \subseteq DOMAIN seq
  BY <1>2
<1> HIDE DEF D, at, n, once
<1>9. \A j, k \in DOMAIN once : once[j] = once[k] => j = k
  BY <1>4, <1>6, <1>7
<1>10. ToSet(once) = ToSet(seq)
  BY <1>3, <1>5, <1>8 DEF ToSet
<1> QED
  BY <1>5, <1>9, <1>10 DEF once

(* The elements of two sequences one behind the other.                     *)
LEMMA JoinedElements ==
  ASSUME NEW X, NEW s \in Seq(X), NEW t \in Seq(X)
  PROVE  s \o t \in Seq(X) /\ ToSet(s \o t) = ToSet(s) \cup ToSet(t)
<1>1. /\ s \o t \in Seq(X) /\ DOMAIN s = 1..Len(s) /\ DOMAIN t = 1..Len(t)
      /\ Len(s) \in Nat /\ Len(t) \in Nat /\ DOMAIN (s \o t) = 1..(Len(s) + Len(t))
      /\ \A i \in 1..(Len(s) + Len(t)) :
           (s \o t)[i] = IF i <= Len(s) THEN s[i] ELSE t[i - Len(s)]
  OBVIOUS
<1> DEFINE j == s \o t
<1> HIDE DEF j
<1>2. \A i \in DOMAIN j : j[i] \in ToSet(s) \cup ToSet(t)
  BY <1>1 DEF ToSet, j
<1>3. \A i \in DOMAIN s : i \in DOMAIN j /\ j[i] = s[i]
  BY <1>1 DEF j
<1>4. \A i \in DOMAIN t : Len(s) + i \in DOMAIN j /\ j[Len(s) + i] = t[i]
  BY <1>1 DEF j
<1>5. ToSet(j) = ToSet(s) \cup ToSet(t)
  BY <1>2, <1>3, <1>4 DEF ToSet
<1> QED
  BY <1>1, <1>5 DEF j

(* A queue without its head.                                               *)
LEMMA HeadAndTail ==
  ASSUME NEW X, NEW s \in Seq(X), s # <<>>
  PROVE  /\ Head(s) \in X /\ Tail(s) \in Seq(X)
         /\ \A x \in ToSet(s) : x = Head(s) \/ x \in ToSet(Tail(s))
<1>1. /\ Len(s) \in Nat \ {0} /\ DOMAIN s = 1..Len(s) /\ Head(s) = s[1] /\ s[1] \in X
      /\ Tail(s) \in Seq(X) /\ DOMAIN Tail(s) = 1..(Len(s) - 1)
      /\ \A i \in 1..(Len(s) - 1) : Tail(s)[i] = s[i + 1]
  OBVIOUS
<1>2. \A i \in 2..Len(s) : i - 1 \in 1..(Len(s) - 1) /\ i - 1 + 1 = i
  BY <1>1
<1>3. \A i \in DOMAIN s : i = 1 \/ i \in 2..Len(s)
  BY <1>1
<1>4. \A i \in 2..Len(s) : s[i] \in ToSet(Tail(s))
  BY <1>1, <1>2 DEF ToSet
<1> QED
  BY <1>1, <1>3, <1>4 DEF ToSet
=============================================================================
