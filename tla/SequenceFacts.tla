---------------------------- MODULE SequenceFacts ----------------------------
(* Lemmas about sequences: one more element, sets of places, and FoldLeft. *)
EXTENDS Integers, SequencesExt, FiniteSetTheorems, WellFoundedInduction, TLAPS

(* A sequence with one more element.                                       *)
LEMMA AppendEvent ==
  ASSUME NEW E, NEW s \in Seq(E), NEW e \in E
  PROVE  /\ Append(s, e) \in Seq(E)
         /\ Len(s) \in Nat /\ DOMAIN s = 1 .. Len(s)
         /\ DOMAIN Append(s, e) = 1 .. Len(s) + 1
         /\ \A i \in DOMAIN s : i \in DOMAIN Append(s, e) /\ Append(s, e)[i] = s[i]
         /\ Len(s) + 1 \notin DOMAIN s /\ Len(s) + 1 \in DOMAIN Append(s, e)
         /\ Append(s, e)[Len(s) + 1] = e
         /\ \A i \in DOMAIN Append(s, e) : i \in DOMAIN s \/ i = Len(s) + 1
OBVIOUS

(* Sets of positions can be counted, and one more is one more. *)
LEMMA CountPositions ==
  ASSUME NEW E, NEW s \in Seq(E), NEW A \in SUBSET DOMAIN s
  PROVE  /\ IsFiniteSet(A) /\ Cardinality(A) \in Nat
         /\ Cardinality(A \cup {Len(s) + 1}) = Cardinality(A) + 1
<1>1. Len(s) \in Nat /\ DOMAIN s = 1 .. Len(s) /\ Len(s) + 1 \notin A
  OBVIOUS
<1>2. IsFiniteSet(1 .. Len(s))
  BY <1>1, FS_Interval
<1>3. IsFiniteSet(A)
  BY <1>1, <1>2, FS_Subset
<1>. QED
  BY <1>1, <1>3, FS_AddElement, FS_CardinalityType

(***************************************************************************)
(* FoldLeft as a function of the number of elements it has been through.   *)
(* The library folds a sequence by taking the greatest element out of the  *)
(* set of its places, over and over.                                       *)
(***************************************************************************)

(* A set of naturals without a least element is empty.                     *)
LEMMA LeastOf ==
  ASSUME NEW B \in SUBSET Nat, B # {}
  PROVE  \E k \in B : \A m \in B : k <= m
<1>1. PICK k \in B : \A m \in B : ~(<<m, k>> \in OpToRel(<, Nat))
  BY NatLessThanWellFounded, WFMin
<1>2. \A m \in B : ~(m < k)
  BY <1>1 DEF OpToRel
<1>. QED
  BY <1>2

(* The greatest place of a set of places.                                  *)
LEMMA GreatestOf ==
  ASSUME NEW n \in Nat, NEW s \in SUBSET (1 .. n), s # {}
  PROVE  /\ Max(s) \in s
         /\ \A x \in s : x <= Max(s)
<1> DEFINE above == {m \in Nat : \A x \in s : x <= m}
<1>0. PICK x0 \in s : x0 \in 1 .. n
  OBVIOUS
<1>1. PICK m \in above : \A k \in above : m <= k
  <2>1. n \in above
    BY \A x \in s : x \in 1 .. n
  <2>2. above \in SUBSET Nat
    OBVIOUS
  <2>. HIDE DEF above
  <2>. QED
    BY <2>1, <2>2, LeastOf
<1>2. m \in s
  <2>1. SUFFICES ASSUME m \notin s PROVE FALSE
    OBVIOUS
  <2>2. m \in Nat /\ \A x \in s : x \in Nat /\ x <= m /\ x # m
    BY <1>1, <2>1
  <2>3. \A x \in s : x <= m - 1
    BY <2>2
  <2>4. m - 1 \in Nat
    <3>1. x0 \in Nat /\ x0 >= 1 /\ x0 <= m - 1
      BY <1>0, <2>3
    <3>. QED
      BY <2>2, <3>1
  <2>5. m - 1 \in above
    BY <2>3, <2>4
  <2>. QED
    BY <1>1, <2>2, <2>5
<1>3. \A x \in s : m >= x
  BY <1>1
<1>4. \E x \in s : \A y \in s : x >= y
  BY <1>2, <1>3
<1>5. Max(s) \in s /\ \A y \in s : Max(s) >= y
  BY <1>4 DEF Max
<1>. QED
  BY <1>5

(* The last of the first k places is the k-th.                             *)
LEMMA GreatestOfFirst ==
  ASSUME NEW k \in Nat \ {0}
  PROVE  /\ 1 .. k # {} /\ Max(1 .. k) = k
         /\ (1 .. k) \ {k} = 1 .. k - 1
<1>1. k \in 1 .. k /\ 1 .. k \in SUBSET (1 .. k)
  OBVIOUS
<1>2. Max(1 .. k) \in 1 .. k /\ \A x \in 1 .. k : x <= Max(1 .. k)
  BY <1>1, GreatestOf
<1>. QED
  BY <1>1, <1>2

(* A function of sets of places that does so, k of them being there.       *)
FoldsBy(f, k, A, base, step) ==
  /\ f \in [SUBSET (1 .. k) -> A]
  /\ \A s \in SUBSET (1 .. k) :
       f[s] = IF s = {} THEN base ELSE step[<<f[s \ {Max(s)}], Max(s)>>]

(* There is one, for any number of places.                                 *)
LEMMA FoldExists ==
  ASSUME NEW A, NEW n \in Nat, NEW base \in A, NEW step \in [A \X (1 .. n) -> A]
  PROVE  \E f : FoldsBy(f, n, A, base, step)
<1> USE DEF FoldsBy
<1> DEFINE Folds(k, f) == FoldsBy(f, k, A, base, step)
    Bad == {k \in 0 .. n : \A f : ~Folds(k, f)}
<1>1. SUFFICES ASSUME Bad # {} PROVE FALSE
  <2>1. n \in 0 .. n
    OBVIOUS
  <2>. QED
    BY <2>1
<1>2. PICK k \in Bad : \A m \in Bad : k <= m
  <2>1. Bad \in SUBSET Nat
    OBVIOUS
  <2>. HIDE DEF Bad
  <2>. QED
    BY <1>1, <2>1, LeastOf
<1>k. k \in 0 .. n /\ \A f : ~Folds(k, f)
  BY <1>2
<1>3. k # 0
  <2>1. SUFFICES ASSUME k = 0 PROVE \E f : Folds(0, f)
    BY <1>2
  <2>2. SUBSET (1 .. 0) = {{}}
    OBVIOUS
  <2>3. Folds(0, [s \in SUBSET (1 .. 0) |-> base])
    BY <2>2
  <2>. QED
    BY <2>3
<1>4. PICK f : Folds(k - 1, f)
  <2>1. k - 1 \in 0 .. n /\ ~(k <= k - 1)
    BY <1>k, <1>3
  <2>2. k - 1 \notin Bad
    BY <1>2, <2>1
  <2>. HIDE DEF Folds, FoldsBy
  <2>. QED
    BY <2>1, <2>2
<1> DEFINE g == [s \in SUBSET (1 .. k) |->
                   IF k \in s THEN step[<<f[s \ {k}], k>>] ELSE f[s]]
<1>5. \A s \in SUBSET (1 .. k) : /\ s \ {k} \in SUBSET (1 .. k - 1)
                               /\ (k \notin s => s \in SUBSET (1 .. k - 1))
  BY <1>2
<1>6. g \in [SUBSET (1 .. k) -> A]
  <2>1. k \in 1 .. n
    BY <1>2, <1>3
  <2>. QED
    BY <1>4, <1>5, <2>1
<1>7. ASSUME NEW s \in SUBSET (1 .. k)
      PROVE  g[s] = IF s = {} THEN base ELSE step[<<g[s \ {Max(s)}], Max(s)>>]
  <2>0. k \in Nat
    BY <1>2
  <2>1. CASE s = {}
    <3>1. s \in SUBSET (1 .. k - 1) /\ k \notin s
      BY <2>1
    <3>. QED
      BY <1>4, <2>1, <3>1
  <2>2. CASE k \in s
    <3>1. Max(s) = k
      <4>1. s # {} /\ Max(s) \in 1 .. k /\ k <= Max(s)
        BY <2>0, <2>2, GreatestOf
      <4>. QED
        BY <2>0, <4>1
    <3>2. g[s \ {k}] = f[s \ {k}]
      OBVIOUS
    <3>. QED
      BY <2>2, <3>1, <3>2
  <2>3. CASE s # {} /\ k \notin s
    <3>1. Max(s) \in s
      BY <2>0, <2>3, GreatestOf
    <3>2. s \in SUBSET (1 .. k - 1) /\ s \ {Max(s)} \in SUBSET (1 .. k)
      BY <1>5, <2>3
    <3>3. g[s] = f[s] /\ g[s \ {Max(s)}] = f[s \ {Max(s)}]
      BY <2>3, <3>2
    <3>. QED
      BY <1>4, <2>3, <3>2, <3>3
  <2>. QED
    BY <2>1, <2>2, <2>3
<1>8. Folds(k, g)
  BY <1>6, <1>7
<1>. HIDE DEF Folds, FoldsBy
<1>. QED
  BY <1>k, <1>8

(* Induction as far as n.                                                  *)
LEMMA UpTo ==
  ASSUME NEW n \in Nat, NEW Good, 0 \in Good,
         \A k \in 1 .. n : k - 1 \in Good => k \in Good
  PROVE  \A k \in 0 .. n : k \in Good
<1> DEFINE Bad == {k \in 0 .. n : k \notin Good}
<1>1. SUFFICES ASSUME Bad # {} PROVE FALSE
  OBVIOUS
<1>2. PICK k \in Bad : \A m \in Bad : k <= m
  <2>1. Bad \in SUBSET Nat
    OBVIOUS
  <2>. HIDE DEF Bad
  <2>. QED
    BY <1>1, <2>1, LeastOf
<1>3. k \in 1 .. n
  BY <1>2
<1>4. k - 1 \in 0 .. n /\ ~(k <= k - 1)
  BY <1>3
<1>5. k - 1 \notin Bad
  BY <1>2, <1>4
<1>. QED
  BY <1>2, <1>3, <1>4, <1>5

(* What takes the same step from each set of places whose result is in A ...  *)
IteratesBy(iter, n, A, base, step) ==
  /\ n \in Nat /\ base \in A /\ step \in [A \X (1 .. n) -> A]
  /\ iter[{}] = base
  /\ \A s \in SUBSET (1 .. n) :
       s # {} /\ iter[s \ {Max(s)}] \in A
         => iter[s] = step[<<iter[s \ {Max(s)}], Max(s)>>]

(* ... and what takes it from each number of places, with the same result. *)
StepsBy(f, iter, n, A, base, step) ==
  /\ f \in [0 .. n -> A]
  /\ f[0] = base
  /\ \A k \in 1 .. n : f[k] = step[<<f[k - 1], k>>]
  /\ f[n] = iter[1 .. n]

(* The former does what the latter does, place by place.                   *)
LEMMA FoldSteps ==
  ASSUME NEW A, NEW n, NEW base, NEW step, NEW iter, IteratesBy(iter, n, A, base, step)
  PROVE  \E f : StepsBy(f, iter, n, A, base, step)
<1>0. /\ n \in Nat /\ base \in A /\ step \in [A \X (1 .. n) -> A]
      /\ iter[{}] = base
      /\ \A s \in SUBSET (1 .. n) :
           s # {} /\ iter[s \ {Max(s)}] \in A
             => iter[s] = step[<<iter[s \ {Max(s)}], Max(s)>>]
  BY DEF IteratesBy
<1>1. ASSUME NEW k \in 1 .. n, iter[1 .. k - 1] \in A
      PROVE  /\ iter[1 .. k] = step[<<iter[1 .. k - 1], k>>]
             /\ iter[1 .. k] \in A
  <2>1. k \in Nat \ {0} /\ 1 .. k \in SUBSET (1 .. n)
    BY <1>0
  <2>2. 1 .. k # {} /\ Max(1 .. k) = k /\ (1 .. k) \ {k} = 1 .. k - 1
    BY <2>1, GreatestOfFirst
  <2>3. iter[1 .. k] = step[<<iter[1 .. k - 1], k>>]
    BY <1>0, <1>1, <2>1, <2>2
  <2>. QED
    BY <1>0, <1>1, <2>3
<1> DEFINE Good == {k \in 0 .. n : iter[1 .. k] \in A}
<1>2. 1 .. 0 = {} /\ 0 \in Good
  BY <1>0
<1>3. ASSUME NEW k \in 1 .. n, k - 1 \in Good PROVE k \in Good
  <2>1. k \in 0 .. n /\ iter[1 .. k - 1] \in A
    BY <1>0, <1>3
  <2>. QED
    BY <1>1, <2>1
<1>4. \A k \in 0 .. n : k \in Good
  <2>. HIDE DEF Good
  <2>. QED
    BY <1>0, <1>2, <1>3, UpTo
<1> DEFINE f == [k \in 0 .. n |-> iter[1 .. k]]
<1>5. f \in [0 .. n -> A]
  BY <1>4
<1>6. f[0] = base /\ f[n] = iter[1 .. n]
  BY <1>0, <1>2
<1>7. ASSUME NEW k \in 1 .. n PROVE f[k] = step[<<f[k - 1], k>>]
  <2>1. k \in 0 .. n /\ k - 1 \in 0 .. n
    BY <1>0
  <2>2. f[k] = iter[1 .. k] /\ f[k - 1] = iter[1 .. k - 1]
    BY <2>1
  <2>3. iter[1 .. k - 1] \in A
    BY <1>4, <2>1
  <2>. HIDE DEF f
  <2>. QED
    BY <1>1, <2>2, <2>3
<1>. HIDE DEF f
<1>. QED
  BY <1>5, <1>6, <1>7 DEF StepsBy

==============================================================================
