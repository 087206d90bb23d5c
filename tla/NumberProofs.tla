---------------------------- MODULE NumberProofs ----------------------------
(***************************************************************************)
(* Numbers, in the forms that the proofs about counting, sorting, folding  *)
(* and adding cite.  No set of numbers goes down for ever (Least, from the *)
(* well-foundedness of strict inclusion among finite sets); what holds of  *)
(* 0 and goes on from each number to the next therefore holds of all       *)
(* (Climbing).  Flattening sequences goes on in this way.                   *)
(***************************************************************************)
EXTENDS Orders, FiniteSetTheorems, SequenceTheorems, TLAPS

(* A set of numbers has a least one. *)
LEMMA Least ==
    ASSUME NEW T \in SUBSET Nat, T # {}
    PROVE  \E n \in T : \A m \in T : n <= m
  <1> DEFINE U == {0..n : n \in T}
  <1>1. U \subseteq FiniteSubsetsOf(Nat) /\ U # {}
    <2>1. ASSUME NEW n \in T
          PROVE  0..n \in FiniteSubsetsOf(Nat)
      BY FS_Interval DEF FiniteSubsetsOf
    <2> QED
      BY <2>1
  <1> HIDE DEF U
  <1>2. PICK V \in U : \A W \in U : ~(<<W, V>> \in StrictSubsetOrdering(Nat))
    BY <1>1, FS_StrictSubsetOrderingWellFounded, WFMin
  <1>3. PICK n \in T : V = 0..n
    BY DEF U
  <1>4. ASSUME NEW m \in T, m < n
        PROVE  FALSE
    <2>1. 0..m \in U
      BY DEF U
    <2>2. 0..m \subseteq 0..n /\ 0..m # 0..n
      <3>1. n \in 0..n /\ n \notin 0..m
        BY <1>4
      <3>2. 0..m \subseteq 0..n
        BY <1>4
      <3> QED
        BY <3>1, <3>2
    <2>3. <<0..m, V>> \in StrictSubsetOrdering(Nat)
      BY <1>3, <2>2 DEF StrictSubsetOrdering
    <2> QED
      BY <1>2, <2>1, <2>3
  <1> QED
    BY <1>4

(* Minima and maxima. *)
LEMMA MinIs ==
    ASSUME NEW T \in SUBSET Nat, T # {}
    PROVE  Min(T) \in T /\ \A m \in T : Min(T) <= m
  <1>1. \E n \in T : \A m \in T : n <= m
    BY Least
  <1> QED
    BY <1>1 DEF Min

(* What holds of 0 and goes on from each number to the next. *)
LEMMA Climbing ==
    ASSUME NEW T, 0 \in T, \A m \in Nat : m \in T => m + 1 \in T
    PROVE  \A n \in Nat : n \in T
  <1> DEFINE U == {n \in Nat : n \notin T}
  <1> SUFFICES ASSUME U # {} PROVE FALSE
    OBVIOUS
  <1>1. PICK n \in U : \A m \in U : n <= m
    BY Least
  <1>2. n - 1 \in Nat /\ n = (n - 1) + 1
    BY <1>1
  <1>3. n - 1 \in T
    BY <1>1, <1>2
  <1> QED
    BY <1>1, <1>2, <1>3

(* A function on 0..n is made by stepping from a value: f[k] goes to k.      *)
Stepping(V, n, a, f, h) ==
    /\ DOMAIN h = 0..n /\ h = [k \in DOMAIN h |-> h[k]]
    /\ h[0] = a
    /\ \A k \in 0..n : h[k] \in V
    /\ \A k \in 1..n : h[k] = f[k][h[k - 1]]

LEMMA SteppingExists ==
    ASSUME NEW V, NEW a \in V, NEW n \in Nat, NEW f,
           \A k \in 1..n : \A v \in V : f[k][v] \in V
    PROVE  \E h : Stepping(V, n, a, f, h)
  <1> DEFINE T == {m \in Nat : m <= n => \E h : Stepping(V, m, a, f, h)}
  <1>1. 0 \in T
    <2> DEFINE h == [k \in 0..0 |-> a]
    <2>1. /\ DOMAIN h = 0..0 /\ h = [k \in DOMAIN h |-> h[k]]
          /\ \A k \in 0..0 : h[k] = a
          /\ 0 \in 0..0
      OBVIOUS
    <2> HIDE DEF h
    <2>2. Stepping(V, 0, a, f, h)
      BY <2>1 DEF Stepping
    <2> QED
      BY <2>2
  <1>2. ASSUME NEW m \in Nat, m + 1 <= n, NEW h, Stepping(V, m, a, f, h)
        PROVE  \E g : Stepping(V, m + 1, a, f, g)
    <2> DEFINE g == [k \in 0..m + 1 |-> IF k <= m THEN h[k] ELSE f[m + 1][h[m]]]
    <2>1. /\ DOMAIN g = 0..m + 1 /\ g = [k \in DOMAIN g |-> g[k]]
          /\ \A k \in 0..m : g[k] = h[k]
          /\ g[m + 1] = f[m + 1][h[m]]
      OBVIOUS
    <2> HIDE DEF g
    <2>2. m \in 0..m /\ 0 \in 0..m /\ m + 1 \in 1..n
      BY <1>2
    <2>3. h[m] \in V /\ g[m + 1] \in V
      BY <1>2, <2>1, <2>2 DEF Stepping
    <2>4. \A k \in 0..m + 1 : k \in 0..m \/ k = m + 1
      OBVIOUS
    <2>5. \A k \in 0..m + 1 : g[k] \in V
      BY <1>2, <2>1, <2>3, <2>4 DEF Stepping
    <2>6. ASSUME NEW k \in 1..m + 1
          PROVE  g[k] = f[k][g[k - 1]]
      <3>1. CASE k = m + 1
        <4>1. k - 1 = m
          BY <3>1
        <4> QED
          BY <2>1, <2>2, <3>1, <4>1
      <3>2. CASE k # m + 1
        <4>1. k \in 1..m /\ k \in 0..m /\ k - 1 \in 0..m
          BY <3>2
        <4> QED
          BY <1>2, <2>1, <4>1 DEF Stepping
      <3> QED
        BY <3>1, <3>2
    <2>7. g[0] = a
      BY <1>2, <2>1, <2>2 DEF Stepping
    <2>8. Stepping(V, m + 1, a, f, g)
      BY <2>1, <2>5, <2>6, <2>7 DEF Stepping
    <2> QED
      BY <2>8
  <1>3. \A m \in Nat : m \in T => m + 1 \in T
    <2>1. \A m \in Nat : m + 1 <= n => m <= n
      OBVIOUS
    <2> QED
      BY <1>2, <2>1
  <1>4. n \in T
    <2> HIDE DEF T
    <2> QED
      BY <1>1, <1>3, Climbing
  <1> QED
    BY <1>4

(* Among finitely many numbers there is a greatest. *)
LEMMA Greatest ==
    ASSUME NEW n \in Nat, NEW f, \A i \in 1..n : f[i] \in Int, n # 0
    PROVE  \E i \in 1..n : \A j \in 1..n : f[j] <= f[i]
  <1> DEFINE T == {m \in Nat : m \in 1..n => \E i \in 1..m : \A j \in 1..m : f[j] <= f[i]}
  <1>1. 0 \in T
    OBVIOUS
  <1>2. ASSUME NEW m \in Nat, m \in T, m + 1 \in 1..n
        PROVE  \E i \in 1..m + 1 : \A j \in 1..m + 1 : f[j] <= f[i]
    <2>1. m + 1 \in 1..m + 1 /\ \A j \in 1..m + 1 : j = m + 1 \/ j \in 1..m
      OBVIOUS
    <2>2. f[m + 1] \in Int
      BY <1>2
    <2>3. CASE m = 0
      BY <2>1, <2>2, <2>3
    <2>4. CASE m # 0
      <3>1. PICK i \in 1..m : \A j \in 1..m : f[j] <= f[i]
        <4>1. m \in 1..n
          BY <1>2, <2>4
        <4> QED
          BY <1>2, <4>1
      <3>2. f[i] \in Int /\ i \in 1..m + 1 /\ \A j \in 1..m : f[j] \in Int
        BY <1>2
      <3>3. CASE f[m + 1] <= f[i]
        BY <2>1, <3>1, <3>2, <3>3
      <3>4. CASE f[i] < f[m + 1]
        <4>1. \A j \in 1..m + 1 : f[j] <= f[m + 1]
          BY <2>1, <2>2, <3>1, <3>2, <3>4
        <4> QED
          BY <2>1, <4>1
      <3> QED
        BY <2>2, <3>2, <3>3, <3>4
    <2> QED
      BY <2>3, <2>4
  <1>3. \A m \in Nat : m \in T => m + 1 \in T
    BY <1>2
  <1>4. n \in T
    <2> HIDE DEF T
    <2> QED
      BY <1>1, <1>3, Climbing
  <1>5. n \in 1..n
    OBVIOUS
  <1> QED
    BY <1>4, <1>5

LEMMA MaxIs ==
    ASSUME NEW S, S \subseteq Int, IsFiniteSet(S), S # {}
    PROVE  Max(S) \in S /\ \A x \in S : Max(S) >= x
  <1>1. PICK n \in Nat : ExistsSurjection(1..n, S)
    BY FS_NatSurjection
  <1>2. PICK f : f \in [1..n -> S] /\ \A x \in S : \E i \in 1..n : f[i] = x
    BY <1>1 DEF ExistsSurjection, Surjection
  <1>3. n # 0 /\ \A i \in 1..n : f[i] \in Int
    <2>1. \A i \in 1..n : f[i] \in S
      BY <1>2
    <2>2. \A x \in S : x \in Int
      OBVIOUS
    <2>3. PICK i \in 1..n : TRUE
      BY <1>2
    <2>4. n # 0
      BY <2>3
    <2> QED
      BY <2>1, <2>2, <2>4
  <1>4. PICK g \in 1..n : \A j \in 1..n : f[j] <= f[g]
    BY <1>3, Greatest
  <1>5. \E x \in S : \A y \in S : x >= y
    BY <1>2, <1>3, <1>4
  <1> QED
    BY <1>5 DEF Max

LEMMA MaxOfTwo ==
    ASSUME NEW a \in Int, NEW b \in Int
    PROVE  Max({a, b}) = IF a >= b THEN a ELSE b
  <1>1. \E x \in {a, b} : \A y \in {a, b} : x >= y
    OBVIOUS
  <1> QED
    BY <1>1 DEF Max

LEMMA MaxWithOne ==
    ASSUME NEW a \in Int, NEW b \in Int
    PROVE  Max({a, b, 1}) \in Int /\ a <= Max({a, b, 1}) /\ b <= Max({a, b, 1}) /\ 1 <= Max({a, b, 1})
  <1>1. \E x \in {a, b, 1} : \A y \in {a, b, 1} : x >= y
    OBVIOUS
  <1> QED
    BY <1>1 DEF Max

LEMMA MinOfTwo ==
    ASSUME NEW a \in Int, NEW b \in Int
    PROVE  Min({a, b}) = IF a <= b THEN a ELSE b
  <1>1. \E x \in {a, b} : \A y \in {a, b} : x <= y
    OBVIOUS
  <1> QED
    BY <1>1 DEF Min

(* A function on 1..n is a sequence of length n. *)
LEMMA FunctionIsSeq ==
    ASSUME NEW S, NEW n \in Nat, NEW f \in [1..n -> S]
    PROVE  f \in Seq(S) /\ Len(f) = n /\ DOMAIN f = 1..n
  <1>1. f \in Seq(S) /\ DOMAIN f = 1..n
    BY SeqDef
  <1>2. Len(f) \in Nat /\ DOMAIN f = 1..Len(f)
    BY <1>1, LenProperties
  <1>3. 1..Len(f) = 1..n
    BY <1>1, <1>2
  <1>4. Len(f) = n
    <2>1. CASE Len(f) < n
      <3>1. n \in 1..n /\ n \notin 1..Len(f)
        BY <1>2, <2>1
      <3> QED
        BY <1>3, <3>1
    <2>2. CASE n < Len(f)
      <3>1. Len(f) \in 1..Len(f) /\ Len(f) \notin 1..n
        BY <1>2, <2>2
      <3> QED
        BY <1>3, <3>1
    <2> QED
      BY <1>2, <2>1, <2>2
  <1> QED
    BY <1>1, <1>4

(* Sequences put one behind the other: flat[i] is what the first i of them  *)
(* make.                                                                    *)
Flattening(seqs, flat) ==
    \A i \in 1..Len(seqs) : flat[i] = IF i = 1 THEN seqs[i] ELSE flat[i - 1] \o seqs[i]

LEMMA FlattenUnfolds ==
    ASSUME NEW S, NEW seqs \in Seq(Seq(S)), seqs # << >>
    PROVE  /\ Len(seqs) \in Nat \ {0} /\ \A i \in 1..Len(seqs) : seqs[i] \in Seq(S)
           /\ \E flat : Flattening(seqs, flat) /\ FlattenSeq(seqs) = flat[Len(seqs)]
  <1> DEFINE n == Len(seqs)
             flat(f, m) == [i \in 1..m |-> IF i = 1 THEN seqs[i] ELSE f[i - 1] \o seqs[i]]
             T == {m \in Nat : \E f : f = flat(f, m)}
  <1>1. n \in Nat /\ \A i \in 1..n : seqs[i] \in Seq(S)
    BY LenProperties, ElementOfSeq
  <1>2. 0 \in T
    <2>1. << >> = flat(<< >>, 0)
      OBVIOUS
    <2> HIDE DEF flat
    <2> QED
      BY <2>1
  <1>3. ASSUME NEW m \in Nat, NEW f, f = flat(f, m)
        PROVE  \E g : g = flat(g, m + 1)
    <2> DEFINE g == [i \in 1..m + 1 |-> IF i = 1 THEN seqs[i] ELSE f[i - 1] \o seqs[i]]
    <2>1. \A i \in 1..m : g[i] = f[i]
      <3>1. \A i \in 1..m : f[i] = IF i = 1 THEN seqs[i] ELSE f[i - 1] \o seqs[i]
        BY <1>3, Zenon
      <3>2. \A i \in 1..m : i \in 1..m + 1
        OBVIOUS
      <3>3. \A i \in 1..m + 1 : g[i] = IF i = 1 THEN seqs[i] ELSE f[i - 1] \o seqs[i]
        BY Zenon
      <3> HIDE DEF g
      <3> QED
        BY <3>1, <3>2, <3>3
    <2>2. \A i \in 1..m + 1 : i # 1 => f[i - 1] = g[i - 1]
      <3>1. \A i \in 1..m + 1 : i # 1 => i - 1 \in 1..m
        OBVIOUS
      <3> HIDE DEF g
      <3> QED
        BY <2>1, <3>1
    <2>3. g = flat(g, m + 1)
      BY <2>2
    <2> HIDE DEF g, flat
    <2> QED
      BY <2>3
  <1>4. n \in T
    <2>1. \A m \in Nat : m \in T => m + 1 \in T
      <3> HIDE DEF flat
      <3> QED
        BY <1>3
    <2> HIDE DEF T, n
    <2> QED
      BY <1>1, <1>2, <2>1, Climbing
  <1> DEFINE F == CHOOSE f : f = flat(f, n)
  <1>5. F = flat(F, n)
    <2> HIDE DEF flat, n
    <2> QED
      BY <1>4
  <1>6. FlattenSeq(seqs) = IF n = 0 THEN seqs ELSE F[n]
    BY DEF FlattenSeq
  <1> HIDE DEF F, T
  <1>7. Flattening(seqs, F)
    <2>1. \A i \in 1..n : F[i] = IF i = 1 THEN seqs[i] ELSE F[i - 1] \o seqs[i]
      BY <1>5, Zenon
    <2> QED
      BY <2>1 DEF Flattening
  <1>8. n # 0
    BY <1>1, EmptySeq
  <1> QED
    BY <1>1, <1>6, <1>7, <1>8

(* What flat stays true of, to the last of the sequences. *)
LEMMA FlattenKeeps ==
    ASSUME NEW S, NEW seqs \in Seq(Seq(S)), seqs # << >>, NEW flat, Flattening(seqs, flat),
           NEW K, seqs[1] \in K,
           \A i \in 2..Len(seqs) : \A s \in K : s \o seqs[i] \in K
    PROVE  flat[Len(seqs)] \in K
  <1> DEFINE n == Len(seqs)
             U == {m \in Nat : m \in 1..n => flat[m] \in K}
  <1>1. n \in Nat \ {0}
    BY FlattenUnfolds
  <1>2. ASSUME NEW m \in Nat, m \in U, m + 1 \in 1..n
        PROVE  flat[m + 1] \in K
    <2>1. flat[m + 1] = IF m + 1 = 1 THEN seqs[m + 1] ELSE flat[m] \o seqs[m + 1]
      <3>1. (m + 1) - 1 = m
        OBVIOUS
      <3> QED
        BY <1>2, <3>1 DEF Flattening
    <2>2. CASE m = 0
      <3>1. m + 1 = 1
        BY <2>2
      <3> QED
        BY <2>1, <3>1
    <2>3. CASE m # 0
      <3>1. m \in 1..n /\ m + 1 \in 2..n /\ m + 1 # 1
        BY <1>1, <1>2, <2>3
      <3>2. flat[m] \in K
        BY <1>2, <3>1
      <3> HIDE DEF n
      <3>3. flat[m] \o seqs[m + 1] \in K
        BY <3>1, <3>2 DEF n
      <3> QED
        BY <2>1, <3>1, <3>3
    <2> QED
      BY <2>2, <2>3
  <1>3. \A m \in Nat : m \in U => m + 1 \in U
    <2>1. \A m \in Nat : m + 1 \in Nat
      OBVIOUS
    <2> HIDE DEF n
    <2> QED
      BY <1>2, <2>1, Zenon
  <1>4. n \in U
    <2>1. 0 \in U
      OBVIOUS
    <2> HIDE DEF U, n
    <2> QED
      BY <1>1, <1>3, <2>1, Climbing
  <1> QED
    BY <1>1, <1>4

(* Of sequences over S they make a sequence over S. *)
LEMMA FlattenIs ==
    ASSUME NEW S, NEW seqs \in Seq(Seq(S))
    PROVE  FlattenSeq(seqs) \in Seq(S)
  <1>1. CASE seqs = << >>
    <2>1. FlattenSeq(seqs) = seqs
      BY <1>1, EmptySeq DEF FlattenSeq
    <2>2. << >> \in Seq(S)
      BY EmptySeq
    <2> QED
      BY <1>1, <2>1, <2>2
  <1>2. CASE seqs # << >>
    <2>1. PICK flat : Flattening(seqs, flat) /\ FlattenSeq(seqs) = flat[Len(seqs)]
      BY <1>2, FlattenUnfolds
    <2>2. Len(seqs) \in Nat \ {0} /\ \A i \in 1..Len(seqs) : seqs[i] \in Seq(S)
      BY <1>2, FlattenUnfolds
    <2>3. \A i \in 2..Len(seqs) : \A s \in Seq(S) : s \o seqs[i] \in Seq(S)
      BY <2>2, ConcatProperties
    <2>4. seqs[1] \in Seq(S)
      BY <2>2
    <2> QED
      BY <1>2, <2>1, <2>3, <2>4, FlattenKeeps
  <1> QED
    BY <1>1, <1>2

(* Of sequences of one length, that length as often as there are of them. *)
LEMMA FlattenLength ==
    ASSUME NEW S, NEW seqs \in Seq(Seq(S)), NEW k \in Nat,
           \A i \in 1..Len(seqs) : Len(seqs[i]) = k
    PROVE  Len(FlattenSeq(seqs)) = Len(seqs) * k
  <1>1. CASE seqs = << >>
    <2>1. FlattenSeq(seqs) = seqs /\ Len(seqs) = 0
      BY <1>1, EmptySeq DEF FlattenSeq
    <2> QED
      BY <2>1
  <1>2. CASE seqs # << >>
    <2> DEFINE n == Len(seqs)
    <2>1. PICK flat : Flattening(seqs, flat) /\ FlattenSeq(seqs) = flat[n]
      BY <1>2, FlattenUnfolds
    <2> DEFINE U == {m \in Nat : m \in 1..n => flat[m] \in Seq(S) /\ Len(flat[m]) = m * k}
    <2>2. n \in Nat \ {0} /\ \A i \in 1..n : seqs[i] \in Seq(S) /\ Len(seqs[i]) = k
      BY <1>2, FlattenUnfolds
    <2> HIDE DEF n
    <2>3. ASSUME NEW m \in Nat, m \in U, m + 1 \in 1..n
          PROVE  flat[m + 1] \in Seq(S) /\ Len(flat[m + 1]) = (m + 1) * k
      <3>1. flat[m + 1] = IF m + 1 = 1 THEN seqs[m + 1] ELSE flat[m] \o seqs[m + 1]
        <4>1. (m + 1) - 1 = m
          OBVIOUS
        <4> QED
          BY <2>1, <2>3, <4>1 DEF Flattening, n
      <3>2. CASE m = 0
        <4>1. m + 1 = 1 /\ (m + 1) * k = k
          BY <3>2
        <4> QED
          BY <2>2, <2>3, <3>1, <4>1
      <3>3. CASE m # 0
        <4>1. m \in 1..n /\ m + 1 # 1
          BY <2>2, <2>3, <3>3
        <4>2. flat[m] \in Seq(S) /\ Len(flat[m]) = m * k
          BY <2>3, <4>1
        <4>3. /\ flat[m] \o seqs[m + 1] \in Seq(S)
              /\ Len(flat[m] \o seqs[m + 1]) = m * k + k
          <5>1. seqs[m + 1] \in Seq(S) /\ Len(seqs[m + 1]) = k
            BY <2>2, <2>3
          <5>2. /\ flat[m] \o seqs[m + 1] \in Seq(S)
                /\ Len(flat[m] \o seqs[m + 1]) = Len(flat[m]) + Len(seqs[m + 1])
            BY <4>2, <5>1, ConcatProperties
          <5> QED
            BY <4>2, <5>1, <5>2
        <4>4. m * k + k = (m + 1) * k
          OBVIOUS
        <4> QED
          BY <3>1, <4>1, <4>3, <4>4
      <3> QED
        BY <3>2, <3>3
    <2>4. \A m \in Nat : m \in U => m + 1 \in U
      <3>1. \A m \in Nat : m + 1 \in Nat
        OBVIOUS
      <3> QED
        BY <2>3, <3>1, Zenon
    <2>5. n \in U
      <3>1. 0 \in U
        OBVIOUS
      <3> HIDE DEF U
      <3> QED
        BY <2>2, <2>4, <3>1, Climbing
    <2> QED
      BY <2>1, <2>2, <2>5 DEF n
  <1> QED
    BY <1>1, <1>2

(* Where all but the first are empty they make the first. *)
LEMMA FlattenFirst ==
    ASSUME NEW S, NEW seqs \in Seq(Seq(S)), seqs # << >>,
           \A i \in DOMAIN seqs : i # 1 => seqs[i] = << >>
    PROVE  FlattenSeq(seqs) = seqs[1]
  <1>1. PICK flat : Flattening(seqs, flat) /\ FlattenSeq(seqs) = flat[Len(seqs)]
    BY FlattenUnfolds
  <1>2. Len(seqs) \in Nat \ {0} /\ \A i \in 1..Len(seqs) : seqs[i] \in Seq(S)
    BY FlattenUnfolds
  <1>3. seqs[1] \in Seq(S) /\ seqs[1] \o << >> = seqs[1]
    BY <1>2, ConcatEmptySeq
  <1>4. \A i \in 2..Len(seqs) : \A s \in {seqs[1]} : s \o seqs[i] \in {seqs[1]}
    <2>1. \A i \in 2..Len(seqs) : i \in DOMAIN seqs /\ i # 1
      BY <1>2, LenProperties
    <2> QED
      BY <1>3, <2>1
  <1>5. flat[Len(seqs)] \in {seqs[1]}
    <2> DEFINE K == {seqs[1]}
    <2>1. seqs[1] \in K /\ \A i \in 2..Len(seqs) : \A s \in K : s \o seqs[i] \in K
      BY <1>4
    <2> HIDE DEF K
    <2>2. flat[Len(seqs)] \in K
      BY <1>1, <2>1, FlattenKeeps
    <2> QED
      BY <2>2 DEF K
  <1> QED
    BY <1>1, <1>5

-----------------------------------------------------------------------------
(* Orders and selections. *)
(* A strict total order of a finite set, by what is ahead of each member. *)
Enumerable(ahead) ==
    /\ IsFiniteSet(DOMAIN ahead)
    /\ \A i \in DOMAIN ahead : ahead[i] \subseteq DOMAIN ahead \ {i}
    /\ \A i, j \in DOMAIN ahead : j \in ahead[i] => ahead[j] \subseteq ahead[i]
    /\ \A i, j \in DOMAIN ahead : i # j => i \in ahead[j] \/ j \in ahead[i]

(* Ordered goes through the set, each member at the place that the number    *)
(* of those ahead of it gives.                                               *)
LEMMA OrderedEnumerates ==
    ASSUME NEW ahead, Enumerable(ahead)
    PROVE  /\ DOMAIN Ordered(ahead) = 1..Cardinality(DOMAIN ahead)
           /\ Cardinality(DOMAIN ahead) \in Nat
           /\ \A k \in DOMAIN Ordered(ahead) :
                 /\ Ordered(ahead)[k] \in DOMAIN ahead
                 /\ Cardinality(ahead[Ordered(ahead)[k]]) = k - 1
           /\ \A i \in DOMAIN ahead :
                 /\ Cardinality(ahead[i]) + 1 \in DOMAIN Ordered(ahead)
                 /\ Ordered(ahead)[Cardinality(ahead[i]) + 1] = i
  <1> DEFINE S == DOMAIN ahead
             n == Cardinality(S)
             place == [i \in S |-> Cardinality(ahead[i])]
  <1>1. IsFiniteSet(S) /\ n \in Nat
    BY FS_CardinalityType DEF Enumerable
  <1>2. ASSUME NEW i \in S
        PROVE  IsFiniteSet(ahead[i]) /\ Cardinality(ahead[i]) \in 0..n - 1
    <2>1. ahead[i] \in SUBSET S /\ ahead[i] # S
      BY DEF Enumerable
    <2>2. /\ IsFiniteSet(ahead[i])
          /\ Cardinality(ahead[i]) <= n
          /\ n # Cardinality(ahead[i])
      BY <1>1, <2>1, FS_Subset
    <2>3. Cardinality(ahead[i]) \in Nat
      BY <2>2, FS_CardinalityType
    <2> QED
      BY <1>1, <2>2, <2>3
  <1>3. ASSUME NEW i \in S, NEW j \in S, j \in ahead[i]
        PROVE  Cardinality(ahead[j]) # Cardinality(ahead[i])
    <2>1. ahead[j] \in SUBSET ahead[i] /\ ahead[j] # ahead[i]
      BY <1>3 DEF Enumerable
    <2> QED
      BY <1>2, <2>1, FS_Subset
  <1>4. \A i, j \in S : Cardinality(ahead[i]) = Cardinality(ahead[j]) => i = j
    BY <1>3 DEF Enumerable
  <1>5. place \in Injection(S, 0..n - 1)
    BY <1>2, <1>4 DEF Injection, IsInjective
  <1>6. IsFiniteSet(0..n - 1) /\ Cardinality(0..n - 1) = n
    <2>1. /\ IsFiniteSet(0..n - 1)
          /\ Cardinality(0..n - 1) = IF 0 > n - 1 THEN 0 ELSE n - 1 - 0 + 1
      BY <1>1, FS_Interval
    <2> QED
      BY <1>1, <2>1
  <1>7. place \in Surjection(S, 0..n - 1)
    BY <1>5, <1>6, FS_Injection
  <1>8. \A m \in 0..n - 1 : \E i \in S : Cardinality(ahead[i]) = m
    BY <1>7 DEF Surjection
  <1>9. DOMAIN Ordered(ahead) = 1..n
    BY DEF Ordered
  <1>10. ASSUME NEW k \in 1..n
         PROVE  Ordered(ahead)[k] \in S /\ Cardinality(ahead[Ordered(ahead)[k]]) = k - 1
    <2>1. Ordered(ahead)[k] = CHOOSE i \in S : Cardinality(ahead[i]) = k - 1
      BY <1>10 DEF Ordered
    <2>2. \E i \in S : Cardinality(ahead[i]) = k - 1
      BY <1>1, <1>8
    <2> QED
      BY <2>1, <2>2
  <1>11. ASSUME NEW i \in S
         PROVE  /\ Cardinality(ahead[i]) + 1 \in 1..n
                /\ Ordered(ahead)[Cardinality(ahead[i]) + 1] = i
    <2> DEFINE k == Cardinality(ahead[i]) + 1
    <2>1. k \in 1..n /\ k - 1 = Cardinality(ahead[i])
      BY <1>1, <1>2
    <2>2. Ordered(ahead)[k] \in S /\ Cardinality(ahead[Ordered(ahead)[k]]) = Cardinality(ahead[i])
      BY <1>10, <2>1
    <2> QED
      BY <1>4, <2>1, <2>2
  <1> QED
    BY <1>1, <1>9, <1>10, <1>11

RowsAt(rows, positions) == {rows[i] : i \in positions}

(* What is selected is what there is at the positions, nothing else. *)
LEMMA PickedIs ==
    ASSUME NEW S, NEW rows, NEW P, IsFiniteSet(P), P \subseteq Int,
           \A i \in P : rows[i] \in S
    PROVE  /\ Picked(rows, P) \in Seq(S)
           /\ Len(Picked(rows, P)) = Cardinality(P)
           /\ ToSet(Picked(rows, P)) = RowsAt(rows, P)
  <1> DEFINE ahead == [i \in P |-> {j \in P : j < i}]
             order == Ordered(ahead)
  <1>1. Enumerable(ahead)
    <2>1. DOMAIN ahead = P /\ \A i \in P : ahead[i] = {j \in P : j < i}
      OBVIOUS
    <2> HIDE DEF ahead
    <2>2. \A i \in P : i \in Int
      OBVIOUS
    <2>3. \A i \in P : ahead[i] \subseteq P \ {i}
      BY <2>1, <2>2
    <2>4. ASSUME NEW i \in P, NEW j \in P, j \in ahead[i]
          PROVE  ahead[j] \subseteq ahead[i]
      <3>1. ASSUME NEW x \in P, x < j
            PROVE  x < i
        BY <2>1, <2>2, <2>4, <3>1
      <3> QED
        BY <2>1, <3>1
    <2>5. \A i, j \in P : i # j => i \in ahead[j] \/ j \in ahead[i]
      BY <2>1, <2>2
    <2> QED
      BY <2>1, <2>3, <2>4, <2>5, Zenon DEF Enumerable
  <1>2. DOMAIN ahead = P
    OBVIOUS
  <1> HIDE DEF ahead
  <1>3. /\ DOMAIN order = 1..Cardinality(P) /\ Cardinality(P) \in Nat
        /\ \A k \in DOMAIN order : order[k] \in P
        /\ \A i \in P : \E k \in DOMAIN order : order[k] = i
    BY <1>1, <1>2, OrderedEnumerates
  <1>4. Picked(rows, P) = [k \in DOMAIN order |-> rows[order[k]]]
    BY DEF Picked, ahead
  <1> HIDE DEF order
  <1>5. Picked(rows, P) \in [1..Cardinality(P) -> S]
    BY <1>3, <1>4
  <1>6. /\ Picked(rows, P) \in Seq(S)
        /\ Len(Picked(rows, P)) = Cardinality(P)
        /\ DOMAIN Picked(rows, P) = 1..Cardinality(P)
    BY <1>3, <1>5, FunctionIsSeq
  <1>7. \A k \in DOMAIN order : Picked(rows, P)[k] = rows[order[k]]
    BY <1>4
  <1>8. ASSUME NEW k \in DOMAIN order
        PROVE  Picked(rows, P)[k] \in {rows[i] : i \in P}
    BY <1>3, <1>7
  <1>9. ASSUME NEW i \in P
        PROVE  \E k \in DOMAIN order : Picked(rows, P)[k] = rows[i]
    <2>1. PICK k \in DOMAIN order : order[k] = i
      BY <1>3
    <2> QED
      BY <1>7, <2>1
  <1>10. DOMAIN Picked(rows, P) = DOMAIN order
    BY <1>4
  <1>11. ToSet(Picked(rows, P)) = RowsAt(rows, P)
    BY <1>8, <1>9, <1>10 DEF ToSet, RowsAt
  <1> QED
    BY <1>6, <1>11

-----------------------------------------------------------------------------
(* Sums.  Summing(f, h): h is the sum of f over every subset of its domain, *)
(* one element taken away at a time.                                        *)
Some(s) == CHOOSE x \in s : TRUE

Summing(f, h) ==
    h = [s \in SUBSET DOMAIN f |-> IF s = {} THEN 0 ELSE f[Some(s)] + h[s \ {Some(s)}]]

LEMMA SumUnfolds ==
    ASSUME NEW f, IsFiniteSet(DOMAIN f)
    PROVE  \E h : Summing(f, h) /\ SumOf(f) = h[DOMAIN f]
  <1> DEFINE S == DOMAIN f
             D(k) == {s \in SUBSET S : Cardinality(s) <= k}
             Sum(h, k) == [s \in D(k) |-> IF s = {} THEN 0 ELSE f[Some(s)] + h[s \ {Some(s)}]]
             T == {k \in Nat : \E h : h = Sum(h, k)}
  <1>1. \A s \in SUBSET S : /\ IsFiniteSet(s) /\ Cardinality(s) \in Nat
                            /\ Cardinality(s) <= Cardinality(S)
                            /\ s = {} <=> Cardinality(s) = 0
    BY FS_Subset, FS_CardinalityType, FS_EmptySet
  <1>2. \A s \in SUBSET S : s # {} =>
           /\ Some(s) \in s
           /\ s \ {Some(s)} \in SUBSET S
           /\ Cardinality(s \ {Some(s)}) = Cardinality(s) - 1
    <2> SUFFICES ASSUME NEW s \in SUBSET S, s # {}
                 PROVE  /\ Some(s) \in s
                        /\ s \ {Some(s)} \in SUBSET S
                        /\ Cardinality(s \ {Some(s)}) = Cardinality(s) - 1
      OBVIOUS
    <2>1. Some(s) \in s
      BY DEF Some
    <2> QED
      BY <1>1, <2>1, FS_RemoveElement
  <1>3. 0 \in T
    <2> DEFINE h == [s \in D(0) |-> 0]
    <2>1. \A s \in D(0) : s = {}
      BY <1>1
    <2>2. h = Sum(h, 0)
      BY <2>1, Zenon
    <2> HIDE DEF h, Sum
    <2> QED
      BY <2>2
  <1>4. ASSUME NEW k \in Nat, NEW h, h = Sum(h, k)
        PROVE  \E g : g = Sum(g, k + 1)
    <2> DEFINE g == [s \in D(k + 1) |-> IF s \in D(k) THEN h[s]
                                        ELSE f[Some(s)] + h[s \ {Some(s)}]]
    <2>1. \A s \in D(k) : s \in D(k + 1) /\ g[s] = h[s]
      BY <1>1
    <2>2. \A s \in D(k + 1) : s # {} => s \ {Some(s)} \in D(k)
      BY <1>1, <1>2
    <2>3. \A s \in D(k) : h[s] = IF s = {} THEN 0 ELSE f[Some(s)] + h[s \ {Some(s)}]
      <3> HIDE DEF D
      <3> QED
        BY <1>4, Zenon
    <2>4. {} \in D(k)
      <3>1. {} \in SUBSET S /\ Cardinality({}) = 0
        BY <1>1
      <3> QED
        BY <3>1
    <2>5. ASSUME NEW s \in D(k + 1)
          PROVE  g[s] = IF s = {} THEN 0 ELSE f[Some(s)] + g[s \ {Some(s)}]
      <3>1. s # {} => g[s \ {Some(s)}] = h[s \ {Some(s)}]
        BY <2>1, <2>2
      <3>2. g[s] = IF s \in D(k) THEN h[s] ELSE f[Some(s)] + h[s \ {Some(s)}]
        BY Zenon
      <3> HIDE DEF g, D
      <3>3. CASE s \in D(k)
        BY <2>3, <3>1, <3>2, <3>3, Zenon
      <3>4. CASE s \notin D(k)
        BY <2>4, <3>1, <3>2, <3>4, Zenon
      <3> QED
        BY <3>3, <3>4
    <2>6. g = [s \in D(k + 1) |-> g[s]]
      BY Zenon
    <2> HIDE DEF g, D
    <2>7. g = [s \in D(k + 1) |-> IF s = {} THEN 0 ELSE f[Some(s)] + g[s \ {Some(s)}]]
      BY <2>5, <2>6, Zenon
    <2> QED
      BY <2>7
  <1>5. \A k \in Nat : k \in T => k + 1 \in T
    <2> HIDE DEF Sum
    <2> QED
      BY <1>4
  <1>6. Cardinality(S) \in Nat /\ D(Cardinality(S)) = SUBSET S
    <2>1. S \in SUBSET S
      OBVIOUS
    <2>2. \A s \in SUBSET S : Cardinality(s) <= Cardinality(S)
      BY <1>1
    <2> QED
      BY <1>1, <2>1, <2>2
  <1>7. PICK h : h = Sum(h, Cardinality(S))
    <2> HIDE DEF T
    <2>1. Cardinality(S) \in T
      BY <1>3, <1>5, <1>6, Climbing
    <2> QED
      BY <2>1 DEF T
  <1>8. Summing(f, h)
    <2> HIDE DEF D
    <2> QED
      BY <1>6, <1>7 DEF Summing
  <1> DEFINE H == CHOOSE g : Summing(f, g)
  <1>9. SumOf(f) = H[S]
    BY Zenon DEF SumOf, MapThenSumSet, MapThenFoldSet, Summing, Some
  <1>10. Summing(f, H)
    BY <1>8
  <1> QED
    BY <1>9, <1>10

(* What holds of the empty set and of every other set that it holds of      *)
(* without any one member holds of all subsets of a finite set.             *)
LEMMA Growing ==
    ASSUME NEW S, IsFiniteSet(S), NEW T, {} \in T,
           \A U \in SUBSET S : U # {} /\ (\A x \in U : U \ {x} \in T) => U \in T
    PROVE  \A U \in SUBSET S : U \in T
  <1> DEFINE N == {k \in Nat : \A U \in SUBSET S : Cardinality(U) = k => U \in T}
  <1>1. \A U \in SUBSET S : /\ IsFiniteSet(U) /\ Cardinality(U) \in Nat
                            /\ U = {} <=> Cardinality(U) = 0
    BY FS_Subset, FS_CardinalityType, FS_EmptySet
  <1>2. 0 \in N
    BY <1>1
  <1>3. ASSUME NEW k \in Nat, k \in N, NEW U \in SUBSET S, Cardinality(U) = k + 1
        PROVE  U \in T
    <2>1. IsFiniteSet(U) /\ U # {}
      <3>1. k + 1 # 0
        OBVIOUS
      <3> QED
        BY <1>1, <1>3, <3>1
    <2>2. ASSUME NEW x \in U
          PROVE  U \ {x} \in T
      <3>1. U \ {x} \in SUBSET S
        OBVIOUS
      <3>2. Cardinality(U \ {x}) = Cardinality(U) - 1
        <4> HIDE DEF N
        <4> QED
          BY <2>1, FS_RemoveElement
      <3>3. Cardinality(U \ {x}) = k
        BY <1>3, <3>2
      <3> QED
        BY <1>3, <3>1, <3>3
    <2> QED
      BY <2>1, <2>2
  <1>4. \A k \in Nat : k \in N => k + 1 \in N
    BY <1>3
  <1>5. \A k \in Nat : k \in N
    <2> HIDE DEF N
    <2> QED
      BY <1>2, <1>4, Climbing
  <1> QED
    BY <1>1, <1>5

Adding(S, f, h) ==
    /\ h[{}] = 0
    /\ \A U \in SUBSET S : U # {} =>
          Some(U) \in U /\ h[U] = f[Some(U)] + h[U \ {Some(U)}]

LEMMA SummingIs ==
    ASSUME NEW S, NEW f, DOMAIN f = S, NEW h, Summing(f, h)
    PROVE  Adding(S, f, h)
  <1>1. \A U \in SUBSET S :
           h[U] = IF U = {} THEN 0 ELSE f[Some(U)] + h[U \ {Some(U)}]
    BY Zenon DEF Summing
  <1>2. \A U : U # {} => Some(U) \in U
    BY DEF Some
  <1>3. {} \in SUBSET S
    OBVIOUS
  <1> QED
    BY <1>1, <1>2, <1>3, Zenon DEF Adding

(* A sum of integers is an integer, of natural numbers a natural number;    *)
(* and a sum whose terms are bounded by multiples of another's is bounded   *)
(* by that multiple.                                                        *)
LEMMA AddingIs ==
    ASSUME NEW S, IsFiniteSet(S), NEW f, NEW R \in {Int, Nat}, \A x \in S : f[x] \in R,
           NEW h, Adding(S, f, h)
    PROVE  \A U \in SUBSET S : h[U] \in R
  <1> DEFINE T == {U \in SUBSET S : h[U] \in R}
  <1>1. /\ h[{}] = 0
        /\ \A U \in SUBSET S : U # {} =>
              Some(U) \in U /\ h[U] = f[Some(U)] + h[U \ {Some(U)}]
    BY DEF Adding
  <1>2. {} \in T
    BY <1>1
  <1>3. ASSUME NEW U \in SUBSET S, U # {}, \A x \in U : U \ {x} \in T
        PROVE  U \in T
    <2> DEFINE x == Some(U)
    <2>1. x \in U /\ h[U] = f[x] + h[U \ {x}]
      BY <1>1, <1>3
    <2> HIDE DEF x
    <2>2. h[U \ {x}] \in R /\ f[x] \in R
      BY <1>3, <2>1
    <2>3. f[x] + h[U \ {x}] \in R
      BY <2>2
    <2> QED
      BY <2>1, <2>3
  <1>4. \A U \in SUBSET S : U \in T
    <2> HIDE DEF T
    <2> QED
      BY <1>2, <1>3, Growing
  <1> QED
    BY <1>4

LEMMA SumIs ==
    ASSUME NEW f, IsFiniteSet(DOMAIN f), \A x \in DOMAIN f : f[x] \in Int
    PROVE  /\ SumOf(f) \in Int
           /\ (\A x \in DOMAIN f : f[x] \in Nat) => SumOf(f) \in Nat
           /\ DOMAIN f = {} => SumOf(f) = 0
           /\ \A x : DOMAIN f = {x} => SumOf(f) = f[x]
  <1> DEFINE S == DOMAIN f
  <1>1. PICK h : Summing(f, h) /\ SumOf(f) = h[S]
    BY SumUnfolds
  <1>2. Adding(S, f, h)
    BY <1>1, SummingIs
  <1>3. /\ h[{}] = 0
        /\ \A U \in SUBSET S : U # {} =>
              Some(U) \in U /\ h[U] = f[Some(U)] + h[U \ {Some(U)}]
    BY <1>2 DEF Adding
  <1>4. S \in SUBSET S
    OBVIOUS
  <1>5. SumOf(f) \in Int
    BY <1>1, <1>2, <1>4, AddingIs
  <1>6. (\A x \in S : f[x] \in Nat) => SumOf(f) \in Nat
    BY <1>1, <1>2, <1>4, AddingIs
  <1>7. S = {} => SumOf(f) = 0
    BY <1>1, <1>3
  <1>8. ASSUME NEW x, S = {x}
        PROVE  SumOf(f) = f[x]
    <2>1. S # {} /\ Some(S) \in S
      BY <1>3, <1>4, <1>8
    <2>2. Some(S) = x /\ S \ {x} = {}
      BY <1>8, <2>1
    <2>3. h[S] = f[x] + h[{}]
      BY <1>3, <1>4, <2>1, <2>2
    <2>4. f[x] \in Int
      BY <1>8
    <2> QED
      BY <1>1, <1>3, <2>3, <2>4
  <1> QED
    BY <1>5, <1>6, <1>7, <1>8

(* In whatever order the terms are added.                                   *)
LEMMA AddingCommutes ==
    ASSUME NEW S, IsFiniteSet(S), NEW f, \A x \in S : f[x] \in Int,
           NEW h, Adding(S, f, h), NEW U \in SUBSET S, NEW z \in U
    PROVE  h[U] = f[z] + h[U \ {z}]
  <1>1. /\ h[{}] = 0
        /\ \A V \in SUBSET S : V # {} =>
              Some(V) \in V /\ h[V] = f[Some(V)] + h[V \ {Some(V)}]
    BY DEF Adding
  <1>2. \A V \in SUBSET S : h[V] \in Int
    BY AddingIs
  <1> DEFINE T == {V \in SUBSET S : \A x \in V : h[V] = f[x] + h[V \ {x}]}
  <1>3. {} \in T
    OBVIOUS
  <1>4. ASSUME NEW V \in SUBSET S, V # {}, \A x \in V : V \ {x} \in T, NEW x \in V
        PROVE  h[V] = f[x] + h[V \ {x}]
    <2> DEFINE y == Some(V)
    <2>1. y \in V /\ h[V] = f[y] + h[V \ {y}]
      BY <1>1, <1>4
    <2> HIDE DEF y
    <2>2. CASE x = y
      BY <2>1, <2>2
    <2>3. CASE x # y
      <3> DEFINE W == (V \ {x}) \ {y}
      <3>1. x \in V \ {y} /\ y \in V \ {x} /\ (V \ {y}) \ {x} = W
        BY <2>1, <2>3
      <3>2. h[V \ {y}] = f[x] + h[W]
        BY <1>4, <2>1, <3>1
      <3>3. h[V \ {x}] = f[y] + h[W]
        BY <1>4, <3>1
      <3>4. h[W] \in Int /\ f[x] \in Int /\ f[y] \in Int
        BY <1>2, <2>1
      <3> HIDE DEF W
      <3> QED
        BY <2>1, <3>2, <3>3, <3>4
    <2> QED
      BY <2>2, <2>3
  <1>5. \A V \in SUBSET S : V \in T
    <2>1. \A V \in SUBSET S : V # {} /\ (\A x \in V : V \ {x} \in T) => V \in T
      BY <1>4
    <2> HIDE DEF T
    <2> QED
      BY <1>3, <2>1, Growing
  <1> QED
    BY <1>5

(* What is not added does not matter.                                       *)
LEMMA AddingAgrees ==
    ASSUME NEW S, IsFiniteSet(S), NEW R \in SUBSET S, NEW f, NEW g,
           \A x \in S : f[x] \in Int, \A x \in R : g[x] = f[x],
           NEW h, Adding(S, f, h), NEW i, Adding(R, g, i)
    PROVE  h[R] = i[R]
  <1>1. /\ h[{}] = 0
        /\ \A V \in SUBSET S : V # {} =>
              Some(V) \in V /\ h[V] = f[Some(V)] + h[V \ {Some(V)}]
    BY DEF Adding
  <1>2. /\ i[{}] = 0
        /\ \A V \in SUBSET R : V # {} =>
              Some(V) \in V /\ i[V] = g[Some(V)] + i[V \ {Some(V)}]
    BY DEF Adding
  <1> DEFINE T == {V \in SUBSET R : h[V] = i[V]}
  <1>3. {} \in T
    BY <1>1, <1>2
  <1>4. ASSUME NEW V \in SUBSET R, V # {}, \A x \in V : V \ {x} \in T
        PROVE  V \in T
    <2> DEFINE y == Some(V)
    <2>1. y \in V /\ h[V] = f[y] + h[V \ {y}] /\ i[V] = g[y] + i[V \ {y}]
      BY <1>1, <1>2, <1>4
    <2> HIDE DEF y
    <2> QED
      BY <1>4, <2>1
  <1>5. R \in SUBSET R /\ IsFiniteSet(R)
    BY FS_Subset
  <1>6. R \in T
    <2> HIDE DEF T
    <2> QED
      BY <1>3, <1>4, <1>5, Growing
  <1> QED
    BY <1>6

LEMMA SumWithout ==
    ASSUME NEW f, IsFiniteSet(DOMAIN f), \A x \in DOMAIN f : f[x] \in Int, NEW z \in DOMAIN f,
           NEW g, DOMAIN g = DOMAIN f \ {z}, \A x \in DOMAIN g : g[x] = f[x]
    PROVE  SumOf(f) = f[z] + SumOf(g)
  <1> DEFINE S == DOMAIN f
             R == DOMAIN g
  <1>1. IsFiniteSet(R) /\ R \in SUBSET S /\ R = S \ {z} /\ S \in SUBSET S
    BY FS_Subset
  <1>2. PICK h : Summing(f, h) /\ SumOf(f) = h[S]
    BY SumUnfolds
  <1>3. PICK i : Summing(g, i) /\ SumOf(g) = i[R]
    BY <1>1, SumUnfolds
  <1>4. Adding(S, f, h)
    BY <1>2, SummingIs
  <1>5. Adding(R, g, i)
    BY <1>3, SummingIs
  <1> HIDE DEF S, R
  <1>6. h[R] = i[R]
    BY <1>1, <1>4, <1>5, AddingAgrees DEF S, R
  <1>7. h[S] = f[z] + h[S \ {z}]
    BY <1>1, <1>4, AddingCommutes DEF S
  <1> QED
    BY <1>1, <1>2, <1>3, <1>6, <1>7

LEMMA SumBounded ==
    ASSUME NEW S, IsFiniteSet(S), NEW f, NEW g, DOMAIN f = S, DOMAIN g = S, NEW c \in Nat,
           \A x \in S : f[x] \in Int /\ g[x] \in Int /\ f[x] <= c * g[x]
    PROVE  SumOf(f) <= c * SumOf(g)
  <1>1. PICK h : Summing(f, h) /\ SumOf(f) = h[S]
    BY SumUnfolds
  <1>2. PICK i : Summing(g, i) /\ SumOf(g) = i[S]
    BY SumUnfolds
  <1>3. /\ h[{}] = 0
        /\ \A U \in SUBSET S : U # {} =>
              Some(U) \in U /\ h[U] = f[Some(U)] + h[U \ {Some(U)}]
    <2>1. Adding(S, f, h)
      BY <1>1, SummingIs, Zenon
    <2> QED
      BY <2>1 DEF Adding
  <1>4. /\ i[{}] = 0
        /\ \A U \in SUBSET S : U # {} =>
              Some(U) \in U /\ i[U] = g[Some(U)] + i[U \ {Some(U)}]
    <2>1. Adding(S, g, i)
      BY <1>2, SummingIs, Zenon
    <2> QED
      BY <2>1 DEF Adding
  <1> DEFINE T == {U \in SUBSET S : h[U] \in Int /\ i[U] \in Int /\ h[U] <= c * i[U]}
  <1>5. {} \in T
    BY <1>3, <1>4
  <1>6. ASSUME NEW U \in SUBSET S, U # {}, \A x \in U : U \ {x} \in T
        PROVE  U \in T
    <2> DEFINE x == Some(U)
               V == U \ {x}
    <2>1. x \in U /\ h[U] = f[x] + h[V] /\ i[U] = g[x] + i[V]
      BY <1>3, <1>4, <1>6
    <2> HIDE DEF x
    <2>2. /\ h[V] \in Int /\ i[V] \in Int /\ h[V] <= c * i[V]
          /\ f[x] \in Int /\ g[x] \in Int /\ f[x] <= c * g[x]
      BY <1>6, <2>1
    <2> HIDE DEF V
    <2>3. c * (g[x] + i[V]) = c * g[x] + c * i[V]
      BY <2>2
    <2>4. c * g[x] \in Int /\ c * i[V] \in Int
      BY <2>2
    <2>5. f[x] + h[V] <= c * g[x] + c * i[V]
      BY <2>2, <2>4
    <2>6. h[U] \in Int /\ i[U] \in Int
      BY <2>1, <2>2
    <2>7. h[U] <= c * i[U]
      BY <2>1, <2>3, <2>5
    <2> QED
      BY <2>6, <2>7
  <1>7. S \in SUBSET S
    OBVIOUS
  <1>8. S \in T
    <2> HIDE DEF T
    <2> QED
      BY <1>5, <1>6, <1>7, Growing
  <1> QED
    BY <1>1, <1>2, <1>8

(* Rows of one value c added after the others, one after another. *)
Upto(g, n) == [i \in 1..n |-> g[i]]

LEMMA SumGrows ==
    ASSUME NEW a \in Nat, NEW b \in Nat, NEW c \in Int,
           NEW g, \A i \in 1..a : g[i] \in Int, \A i \in a + 1..a + b : g[i] = c
    PROVE  SumOf(Upto(g, a + b)) = SumOf(Upto(g, a)) + b * c
  <1> DEFINE Cut(k) == [i \in 1..a + k |-> g[i]]
             T == {k \in Nat : k <= b => SumOf(Cut(k)) = SumOf(Cut(0)) + k * c}
  <1>1. \A i \in 1..a + b : g[i] \in Int
    <2>1. ASSUME NEW i \in 1..a + b
          PROVE  i \in 1..a \/ i \in a + 1..a + b
      OBVIOUS
    <2> QED
      BY <2>1
  <1>2. ASSUME NEW k \in Nat, k <= b
        PROVE  /\ DOMAIN Cut(k) = 1..a + k /\ IsFiniteSet(1..a + k)
               /\ \A i \in 1..a + k : Cut(k)[i] = g[i] /\ g[i] \in Int
               /\ SumOf(Cut(k)) \in Int
    <2>1. DOMAIN Cut(k) = 1..a + k /\ \A i \in 1..a + k : Cut(k)[i] = g[i]
      OBVIOUS
    <2>2. IsFiniteSet(1..a + k)
      BY FS_Interval
    <2>3. ASSUME NEW i \in 1..a + k
          PROVE  g[i] \in Int
      BY <1>1, <1>2
    <2> HIDE DEF Cut
    <2>4. SumOf(Cut(k)) \in Int
      BY <2>1, <2>2, <2>3, SumIs
    <2> QED
      BY <2>1, <2>2, <2>3, <2>4
  <1>3. 0 \in T
    <2>1. SumOf(Cut(0)) \in Int
      BY <1>2
    <2> HIDE DEF Cut
    <2> QED
      BY <2>1
  <1>4. ASSUME NEW k \in Nat, k \in T
        PROVE  k + 1 \in T
    <2> SUFFICES ASSUME k + 1 <= b
                 PROVE  SumOf(Cut(k + 1)) = SumOf(Cut(0)) + (k + 1) * c
      OBVIOUS
    <2> DEFINE z == a + (k + 1)
    <2>1. z \in 1..a + (k + 1) /\ 1..a + k = (1..a + (k + 1)) \ {z} /\ g[z] = c
      <3>1. z \in a + 1..a + b
        OBVIOUS
      <3> QED
        BY <3>1
    <2> DEFINE m == k + 1
    <2>a. SumOf(Cut(k)) = SumOf(Cut(0)) + k * c
      BY <1>4
    <2>b. 0 \in Nat /\ 0 <= b /\ k <= b /\ m \in Nat /\ m <= b
      OBVIOUS
    <2> HIDE DEF Cut, T, z, m
    <2>2. /\ DOMAIN Cut(m) = 1..a + m /\ IsFiniteSet(1..a + m)
          /\ \A i \in 1..a + m : Cut(m)[i] = g[i] /\ g[i] \in Int
      BY <1>2, <2>b
    <2>3. DOMAIN Cut(k) = 1..a + k /\ \A i \in 1..a + k : Cut(k)[i] = g[i]
      BY <1>2, <2>b
    <2>4. SumOf(Cut(k)) = SumOf(Cut(0)) + k * c /\ SumOf(Cut(0)) \in Int
      BY <1>2, <2>a, <2>b
    <2>1a. z \in 1..a + m /\ 1..a + k = (1..a + m) \ {z} /\ g[z] = c
      BY <2>1 DEF m
    <2>5. /\ z \in DOMAIN Cut(m) /\ DOMAIN Cut(k) = DOMAIN Cut(m) \ {z}
          /\ IsFiniteSet(DOMAIN Cut(m)) /\ \A i \in DOMAIN Cut(m) : Cut(m)[i] \in Int
          /\ \A i \in DOMAIN Cut(k) : Cut(k)[i] = Cut(m)[i]
      BY <2>1a, <2>2, <2>3
    <2>6. SumOf(Cut(m)) = Cut(m)[z] + SumOf(Cut(k))
      BY <2>5, SumWithout
    <2>7. Cut(m)[z] = c
      BY <2>1a, <2>2
    <2>8. k * c \in Int /\ (k + 1) * c = k * c + c
      OBVIOUS
    <2> QED
      BY <2>4, <2>6, <2>7, <2>8 DEF m
  <1>5. b \in T
    <2> HIDE DEF T
    <2> QED
      BY <1>3, <1>4, Climbing
  <1>6. Cut(0) = Upto(g, a) /\ Cut(b) = Upto(g, a + b)
    BY DEF Upto
  <1> QED
    BY <1>5, <1>6

-----------------------------------------------------------------------------
(* The least of finitely many integers is the greatest of their opposites.  *)
LEMMA LeastIs ==
    ASSUME NEW S, S \subseteq Int, IsFiniteSet(S), S # {}
    PROVE  Min(S) \in S /\ \A x \in S : Min(S) <= x
  <1>1. PICK n \in Nat : ExistsSurjection(1..n, S)
    BY FS_NatSurjection
  <1>2. PICK f : f \in [1..n -> S] /\ \A x \in S : \E i \in 1..n : f[i] = x
    BY <1>1 DEF ExistsSurjection, Surjection
  <1>3. n # 0 /\ \A i \in 1..n : f[i] \in S /\ f[i] \in Int
    <2>1. \A i \in 1..n : f[i] \in S
      BY <1>2
    <2>2. PICK i \in 1..n : TRUE
      BY <1>2
    <2>3. \A x \in S : x \in Int
      OBVIOUS
    <2>4. n # 0
      BY <2>2
    <2> QED
      BY <2>1, <2>3, <2>4
  <1> DEFINE o == [i \in 1..n |-> -f[i]]
  <1>4. \A i \in 1..n : o[i] = -f[i] /\ o[i] \in Int
    BY <1>3
  <1> HIDE DEF o
  <1>5. PICK g \in 1..n : \A j \in 1..n : o[j] <= o[g]
    BY <1>3, <1>4, Greatest
  <1>6. \A j \in 1..n : f[g] <= f[j]
    BY <1>3, <1>4, <1>5
  <1>7. \E m \in S : \A x \in S : m <= x
    BY <1>2, <1>3, <1>6
  <1> QED
    BY <1>7 DEF Min

(* A set of at most one element, as a sequence. *)
LEMMA OneAsSeq ==
    ASSUME NEW x
    PROVE  SetToSeq({}) = <<>> /\ SetToSeq({x}) = <<x>>
  <1>1. SetToSeq({}) = <<>>
    <2>1. Cardinality({}) = 0
      BY FS_EmptySet
    <2>2. <<>> \in [1..0 -> {}] /\ IsInjective(<<>>)
      BY DEF IsInjective
    <2>3. ASSUME NEW f \in [1..0 -> {}]
          PROVE  f = <<>>
      <3>1. Len(f) = 0 /\ f \in Seq({})
        BY FunctionIsSeq
      <3> QED
        BY <3>1, EmptySeq
    <2> QED
      BY <2>1, <2>2, <2>3 DEF SetToSeq
  <1>2. SetToSeq({x}) = <<x>>
    <2>1. Cardinality({x}) = 1
      BY FS_Singleton
    <2>2. <<x>> \in [1..1 -> {x}] /\ IsInjective(<<x>>)
      BY DEF IsInjective
    <2>3. ASSUME NEW f \in [1..1 -> {x}]
          PROVE  f = <<x>>
      <3>1. Len(f) = 1 /\ DOMAIN f = 1..1 /\ f \in Seq({x})
        BY FunctionIsSeq
      <3>2. f[1] = x /\ Len(<<x>>) = 1 /\ <<x>>[1] = x /\ <<x>> \in Seq({x})
        BY <3>1
      <3> QED
        BY <3>1, <3>2
    <2> QED
      BY <2>1, <2>2, <2>3 DEF SetToSeq
  <1> QED
    BY <1>1, <1>2

-----------------------------------------------------------------------------
(* Rankings, best first. *)
WeakOrder(above) ==
    /\ \A i \in DOMAIN above : above[i] \subseteq DOMAIN above
    /\ \A i, j \in DOMAIN above : i \in above[j] => j \notin above[i]
    /\ \A i, j, k \in DOMAIN above : i \in above[k] => i \in above[j] \/ j \in above[k]

IsRanking(order, above) ==
    /\ Cardinality(DOMAIN above) \in Nat
    /\ DOMAIN order = 1..Cardinality(DOMAIN above)
    /\ \A i \in DOMAIN order : order[i] \in DOMAIN above
    /\ \A x \in DOMAIN above : \E i \in DOMAIN order : order[i] = x
    /\ \A i, j \in DOMAIN order : order[i] = order[j] => i = j
    /\ \A i, j \in DOMAIN order : i < j => order[j] \notin above[order[i]]

(* Sorting from the best down ranks, whatever the ties. *)
LEMMA RankedByIs ==
    ASSUME NEW above, IsFiniteSet(DOMAIN above), DOMAIN above \subseteq Int, WeakOrder(above)
    PROVE  /\ IsRanking(RankedBy(above), above)
           /\ RankedBy(above) \in [1..Cardinality(DOMAIN above) -> DOMAIN above]
  <1> DEFINE S == DOMAIN above
             ahead == [i \in S |-> above[i] \cup {j \in S : j < i /\ i \notin above[j]}]
             order == Ordered(ahead)
             n == Cardinality(S)
  <1>1. DOMAIN ahead = S /\ \A i \in S : ahead[i] = above[i] \cup {j \in S : j < i /\ i \notin above[j]}
    OBVIOUS
  <1>2. RankedBy(above) = order
    BY DEF RankedBy
  <1> HIDE DEF ahead
  <1>3. \A i \in S : i \in Int
    OBVIOUS
  <1>4. /\ \A i \in S : above[i] \subseteq S
        /\ \A i, j \in S : i \in above[j] => j \notin above[i]
        /\ \A i, j, k \in S : i \in above[k] => i \in above[j] \/ j \in above[k]
    BY DEF WeakOrder
  <1>5. \A i, j \in S : j \in ahead[i] <=> (j \in above[i] \/ (j < i /\ i \notin above[j]))
    BY <1>1
  <1>6. Enumerable(ahead)
    <2>1. \A i \in S : ahead[i] \subseteq S \ {i}
      <3>1. \A i \in S : ahead[i] \subseteq S
        BY <1>1, <1>4
      <3>2. \A i \in S : i \notin ahead[i]
        BY <1>3, <1>4, <1>5
      <3> QED
        BY <3>1, <3>2
    <2>2. ASSUME NEW i \in S, NEW j \in S, j \in ahead[i], NEW k \in S, k \in ahead[j]
          PROVE  k \in ahead[i]
      <3>1. k < j /\ j < i => k < i
        BY <1>3
      <3> QED
        BY <1>4, <1>5, <2>2, <3>1
    <2>3. \A i, j \in S : j \in ahead[i] => ahead[j] \subseteq ahead[i]
      BY <2>1, <2>2
    <2>4. \A i, j \in S : i # j => i \in ahead[j] \/ j \in ahead[i]
      <3>1. \A i, j \in S : i # j => i < j \/ j < i
        BY <1>3
      <3> QED
        BY <1>4, <1>5, <3>1
    <2> QED
      BY <1>1, <2>1, <2>3, <2>4, Zenon DEF Enumerable
  <1>7. /\ DOMAIN order = 1..n
        /\ n \in Nat
        /\ \A k \in DOMAIN order : order[k] \in S /\ Cardinality(ahead[order[k]]) = k - 1
        /\ \A i \in S : /\ Cardinality(ahead[i]) + 1 \in DOMAIN order
                        /\ order[Cardinality(ahead[i]) + 1] = i
    BY <1>1, <1>6, OrderedEnumerates
  <1>a. order = [k \in DOMAIN order |-> order[k]]
    BY DEF Ordered
  <1> HIDE DEF order, n
  <1>8. ASSUME NEW i \in DOMAIN order, NEW j \in DOMAIN order
        PROVE  order[i] = order[j] => i = j
    BY <1>7
  <1>9. ASSUME NEW i \in DOMAIN order, NEW j \in DOMAIN order, i < j, order[j] \in above[order[i]]
        PROVE  FALSE
    <2>1. order[i] \in S /\ order[j] \in S /\ order[j] \in ahead[order[i]]
      BY <1>5, <1>7, <1>9
    <2>2. ahead[order[j]] \in SUBSET ahead[order[i]] /\ ahead[order[i]] \in SUBSET S
      BY <1>1, <1>6, <2>1 DEF Enumerable
    <2>3. IsFiniteSet(ahead[order[i]])
      BY <2>2, FS_Subset
    <2>4. Cardinality(ahead[order[j]]) <= Cardinality(ahead[order[i]])
      BY <2>2, <2>3, FS_Subset
    <2>5. i \in Int /\ j \in Int /\ j - 1 <= i - 1
      BY <1>7, <2>4
    <2> QED
      BY <1>9, <2>5
  <1>10. ASSUME NEW x \in S
         PROVE  \E i \in DOMAIN order : order[i] = x
    BY <1>7
  <1>11. IsRanking(order, above)
    BY <1>7, <1>8, <1>9, <1>10 DEF IsRanking, n
  <1>12. order \in [1..n -> S]
    BY <1>7, <1>a
  <1> QED
    BY <1>2, <1>11, <1>12 DEF n

(* What is taken out of the first m of a ranking: those in F, in their order.*)
Takes(chosen, order, m, F, o) ==
    /\ Len(chosen) \in Nat
    /\ DOMAIN chosen = 1..Len(chosen)
    /\ \A k \in DOMAIN chosen : o[k] \in 1..m /\ chosen[k] = order[o[k]] /\ chosen[k] \in F
    /\ \A k, l \in DOMAIN chosen : k < l => o[k] < o[l]
    /\ \A i \in 1..m : order[i] \in F => \E k \in DOMAIN chosen : o[k] = i

IsTop(chosen, above, m, F) ==
    /\ Cardinality(ToSet(chosen)) = Len(chosen)
    /\ ToSet(chosen) \subseteq DOMAIN above \cap F
    /\ \A i, j \in DOMAIN chosen : i < j => chosen[j] \notin above[chosen[i]]
    /\ \A a \in ToSet(chosen) : \A b \in (DOMAIN above \cap F) \ ToSet(chosen) : b \notin above[a]
    /\ Len(chosen) <= m
    /\ DOMAIN above \subseteq F => Len(chosen) = m

(* It is the top: nothing is taken twice, and nothing better is left out. *)
LEMMA TakenIsTop ==
    ASSUME NEW above, NEW order, IsRanking(order, above),
           NEW m \in 0..Cardinality(DOMAIN above), NEW F, NEW chosen, NEW o,
           Takes(chosen, order, m, F, o)
    PROVE  IsTop(chosen, above, m, F)
  <1> DEFINE c == Len(chosen)
             n == Cardinality(DOMAIN above)
             S == DOMAIN above
  <1>1. /\ n \in Nat /\ DOMAIN order = 1..n
        /\ \A i \in 1..n : order[i] \in S
        /\ \A x \in S : \E i \in 1..n : order[i] = x
        /\ \A i, j \in 1..n : order[i] = order[j] => i = j
        /\ \A i, j \in 1..n : i < j => order[j] \notin above[order[i]]
    BY DEF IsRanking
  <1>2. /\ c \in Nat /\ DOMAIN chosen = 1..c
        /\ \A k \in 1..c : o[k] \in 1..m /\ chosen[k] = order[o[k]] /\ chosen[k] \in F
        /\ \A k, l \in 1..c : k < l => o[k] < o[l]
        /\ \A i \in 1..m : order[i] \in F => \E k \in 1..c : o[k] = i
    BY DEF Takes
  <1>3. m \in Nat /\ m <= n
    BY <1>1
  <1> HIDE DEF c, n, S
  <1>4. \A k \in 1..c : o[k] \in 1..n /\ o[k] \in Int /\ k \in Int
    BY <1>1, <1>2, <1>3
  <1>5. \A k, l \in 1..c : o[k] = o[l] => k = l
    BY <1>2, <1>4
  <1>6. \A k, l \in 1..c : chosen[k] = chosen[l] => k = l
    BY <1>1, <1>2, <1>4, <1>5
  <1>7. ToSet(chosen) = {chosen[k] : k \in 1..c}
    BY <1>2 DEF ToSet
  <1>8. IsFiniteSet(1..c) /\ Cardinality(1..c) = c
    <2>1. IsFiniteSet(1..c) /\ Cardinality(1..c) = IF 1 > c THEN 0 ELSE c - 1 + 1
      BY <1>2, FS_Interval
    <2> QED
      BY <1>2, <2>1
  <1>9. IsFiniteSet(1..m) /\ Cardinality(1..m) = m
    <2>1. IsFiniteSet(1..m) /\ Cardinality(1..m) = IF 1 > m THEN 0 ELSE m - 1 + 1
      BY <1>3, FS_Interval
    <2> QED
      BY <1>3, <2>1
  <1>10. Cardinality(ToSet(chosen)) = c
    <2> DEFINE f == [k \in 1..c |-> chosen[k]]
    <2>1. f \in Bijection(1..c, ToSet(chosen))
      BY <1>6, <1>7 DEF Bijection, Injection, Surjection, IsInjective
    <2>2. ExistsBijection(1..c, ToSet(chosen))
      BY <2>1 DEF ExistsBijection
    <2> QED
      BY <1>8, <2>2, FS_Bijection
  <1>11. c <= m /\ (S \subseteq F => c = m)
    <2> DEFINE g == [k \in 1..c |-> o[k]]
    <2>1. g \in Injection(1..c, 1..m)
      BY <1>2, <1>5 DEF Injection, IsInjective
    <2>2. c <= m
      <3> HIDE DEF g
      <3> QED
        BY <1>8, <1>9, <2>1, FS_Injection
    <2>3. ASSUME S \subseteq F
          PROVE  c = m
      <3>1. \A i \in 1..m : i \in 1..n
        BY <1>1, <1>3
      <3>2. \A i \in 1..m : \E k \in 1..c : o[k] = i
        BY <1>1, <1>2, <2>3, <3>1
      <3>3. g \in Surjection(1..c, 1..m)
        BY <1>2, <3>2 DEF Surjection
      <3> HIDE DEF g
      <3>4. ExistsBijection(1..c, 1..m)
        BY <2>1, <3>3 DEF ExistsBijection, Bijection
      <3> QED
        BY <1>8, <1>9, <3>4, FS_Bijection
    <2> QED
      BY <2>2, <2>3
  <1>12. \A a \in ToSet(chosen) : a \in S /\ a \in F
    BY <1>1, <1>2, <1>4, <1>7
  <1>13. ASSUME NEW i \in 1..c, NEW j \in 1..c, i < j
         PROVE  chosen[j] \notin above[chosen[i]]
    <2>1. o[i] \in 1..n /\ o[j] \in 1..n /\ o[i] < o[j]
      BY <1>2, <1>4, <1>13
    <2>2. order[o[j]] \notin above[order[o[i]]]
      BY <1>1, <2>1
    <2>3. chosen[i] = order[o[i]] /\ chosen[j] = order[o[j]]
      BY <1>2
    <2> QED
      BY <2>2, <2>3
  <1>14. ASSUME NEW k \in 1..c, NEW b \in S, b \in F, b \notin ToSet(chosen)
         PROVE  b \notin above[chosen[k]]
    <2>1. PICK j \in 1..n : order[j] = b
      BY <1>1
    <2>2. j \notin 1..m
      BY <1>2, <1>7, <1>14, <2>1
    <2>3. o[k] < j
      BY <1>1, <1>2, <1>3, <2>2
    <2> QED
      BY <1>1, <1>2, <1>4, <2>1, <2>3
  <1>15. \A a \in ToSet(chosen) : \A b \in (S \cap F) \ ToSet(chosen) : b \notin above[a]
    BY <1>7, <1>14
  <1> QED
    BY <1>2, <1>10, <1>11, <1>12, <1>13, <1>15 DEF IsTop, c, S

(* The first of a ranking, and those of the first that are in F. *)
LEMMA FirstTake ==
    ASSUME NEW order, NEW n \in Nat, order \in Seq(Range(order)), Len(order) = n,
           NEW m \in 0..n, NEW F, \A i \in 1..n : order[i] \in F
    PROVE  \E o : Takes(SubSeq(order, 1, m), order, m, F, o)
  <1> DEFINE o == [k \in 1..m |-> k]
             c == SubSeq(order, 1, m)
  <1>1. \A i \in 1..m : i \in 1..n /\ order[i] \in Range(order)
    <2>1. DOMAIN order = 1..n
      BY LenProperties
    <2> QED
      BY <2>1 DEF Range
  <1>2. /\ c \in Seq(Range(order))
        /\ Len(c) = IF 1 <= m THEN m - 1 + 1 ELSE 0
        /\ \A i \in 1..m - 1 + 1 : c[i] = order[1 + i - 1]
    BY <1>1, SubSeqProperties
  <1> HIDE DEF c
  <1>3. Len(c) = m /\ DOMAIN c = 1..m /\ \A i \in 1..m : c[i] = order[i]
    BY <1>2, LenProperties
  <1>4. Takes(c, order, m, F, o)
    BY <1>1, <1>3 DEF Takes
  <1> QED
    BY <1>4 DEF c

Within(rows, m, F) == {i \in 1..m : rows[i] \in F}

LEMMA PickedTake ==
    ASSUME NEW order, NEW m \in Nat, NEW F, NEW rows, DOMAIN rows = 1..m,
           \A i \in 1..m : rows[i] = order[i]
    PROVE  \E o : Takes(Picked(rows, Within(rows, m, F)), order, m, F, o)
  <1> DEFINE P == {i \in 1..m : rows[i] \in F}
             ahead == [i \in P |-> {j \in P : j < i}]
             o == Ordered(ahead)
             c == Picked(rows, P)
  <1>1. P \subseteq Int /\ IsFiniteSet(P)
    <2>1. IsFiniteSet(1..m) /\ P \in SUBSET (1..m)
      BY FS_Interval
    <2> QED
      BY <2>1, FS_Subset
  <1>2. \A i \in P : i \in 1..m /\ i \in Int /\ rows[i] \in F
    OBVIOUS
  <1>3. DOMAIN ahead = P /\ \A i \in P : ahead[i] = {j \in P : j < i}
    OBVIOUS
  <1>4. c = [k \in DOMAIN o |-> rows[o[k]]]
    BY DEF Picked
  <1>5. \A i \in 1..m : rows[i] \in F => i \in P
    OBVIOUS
  <1>6. c \in Seq(F) /\ Len(c) = Cardinality(P)
    <2> HIDE DEF P
    <2> QED
      BY <1>1, <1>2, PickedIs
  <1> HIDE DEF P, ahead, o, c
  <1>7. Enumerable(ahead)
    <2>1. \A i \in P : ahead[i] \subseteq P \ {i}
      BY <1>2, <1>3
    <2>2. ASSUME NEW i \in P, NEW j \in P, j \in ahead[i]
          PROVE  ahead[j] \subseteq ahead[i]
      <3>1. ASSUME NEW x \in P, x < j
            PROVE  x < i
        BY <1>2, <1>3, <2>2, <3>1
      <3> QED
        BY <1>3, <3>1
    <2>3. \A i, j \in P : i # j => i \in ahead[j] \/ j \in ahead[i]
      BY <1>2, <1>3
    <2> QED
      BY <1>1, <1>3, <2>1, <2>2, <2>3, Zenon DEF Enumerable
  <1>8. /\ DOMAIN o = 1..Cardinality(P) /\ Cardinality(P) \in Nat
        /\ \A k \in DOMAIN o : o[k] \in P /\ Cardinality(ahead[o[k]]) = k - 1
        /\ \A i \in P : Cardinality(ahead[i]) + 1 \in DOMAIN o /\ o[Cardinality(ahead[i]) + 1] = i
    BY <1>3, <1>7, OrderedEnumerates DEF o
  <1>9. ASSUME NEW k \in DOMAIN o, NEW l \in DOMAIN o, k < l
        PROVE  o[k] < o[l]
    <2>1. o[k] \in P /\ o[l] \in P /\ o[k] \in Int /\ o[l] \in Int /\ k \in Int /\ l \in Int
      BY <1>2, <1>8
    <2>2. o[k] # o[l]
      BY <1>8, <1>9, <2>1
    <2>3. ASSUME o[l] < o[k]
          PROVE  FALSE
      <3>1. o[l] \in ahead[o[k]]
        BY <1>3, <2>1, <2>3
      <3>2. ahead[o[l]] \in SUBSET ahead[o[k]] /\ ahead[o[k]] \in SUBSET P
        BY <1>3, <1>7, <2>1, <3>1 DEF Enumerable
      <3>3. IsFiniteSet(ahead[o[k]])
        BY <1>1, <3>2, FS_Subset
      <3>4. Cardinality(ahead[o[l]]) <= Cardinality(ahead[o[k]])
        BY <3>2, <3>3, FS_Subset
      <3> QED
        BY <1>8, <1>9, <2>1, <3>4
    <2> QED
      BY <2>1, <2>2, <2>3
  <1>10. DOMAIN c = DOMAIN o /\ \A k \in DOMAIN o : c[k] = rows[o[k]]
    BY <1>4
  <1>11. \A k \in DOMAIN o : o[k] \in 1..m /\ c[k] = order[o[k]] /\ c[k] \in F
    BY <1>2, <1>8, <1>10
  <1>12. \A i \in 1..m : order[i] \in F => \E k \in DOMAIN o : o[k] = i
    <2>1. \A i \in P : \E k \in DOMAIN o : o[k] = i
      BY <1>8
    <2> QED
      BY <1>5, <2>1
  <1>13. Takes(c, order, m, F, o)
    BY <1>6, <1>8, <1>9, <1>10, <1>11, <1>12 DEF Takes
  <1> QED
    BY <1>13 DEF c, P, Within

(* The members of a sequence that are in F, counted: those of two sequences  *)
(* one behind the other, and those of one more member.                       *)
Hits(rows, F) == {i \in DOMAIN rows : rows[i] \in F}

LEMMA HitsAre ==
    ASSUME NEW S, NEW a \in Seq(S), NEW F
    PROVE  /\ IsFiniteSet(Hits(a, F)) /\ Cardinality(Hits(a, F)) \in Nat
           /\ Cardinality(Hits(a, F)) <= Len(a)
  <1>1. Len(a) \in Nat /\ DOMAIN a = 1..Len(a)
    BY LenProperties
  <1>2. IsFiniteSet(1..Len(a)) /\ Cardinality(1..Len(a)) = IF 1 > Len(a) THEN 0 ELSE Len(a) - 1 + 1
    BY <1>1, FS_Interval
  <1>3. Hits(a, F) \in SUBSET (1..Len(a))
    BY <1>1 DEF Hits
  <1>4. IsFiniteSet(Hits(a, F)) /\ Cardinality(Hits(a, F)) <= Cardinality(1..Len(a))
    BY <1>2, <1>3, FS_Subset
  <1>5. Cardinality(Hits(a, F)) \in Nat
    BY <1>4, FS_CardinalityType
  <1> QED
    BY <1>1, <1>2, <1>4, <1>5

LEMMA HitsJoined ==
    ASSUME NEW S, NEW a \in Seq(S), NEW b \in Seq(S), NEW F
    PROVE  Cardinality(Hits(a \o b, F)) = Cardinality(Hits(a, F)) + Cardinality(Hits(b, F))
  <1> DEFINE n == Len(a)
             k == Len(b)
             P == Hits(a, F)
             Q == Hits(b, F)
             f == [i \in Q |-> n + i]
             R == {n + i : i \in Q}
  <1>1. n \in Nat /\ DOMAIN a = 1..n /\ k \in Nat /\ DOMAIN b = 1..k
    BY LenProperties
  <1>2. /\ a \o b \in Seq(S) /\ Len(a \o b) = n + k
        /\ \A i \in 1..n + k : (a \o b)[i] = IF i <= n THEN a[i] ELSE b[i - n]
    BY ConcatProperties
  <1>3. DOMAIN (a \o b) = 1..n + k
    BY <1>2, LenProperties
  <1>4. /\ IsFiniteSet(P) /\ IsFiniteSet(Q)
        /\ Cardinality(P) \in Nat /\ Cardinality(Q) \in Nat
    BY HitsAre
  <1>5. P = {i \in 1..n : a[i] \in F} /\ Q = {i \in 1..k : b[i] \in F}
    BY <1>1 DEF Hits
  <1> HIDE DEF n, k, P, Q
  <1>6. \A i \in Q : i \in 1..k /\ i \in Int
    BY <1>1, <1>5
  <1>7. f \in Bijection(Q, R)
    <2>1. \A i, j \in Q : n + i = n + j => i = j
      BY <1>1, <1>6
    <2> QED
      BY <2>1 DEF Bijection, Injection, Surjection, IsInjective
  <1> HIDE DEF f
  <1>8. IsFiniteSet(R) /\ Cardinality(R) = Cardinality(Q)
    <2>1. ExistsBijection(Q, R)
      BY <1>7 DEF ExistsBijection
    <2> HIDE DEF R
    <2> QED
      BY <1>4, <2>1, FS_Bijection
  <1>9. Hits(a \o b, F) = P \cup R
    <2>1. ASSUME NEW i \in 1..n + k
          PROVE  (a \o b)[i] \in F <=> i \in P \cup R
      <3>1. CASE i <= n
        <4>1. i \in 1..n /\ \A j \in Q : n + j # i
          BY <1>1, <1>6, <3>1
        <4> QED
          BY <1>2, <1>5, <3>1, <4>1
      <3>2. CASE ~(i <= n)
        <4>1. i - n \in 1..k /\ i = n + (i - n) /\ i \notin 1..n
          BY <1>1, <3>2
        <4>2. i \in R <=> i - n \in Q
          <5>1. \A j \in Q : i = n + j => j = i - n
            BY <1>1, <1>6
          <5> QED
            BY <4>1, <5>1
        <4> HIDE DEF R
        <4> QED
          BY <1>2, <1>5, <3>2, <4>1, <4>2
      <3> QED
        BY <3>1, <3>2
    <2>2. \A i \in P \cup R : i \in 1..n + k
      BY <1>1, <1>5, <1>6
    <2> HIDE DEF R
    <2> QED
      BY <1>3, <2>1, <2>2 DEF Hits
  <1>10. P \cap R = {}
    BY <1>1, <1>5, <1>6
  <1> HIDE DEF R
  <1>11. Cardinality(P \cup R) = Cardinality(P) + Cardinality(R) - Cardinality(P \cap R)
    BY <1>4, <1>8, FS_Union
  <1>12. Cardinality(P \cap R) = 0
    BY <1>10, FS_EmptySet
  <1> QED
    BY <1>4, <1>8, <1>9, <1>11, <1>12 DEF P, Q

LEMMA WithinGrows ==
    ASSUME NEW rows, NEW m \in Nat, NEW F
    PROVE  /\ Cardinality(Within(rows, m, F)) \in Nat
           /\ Cardinality(Within(rows, m + 1, F))
                 = Cardinality(Within(rows, m, F)) + (IF rows[m + 1] \in F THEN 1 ELSE 0)
  <1> DEFINE P == Within(rows, m, F)
  <1>1. IsFiniteSet(P) /\ Cardinality(P) \in Nat
    <2>1. IsFiniteSet(1..m) /\ P \in SUBSET (1..m)
      BY FS_Interval DEF Within
    <2>2. IsFiniteSet(P)
      BY <2>1, FS_Subset
    <2> QED
      BY <2>2, FS_CardinalityType
  <1>2. m + 1 \notin P /\ 1..m + 1 = 1..m \cup {m + 1}
    BY DEF Within
  <1>3. CASE rows[m + 1] \in F
    <2>1. Within(rows, m + 1, F) = P \cup {m + 1}
      BY <1>2, <1>3 DEF Within
    <2> HIDE DEF P
    <2>2. Cardinality(P \cup {m + 1}) = Cardinality(P) + 1
      BY <1>1, <1>2, FS_AddElement
    <2> QED
      BY <1>1, <1>3, <2>1, <2>2 DEF P
  <1>4. CASE rows[m + 1] \notin F
    <2>1. Within(rows, m + 1, F) = P
      BY <1>2, <1>4 DEF Within
    <2> QED
      BY <1>1, <1>4, <2>1
  <1> QED
    BY <1>3, <1>4

LEMMA WithinNothing ==
    ASSUME NEW rows, NEW F
    PROVE  Cardinality(Within(rows, 0, F)) = 0
  <1>1. Within(rows, 0, F) = {}
    BY DEF Within
  <1> QED
    BY <1>1, FS_EmptySet
=============================================================================
