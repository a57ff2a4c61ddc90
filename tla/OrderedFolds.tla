---------------------------- MODULE OrderedFolds ----------------------------
(* MapThenFoldSet over a finite set of positive numbers, taken in ascending   *)
(* order: it is defined for every such set, and what its steps preserve holds *)
(* of its result.  op is a parameter of the module, so that an instance of    *)
(* the module states the theorem for the operator it is given.                *)
EXTENDS Integers, FiniteSetsExt, WellFoundedInduction, TLAPS

CONSTANT op(_, _)

Fold(base, g, S) == MapThenFoldSet(op, base, LAMBDA i : g[i], Max, S)

-----------------------------------------------------------------------------
\* A set with zero and the successors of its members has every number: what it
\* lacks would have a least member.
LEMMA SetInduction ==
  ASSUME NEW T, 0 \in T, \A n \in Nat : n \in T => n + 1 \in T
  PROVE  Nat \subseteq T
  <1> DEFINE Lacking == Nat \ T
  <1> SUFFICES ASSUME Lacking # {} PROVE FALSE
    OBVIOUS
  <1>1. PICK x \in Lacking : \A y \in Lacking : ~ <<y, x>> \in OpToRel(<, Nat)
    BY NatLessThanWellFounded, WFMin
  <1>2. \A y \in Lacking : ~ y < x
    BY <1>1 DEF OpToRel
  <1>3. x \in Nat /\ x # 0 /\ x - 1 \in Nat
    OBVIOUS
  <1>4. x - 1 \in T
    BY <1>2, <1>3
  <1> QED
    BY <1>3, <1>4

\* A set of numbers up to n that is not empty has a greatest one.
LEMMA MaxIsGreatest ==
  ASSUME NEW n \in Nat, NEW S \in SUBSET (0 .. n), S # {}
  PROVE  Max(S) \in S /\ \A j \in S : j <= Max(S)
  <1> DEFINE T == {k \in Nat : (\E j \in S : j <= k) => \E m \in S : \A j \in S : j <= k => j <= m}
  <1>1. 0 \in T
    OBVIOUS
  <1>2. ASSUME NEW k \in Nat, k \in T PROVE k + 1 \in T
    <2>1. CASE k + 1 \in S
      BY <2>1
    <2>2. CASE k + 1 \notin S
      <3>1. \A j \in S : j <= k + 1 <=> j <= k
        BY <2>2
      <3> QED
        BY <3>1, <1>2
    <2> QED
      BY <2>1, <2>2
  <1> HIDE DEF T
  <1>3. n \in T
    BY <1>1, <1>2, SetInduction
  <1>4. \A j \in S : j <= n
    OBVIOUS
  <1>5. PICK m \in S : \A j \in S : j <= n => j <= m
    BY <1>3, <1>4 DEF T
  <1>6. \A j \in S : m >= j
    BY <1>4, <1>5
  <1> QED
    BY <1>6 DEF Max

-----------------------------------------------------------------------------
\* What iter of MapThenFoldSet is asked to be.
Iterates(it, base, g, S) ==
  it = [s \in SUBSET S |-> IF s = {} THEN base ELSE op(g[Max(s)], it[s \ {Max(s)}])]

\* There is such an iter: the values for the subsets of 1 .. k + 1 are made of those
\* for the subsets of 1 .. k, for the greatest is the one taken away.
LEMMA IterExists ==
  ASSUME NEW n \in Nat, NEW S \in SUBSET (1 .. n), NEW base, NEW g
  PROVE  \E it : Iterates(it, base, g, S)
  <1> DEFINE Value(it, s) == IF s = {} THEN base ELSE op(g[Max(s)], it[s \ {Max(s)}])
             Part(k) == {s \in SUBSET S : s \subseteq 1 .. k}
             T == {k \in Nat : \E it : \A s \in Part(k) : it[s] = Value(it, s)}
  <1>1. 0 \in T
    <2> DEFINE it == [s \in SUBSET S |-> base]
    <2>1. \A s \in Part(0) : s = {}
      OBVIOUS
    <2>2. it[{}] = base
      OBVIOUS
    <2>3. \A s \in Part(0) : it[s] = Value(it, s)
      BY <2>1, <2>2
    <2> HIDE DEF it, Value, Part
    <2> QED
      BY <2>3
  <1>2. ASSUME NEW k \in Nat, k \in T PROVE k + 1 \in T
    <2>1. PICK it : \A s \in Part(k) : it[s] = Value(it, s)
      BY <1>2
    <2> DEFINE jt == [s \in Part(k + 1) |-> IF s \in Part(k) THEN it[s] ELSE Value(it, s)]
    <2>2. ASSUME NEW s \in Part(k + 1), s # {}
          PROVE  s \ {Max(s)} \in Part(k)
      <3>1. s \subseteq 1 .. k + 1 /\ s \in SUBSET (0 .. k + 1) /\ k + 1 \in Nat
        BY <2>2
      <3>2. Max(s) \in s /\ \A j \in s : j <= Max(s)
        BY ONLY <2>2, <3>1, MaxIsGreatest
      <3>3. ASSUME NEW j \in s \ {Max(s)} PROVE j \in 1 .. k
        <4>1. j \in 1 .. k + 1 /\ Max(s) \in 1 .. k + 1 /\ j <= Max(s) /\ j # Max(s)
          BY <3>1, <3>2
        <4> QED
          BY ONLY <4>1, k \in Nat
      <3> QED
        BY <3>3
    <2>3. ASSUME NEW s \in Part(k + 1) PROVE jt[s] = Value(jt, s)
      <3>1. Part(k) \subseteq Part(k + 1)
        OBVIOUS
      <3>2. s # {} => jt[s \ {Max(s)}] = it[s \ {Max(s)}]
        BY <2>2, <3>1
      <3>3. jt[s] = Value(it, s)
        BY <2>1
      <3> QED
        BY <3>2, <3>3
    <2> HIDE DEF jt, Value, Part
    <2> QED
      BY <2>3
  <1> HIDE DEF T
  <1>3. n \in T
    BY <1>1, <1>2, SetInduction
  <1>4. PICK it : \A s \in Part(n) : it[s] = Value(it, s)
    BY <1>3 DEF T
  <1> DEFINE kt == [s \in SUBSET S |-> it[s]]
  <1>5. ASSUME NEW s \in SUBSET S PROVE kt[s] = Value(kt, s)
    <2>1. s \in Part(n) /\ s \ {Max(s)} \in SUBSET S
      OBVIOUS
    <2> QED
      BY <1>4, <2>1
  <1>6. kt = [s \in SUBSET S |-> Value(kt, s)]
    BY <1>5
  <1> QED
    BY <1>6 DEF Iterates

\* The fold satisfies the equation it is defined by.
LEMMA FoldEquation ==
  ASSUME NEW n \in Nat, NEW S \in SUBSET (1 .. n), NEW base, NEW g
  PROVE  \E it : Iterates(it, base, g, S) /\ Fold(base, g, S) = it[S]
  <1> DEFINE it == CHOOSE it : Iterates(it, base, g, S)
  <1>1. Iterates(it, base, g, S)
    BY IterExists
  <1>2. Fold(base, g, S) = it[S]
    BY DEF Fold, MapThenFoldSet, Iterates
  <1> QED
    BY <1>1, <1>2

-----------------------------------------------------------------------------
\* The numbers of S that the fold has reached.
Upto(S, k) == {j \in S : j <= k}

\* It reaches one number at a time.
LEMMA UptoGrows ==
  ASSUME NEW n \in Nat, NEW S \in SUBSET (1 .. n)
  PROVE  /\ Upto(S, 0) = {}
         /\ Upto(S, n) = S
         /\ \A k \in Nat : k + 1 \notin S => Upto(S, k + 1) = Upto(S, k)
         /\ \A k \in Nat : k + 1 \in S =>
              /\ Upto(S, k + 1) # {}
              /\ Max(Upto(S, k + 1)) = k + 1
              /\ Upto(S, k + 1) \ {k + 1} = Upto(S, k)
  <1>1. \A j \in S : j \in Nat /\ 1 <= j /\ j <= n
    OBVIOUS
  <1>2. Upto(S, 0) = {}
    <2>1. \A j \in S : ~ (j <= 0)
      BY <1>1
    <2> QED
      BY ONLY <2>1 DEF Upto
  <1>3. Upto(S, n) = S
    BY <1>1 DEF Upto
  <1>4. ASSUME NEW k \in Nat, k + 1 \notin S
        PROVE  Upto(S, k + 1) = Upto(S, k)
    <2>1. \A j \in S : j <= k + 1 <=> j <= k
      BY <1>1, <1>4
    <2> QED
      BY <2>1 DEF Upto
  <1>5. ASSUME NEW k \in Nat, k + 1 \in S
        PROVE  /\ Upto(S, k + 1) # {}
               /\ Max(Upto(S, k + 1)) = k + 1
               /\ Upto(S, k + 1) \ {k + 1} = Upto(S, k)
    <2>1. k + 1 \in Upto(S, k + 1) /\ Upto(S, k + 1) # {}
      BY <1>5 DEF Upto
    <2>2. Upto(S, k + 1) \in SUBSET (0 .. n)
      <3>1. \A j \in S : j \in 0 .. n
        BY <1>1
      <3> QED
        BY ONLY <3>1 DEF Upto
    <2>3. /\ Max(Upto(S, k + 1)) \in Upto(S, k + 1)
          /\ \A j \in Upto(S, k + 1) : j <= Max(Upto(S, k + 1))
      BY ONLY <2>1, <2>2, MaxIsGreatest, n \in Nat
    <2>4. Max(Upto(S, k + 1)) = k + 1
      <3>1. Max(Upto(S, k + 1)) \in S /\ Max(Upto(S, k + 1)) <= k + 1 /\ k + 1 <= Max(Upto(S, k + 1))
        BY <2>1, <2>3 DEF Upto
      <3>2. Max(Upto(S, k + 1)) \in Nat
        BY <1>1, <3>1
      <3> QED
        BY ONLY <3>1, <3>2, k \in Nat
    <2>5. \A j \in S : j <= k + 1 /\ j # k + 1 <=> j <= k
      BY <1>1
    <2>6. Upto(S, k + 1) \ {k + 1} = Upto(S, k)
      BY <2>5 DEF Upto
    <2> QED
      BY <2>1, <2>4, <2>6
  <1> QED
    BY <1>2, <1>3, <1>4, <1>5

\* What holds at the beginning and is handed on from each number to the next holds
\* of the result: <<k, v>> \in P says it of the value v of the fold up to k.
THEOREM FoldInduction ==
  ASSUME NEW n \in Nat, NEW S \in SUBSET (1 .. n), NEW base, NEW g, NEW P,
         <<0, base>> \in P,
         \A k \in 1 .. n : \A v : <<k - 1, v>> \in P =>
           <<k, IF k \in S THEN op(g[k], v) ELSE v>> \in P
  PROVE  <<n, Fold(base, g, S)>> \in P
  <1>1. PICK it : Iterates(it, base, g, S) /\ Fold(base, g, S) = it[S]
    BY FoldEquation
  <1> DEFINE T == {k \in Nat : k <= n => <<k, it[Upto(S, k)]>> \in P}
  <1>2. 0 \in T
    BY <1>1, UptoGrows DEF Iterates
  <1>3. ASSUME NEW k \in Nat, k \in T PROVE k + 1 \in T
    <2> SUFFICES ASSUME k + 1 <= n PROVE <<k + 1, it[Upto(S, k + 1)]>> \in P
      OBVIOUS
    <2>1. <<k, it[Upto(S, k)]>> \in P /\ k + 1 \in 1 .. n /\ (k + 1) - 1 = k
      BY <1>3
    <2>2. <<k + 1, IF k + 1 \in S THEN op(g[k + 1], it[Upto(S, k)]) ELSE it[Upto(S, k)]>> \in P
      BY <2>1
    <2>3. CASE k + 1 \in S
      <3>1. Upto(S, k + 1) \in SUBSET S
        BY DEF Upto
      <3>2. it[Upto(S, k + 1)] = op(g[k + 1], it[Upto(S, k)])
        <4>1. /\ Upto(S, k + 1) # {}
              /\ Max(Upto(S, k + 1)) = k + 1
              /\ Upto(S, k + 1) \ {k + 1} = Upto(S, k)
          BY <2>3, UptoGrows
        <4>2. it[Upto(S, k + 1)] =
                op(g[Max(Upto(S, k + 1))], it[Upto(S, k + 1) \ {Max(Upto(S, k + 1))}])
          BY <1>1, <3>1, <4>1 DEF Iterates
        <4> QED
          BY <4>1, <4>2
      <3> QED
        BY <2>2, <2>3, <3>2
    <2>4. CASE k + 1 \notin S
      BY <2>2, <2>4, UptoGrows
    <2> QED
      BY <2>3, <2>4
  <1> HIDE DEF T
  <1>4. n \in T
    BY <1>2, <1>3, SetInduction
  <1> QED
    BY <1>1, <1>4, UptoGrows DEF T
=============================================================================
