----------------------------- MODULE DataLemmas -----------------------------
(***************************************************************************)
(* Facts about numbers, sequences and finite sets that the proofs about    *)
(* several components need: induction, totals, and the order of a set.     *)
(***************************************************************************)
EXTENDS Totals, FiniteSets, FiniteSetTheorems, SequenceTheorems, TLAPS

(* Induction, from the pigeon-hole principle: were n missing from a set that *)
(* has 0 and every successor, adding one would map the part of the set below *)
(* n one to one into that part without 0.                                    *)
LEMMA SetInduction ==
    ASSUME NEW T, 0 \in T, \A n \in Nat : n \in T => n + 1 \in T
    PROVE  \A n \in Nat : n \in T
  <1> SUFFICES ASSUME NEW n \in Nat, n \notin T PROVE FALSE OBVIOUS
  <1> DEFINE A == {i \in 0..n : i \in T}
             f == [i \in A |-> i + 1]
  <1>1. IsFiniteSet(0..n) BY FS_Interval
  <1>2. IsFiniteSet(A) BY <1>1, FS_Subset
  <1>3. 0 \in A OBVIOUS
  <1>4. IsFiniteSet(A \ {0}) /\ Cardinality(A \ {0}) = Cardinality(A) - 1
    BY <1>2, <1>3, FS_RemoveElement
  <1>5. \A i \in A : i + 1 \in A \ {0}
    OBVIOUS
  <1>6. f \in Injection(A, A \ {0})
    BY <1>5 DEF Injection, IsInjective
  <1>7. Cardinality(A) <= Cardinality(A \ {0})
    BY <1>6, <1>4, FS_Injection
  <1>8. Cardinality(A) \in Nat BY <1>2, FS_CardinalityType
  <1>q. QED BY <1>4, <1>7, <1>8

(* A set of numbers that is not empty has a least one. *)
LEMMA Least ==
    ASSUME NEW S, S \subseteq Nat, S # {}
    PROVE  \E i \in S : \A j \in S : i <= j
  <1> SUFFICES ASSUME \A i \in S : \E j \in S : ~(i <= j) PROVE FALSE
    OBVIOUS
  <1> DEFINE T == {n \in Nat : \A i \in S : n <= i}
  <1>1. 0 \in T
    OBVIOUS
  <1>2. ASSUME NEW n \in Nat, n \in T PROVE n + 1 \in T
    <2>1. n \notin S
      BY <1>2
    <2>q. QED BY <1>2, <2>1
  <1>3. \A n \in Nat : n \in T
    <2> HIDE DEF T
    <2>q. QED BY <1>1, <1>2, SetInduction
  <1>4. PICK i \in S : TRUE
    OBVIOUS
  <1>5. i + 1 \in Nat /\ ~(i + 1 <= i)
    OBVIOUS
  <1>q. QED BY <1>3, <1>4, <1>5

LEMMA FcnIsSeq ==
    ASSUME NEW S, NEW n \in Nat, NEW f \in [1..n -> S]
    PROVE  f \in Seq(S) /\ Len(f) = n /\ DOMAIN f = 1..n
  OBVIOUS

-----------------------------------------------------------------------------
(* Totals. *)

(* The first n running sums of a sequence. *)
RunningSums(s, n, f) ==
    /\ f \in [0..n -> Int]
    /\ f[0] = 0
    /\ \A m \in 1..n : f[m] = f[m - 1] + s[m]

Sums(s, f) == RunningSums(s, Len(s), f)

(* A sequence has running sums. *)
LEMMA SumsExist ==
    ASSUME NEW s \in Seq(Int) PROVE \E f : Sums(s, f)
  <1> DEFINE T == {n \in Nat : n <= Len(s) => \E f : RunningSums(s, n, f)}
  <1>1. 0 \in T
    <2>1. RunningSums(s, 0, [i \in 0..0 |-> 0]) BY DEF RunningSums
    <2>q. QED BY <2>1
  <1>2. ASSUME NEW n \in Nat, n \in T PROVE n + 1 \in T
    <2> SUFFICES ASSUME n + 1 <= Len(s) PROVE \E f : RunningSums(s, n + 1, f)
      OBVIOUS
    <2>1. PICK f : RunningSums(s, n, f) BY <1>2
    <2> DEFINE g == [i \in 0..(n + 1) |-> IF i <= n THEN f[i] ELSE f[n] + s[n + 1]]
    <2>2. s[n + 1] \in Int OBVIOUS
    <2>3. g \in [0..(n + 1) -> Int] BY <2>1, <2>2 DEF RunningSums
    <2>4. g[0] = 0 BY <2>1 DEF RunningSums
    <2>5. ASSUME NEW m \in 1..(n + 1) PROVE g[m] = g[m - 1] + s[m]
      <3>1. CASE m <= n
        <4>1. g[m] = f[m] /\ g[m - 1] = f[m - 1] BY <3>1
        <4>q. QED BY <2>1, <3>1, <4>1 DEF RunningSums
      <3>2. CASE m = n + 1
        <4>1. g[m] = f[n] + s[n + 1] /\ g[m - 1] = f[n] BY <3>2
        <4>q. QED BY <3>2, <4>1
      <3>q. QED BY <3>1, <3>2
    <2>q. QED BY <2>3, <2>4, <2>5 DEF RunningSums
  <1> HIDE DEF T
  <1>3. \A n \in Nat : n \in T BY <1>1, <1>2, SetInduction
  <1>4. Len(s) \in T BY <1>3
  <1>5. PICK f : RunningSums(s, Len(s), f) BY <1>4 DEF T
  <1>q. QED BY <1>5 DEF Sums

(* Total is the last of them, whichever function gives them. *)
LEMMA TotalIsLast ==
    ASSUME NEW s \in Seq(Int), NEW f, Sums(s, f)
    PROVE  Total(s) = f[Len(s)] /\ Total(s) \in Int
  <1>1. f = [n \in 0..Len(s) |-> IF n = 0 THEN 0 ELSE f[n - 1] + s[n]]
    BY DEF Sums, RunningSums
  <1>2. PICK g : /\ g = [n \in 0..Len(s) |-> IF n = 0 THEN 0 ELSE g[n - 1] + s[n]]
                 /\ Total(s) = g[Len(s)]
    BY <1>1 DEF Total
  <1> DEFINE T == {n \in Nat : n <= Len(s) => g[n] = f[n]}
  <1>3. 0 \in T BY <1>1, <1>2
  <1>4. ASSUME NEW n \in Nat, n \in T PROVE n + 1 \in T
    <2> SUFFICES ASSUME n + 1 <= Len(s) PROVE g[n + 1] = f[n + 1]
      OBVIOUS
    <2>1. g[n] = f[n] BY <1>4
    <2>2. n + 1 \in 0..Len(s) /\ n + 1 # 0 /\ (n + 1) - 1 = n OBVIOUS
    <2>3. g[n + 1] = g[n] + s[n + 1] BY <1>2, <2>2
    <2>4. f[n + 1] = f[n] + s[n + 1] BY <1>1, <2>2
    <2>q. QED BY <2>1, <2>3, <2>4
  <1> HIDE DEF T
  <1>5. \A n \in Nat : n \in T BY <1>3, <1>4, SetInduction
  <1>6. Len(s) \in T /\ Len(s) \in 0..Len(s) BY <1>5
  <1>7. g[Len(s)] = f[Len(s)] BY <1>6 DEF T
  <1>q. QED BY <1>2, <1>6, <1>7 DEF Sums, RunningSums

LEMMA TotalType == ASSUME NEW s \in Seq(Int) PROVE Total(s) \in Int
  BY SumsExist, TotalIsLast

LEMMA TotalEmpty == Total(<<>>) = 0
  <1>1. <<>> \in Seq(Int) /\ Len(<<>>) = 0 OBVIOUS
  <1>2. Sums(<<>>, [i \in 0..0 |-> 0]) BY <1>1 DEF Sums, RunningSums
  <1>q. QED BY <1>1, <1>2, TotalIsLast

LEMMA TotalNat == ASSUME NEW s \in Seq(Nat) PROVE Total(s) \in Nat
  <1>0. s \in Seq(Int) OBVIOUS
  <1>1. PICK f : Sums(s, f) BY <1>0, SumsExist
  <1> DEFINE T == {n \in Nat : n <= Len(s) => f[n] \in Nat}
  <1>2. 0 \in T BY <1>1 DEF Sums, RunningSums
  <1>3. ASSUME NEW n \in Nat, n \in T PROVE n + 1 \in T
    <2> SUFFICES ASSUME n + 1 <= Len(s) PROVE f[n + 1] \in Nat
      OBVIOUS
    <2>1. f[n] \in Nat BY <1>3
    <2>2. n + 1 \in 1..Len(s) /\ (n + 1) - 1 = n OBVIOUS
    <2>3. f[n + 1] = f[n] + s[n + 1] BY <1>1, <2>2 DEF Sums, RunningSums
    <2>4. s[n + 1] \in Nat BY <2>2
    <2>q. QED BY <2>1, <2>3, <2>4
  <1> HIDE DEF T
  <1>4. \A n \in Nat : n \in T BY <1>2, <1>3, SetInduction
  <1>5. f[Len(s)] \in Nat BY <1>4 DEF T
  <1>q. QED BY <1>0, <1>1, <1>5, TotalIsLast

(* One more number at the end. *)
LEMMA TotalAppend ==
    ASSUME NEW s \in Seq(Int), NEW x \in Int
    PROVE  Total(Append(s, x)) = Total(s) + x
  <1> DEFINE t == Append(s, x)
  <1>1. /\ t \in Seq(Int) /\ Len(t) = Len(s) + 1 /\ t[Len(s) + 1] = x
        /\ \A i \in 1..Len(s) : t[i] = s[i]
    BY AppendProperties
  <1> HIDE DEF t
  <1>2. PICK f : Sums(s, f) BY SumsExist
  <1> DEFINE g == [i \in 0..(Len(s) + 1) |-> IF i <= Len(s) THEN f[i] ELSE f[Len(s)] + x]
  <1>3. Sums(t, g)
    <2>0. f \in [0..Len(s) -> Int] /\ f[Len(s)] + x \in Int
      BY <1>2 DEF Sums, RunningSums
    <2>1. g \in [0..Len(t) -> Int]
      <3>1. g \in [0..(Len(s) + 1) -> Int] BY <2>0
      <3>q. QED BY <1>1, <3>1
    <2>2. g[0] = 0 BY <1>2 DEF Sums, RunningSums
    <2>3. ASSUME NEW m \in 1..Len(t) PROVE g[m] = g[m - 1] + t[m]
      <3>1. CASE m <= Len(s)
        <4>1. m \in 1..Len(s) BY <3>1
        <4>2. g[m] = f[m] /\ g[m - 1] = f[m - 1] /\ t[m] = s[m]
          BY <1>1, <4>1
        <4>q. QED BY <1>2, <4>1, <4>2 DEF Sums, RunningSums
      <3>2. CASE m = Len(s) + 1
        <4>1. g[m] = f[Len(s)] + x /\ g[m - 1] = f[Len(s)] /\ t[m] = x
          BY <1>1, <3>2
        <4>q. QED BY <4>1
      <3>q. QED BY <1>1, <3>1, <3>2
    <2>q. QED BY <2>1, <2>2, <2>3 DEF Sums, RunningSums
  <1>4. Total(t) = g[Len(t)] BY <1>1, <1>3, TotalIsLast
  <1>5. g[Len(t)] = f[Len(s)] + x BY <1>1
  <1>6. Total(s) = f[Len(s)] BY <1>2, TotalIsLast
  <1>q. QED BY <1>4, <1>5, <1>6 DEF t

(* The first number and the sum of the others. *)
LEMMA TotalTail ==
    ASSUME NEW s \in Seq(Int), s # <<>>
    PROVE  Total(s) = s[1] + Total(Tail(s))
  <1> DEFINE t == Tail(s)
  <1>1. /\ t \in Seq(Int) /\ Len(s) >= 1 /\ Len(t) = Len(s) - 1
        /\ \A i \in 1..Len(t) : t[i] = s[i + 1]
    BY HeadTailProperties
  <1> HIDE DEF t
  <1>2. PICK f : Sums(s, f) BY SumsExist
  <1>3. /\ f \in [0..Len(s) -> Int] /\ f[0] = 0
        /\ \A m \in 1..Len(s) : f[m] = f[m - 1] + s[m]
    BY <1>2 DEF Sums, RunningSums
  <1>4. f[1] = s[1] /\ s[1] \in Int
    <2>1. 1 \in 1..Len(s) /\ 1 - 1 = 0 BY <1>1
    <2>2. s[1] \in Int BY <2>1
    <2>q. QED BY <1>3, <2>1, <2>2
  <1> DEFINE g == [i \in 0..Len(t) |-> f[i + 1] - s[1]]
  <1>5. Sums(t, g)
    <2>1. g \in [0..Len(t) -> Int]
      <3>1. ASSUME NEW i \in 0..Len(t) PROVE f[i + 1] - s[1] \in Int
        <4>1. i + 1 \in 0..Len(s) BY <1>1
        <4>2. f[i + 1] \in Int BY <1>3, <4>1
        <4>q. QED BY <1>4, <4>2
      <3>q. QED BY <3>1
    <2>2. g[0] = 0 BY <1>1, <1>4
    <2>3. ASSUME NEW m \in 1..Len(t) PROVE g[m] = g[m - 1] + t[m]
      <3>1. g[m] = f[m + 1] - s[1] /\ g[m - 1] = f[m] - s[1] /\ t[m] = s[m + 1]
        BY <1>1
      <3>2. m + 1 \in 1..Len(s) /\ (m + 1) - 1 = m BY <1>1
      <3>3. f[m + 1] = f[m] + s[m + 1] BY <1>3, <3>2
      <3>4. f[m] \in Int /\ s[m + 1] \in Int
        <4>1. m \in 0..Len(s) BY <1>1
        <4>q. QED BY <1>3, <3>2, <4>1
      <3>q. QED BY <1>4, <3>1, <3>3, <3>4
    <2>q. QED BY <2>1, <2>2, <2>3 DEF Sums, RunningSums
  <1>6. Total(t) = g[Len(t)] BY <1>1, <1>5, TotalIsLast
  <1>7. g[Len(t)] = f[Len(s)] - s[1] BY <1>1
  <1>8. Total(s) = f[Len(s)] BY <1>2, TotalIsLast
  <1>9. f[Len(s)] \in Int BY <1>1, <1>3
  <1>q. QED BY <1>4, <1>6, <1>7, <1>8, <1>9 DEF t

(* The first number changed. *)
LEMMA TotalAtFirst ==
    ASSUME NEW s \in Seq(Int), NEW t \in Seq(Int), NEW d \in Int,
           s # <<>>, Len(t) = Len(s), t[1] = s[1] + d,
           \A i \in 2..Len(s) : t[i] = s[i]
    PROVE  Total(t) = Total(s) + d
  <1>1. Len(s) \in Nat /\ Len(s) >= 1 /\ s[1] \in Int
    <2>1. Len(s) \in Nat /\ Len(s) >= 1 BY EmptySeq
    <2>2. 1 \in 1..Len(s) BY <2>1
    <2>q. QED BY <2>1, <2>2
  <1>2. PICK f : Sums(s, f) BY SumsExist
  <1>3. /\ f \in [0..Len(s) -> Int] /\ f[0] = 0
        /\ \A m \in 1..Len(s) : f[m] = f[m - 1] + s[m]
    BY <1>2 DEF Sums, RunningSums
  <1> DEFINE g == [i \in 0..Len(s) |-> IF i = 0 THEN 0 ELSE f[i] + d]
  <1>4. Sums(t, g)
    <2>1. g \in [0..Len(t) -> Int] BY <1>3
    <2>2. g[0] = 0 OBVIOUS
    <2>3. ASSUME NEW m \in 1..Len(t) PROVE g[m] = g[m - 1] + t[m]
      <3>0. f[m] = f[m - 1] + s[m] /\ f[m - 1] \in Int /\ s[m] \in Int
        <4>1. m \in 1..Len(s) /\ m - 1 \in 0..Len(s) BY <1>1
        <4>2. s[m] \in Int BY <4>1
        <4>3. f[m - 1] \in Int BY <1>3, <4>1
        <4>4. f[m] = f[m - 1] + s[m] BY <1>3, <4>1
        <4>q. QED BY <4>2, <4>3, <4>4
      <3>1. CASE m = 1
        <4>1. g[1] = f[1] + d /\ g[0] = 0 BY <1>1
        <4>2. f[1] = s[1] BY <1>1, <1>3, <3>0, <3>1
        <4>q. QED BY <1>1, <3>1, <4>1, <4>2
      <3>2. CASE m # 1
        <4>1. g[m] = f[m] + d /\ g[m - 1] = f[m - 1] + d /\ t[m] = s[m]
          BY <3>2
        <4>q. QED BY <3>0, <4>1
      <3>q. QED BY <3>1, <3>2
    <2>q. QED BY <2>1, <2>2, <2>3 DEF Sums, RunningSums
  <1>5. Total(t) = g[Len(t)] BY <1>4, TotalIsLast
  <1>6. g[Len(t)] = f[Len(s)] + d BY <1>1
  <1>7. Total(s) = f[Len(s)] BY <1>2, TotalIsLast
  <1>q. QED BY <1>5, <1>6, <1>7

(* The total of a part is the difference of two running sums. *)
LEMMA TotalSlice ==
    ASSUME NEW s \in Seq(Int), NEW f, Sums(s, f), NEW a \in 0..Len(s),
           NEW c \in a..Len(s)
    PROVE  Total(SubSeq(s, a + 1, c)) = f[c] - f[a]
  <1> DEFINE t == SubSeq(s, a + 1, c)
  <1>0. a \in Nat /\ c \in Nat /\ Len(s) \in Nat /\ a <= c /\ c <= Len(s)
    OBVIOUS
  <1>1. /\ t \in Seq(Int) /\ Len(t) = c - a
        /\ \A i \in 1..(c - a) : t[i] = s[a + i]
    BY <1>0
  <1>2. /\ f \in [0..Len(s) -> Int] /\ f[0] = 0
        /\ \A m \in 1..Len(s) : f[m] = f[m - 1] + s[m]
    BY DEF Sums, RunningSums
  <1> HIDE DEF t
  <1> DEFINE g == [i \in 0..(c - a) |-> f[a + i] - f[a]]
  <1>3. Sums(t, g)
    <2>1. g \in [0..(c - a) -> Int]
      <3>1. ASSUME NEW i \in 0..(c - a) PROVE f[a + i] - f[a] \in Int
        <4>1. a + i \in 0..Len(s) /\ a \in 0..Len(s) BY <1>0
        <4>2. f[a + i] \in Int /\ f[a] \in Int BY <1>2, <4>1
        <4>q. QED BY <4>2
      <3>q. QED BY <3>1
    <2>2. g[0] = 0
      <3>1. 0 \in 0..(c - a) /\ a + 0 = a /\ f[a] \in Int BY <1>0, <1>2
      <3>q. QED BY <3>1
    <2>3. ASSUME NEW m \in 1..(c - a) PROVE g[m] = g[m - 1] + t[m]
      <3>1. /\ a + m \in 1..Len(s) /\ (a + m) - 1 = a + (m - 1)
            /\ a + m \in 0..Len(s) /\ a + (m - 1) \in 0..Len(s) /\ a \in 0..Len(s)
        BY <1>0
      <3>2. f[a + m] = f[a + (m - 1)] + s[a + m] BY <1>2, <3>1
      <3>3. g[m] = f[a + m] - f[a] /\ g[m - 1] = f[a + (m - 1)] - f[a]
        BY <1>0
      <3>4. f[a + (m - 1)] \in Int /\ f[a] \in Int /\ s[a + m] \in Int
        <4>1. f[a + (m - 1)] \in Int /\ f[a] \in Int BY <1>2, <3>1
        <4>2. s[a + m] \in Int BY <3>1
        <4>q. QED BY <4>1, <4>2
      <3>5. t[m] = s[a + m] BY <1>1
      <3>q. QED BY <3>2, <3>3, <3>4, <3>5
    <2>q. QED BY <1>1, <2>1, <2>2, <2>3 DEF Sums, RunningSums
  <1>4. Total(t) = g[c - a] BY <1>1, <1>3, TotalIsLast
  <1>5. g[c - a] = f[c] - f[a]
    <2>1. c - a \in 0..(c - a) /\ a + (c - a) = c BY <1>0
    <2>q. QED BY <2>1
  <1>q. QED BY <1>4, <1>5 DEF t

-----------------------------------------------------------------------------
(* The order of a set. *)

(* In a finite set that R orders strictly and totally, each element has as   *)
(* many before it as its place says, and each place is taken.                *)
Before(a, S, R) == {b \in S : <<b, a>> \in R}

LEMMA Ranked ==
    ASSUME NEW S, IsFiniteSet(S), NEW R,
           \A a \in S : <<a, a>> \notin R,
           \A a, b \in S : a # b => <<a, b>> \in R \/ <<b, a>> \in R,
           \A a, b, c \in S : <<a, b>> \in R /\ <<b, c>> \in R => <<a, c>> \in R
    PROVE  /\ Cardinality(S) \in Nat
           /\ \A a \in S : Cardinality(Before(a, S, R)) \in 0..(Cardinality(S) - 1)
           /\ \A a, b \in S : <<a, b>> \in R =>
                Cardinality(Before(a, S, R)) < Cardinality(Before(b, S, R))
           /\ \A k \in 1..Cardinality(S) :
                \E a \in S : Cardinality(Before(a, S, R)) = k - 1
  <1> DEFINE n == Cardinality(S)
             rank == [a \in S |-> Cardinality(Before(a, S, R))]
  <1>1. n \in Nat BY FS_CardinalityType
  <1>2. ASSUME NEW a \in S
        PROVE  /\ IsFiniteSet(Before(a, S, R)) /\ rank[a] \in Nat
               /\ rank[a] <= n - 1
    <2>1. Before(a, S, R) \in SUBSET (S \ {a}) BY DEF Before
    <2>2. IsFiniteSet(S \ {a}) /\ Cardinality(S \ {a}) = n - 1
      BY FS_RemoveElement
    <2>3. /\ IsFiniteSet(Before(a, S, R))
          /\ Cardinality(Before(a, S, R)) <= n - 1
      BY <2>1, <2>2, FS_Subset
    <2>q. QED BY <2>3, FS_CardinalityType
  <1>3. ASSUME NEW a \in S, NEW b \in S, <<a, b>> \in R
        PROVE  rank[a] < rank[b]
    <2>1. Before(a, S, R) \in SUBSET Before(b, S, R)
      BY <1>3 DEF Before
    <2>2. a \in Before(b, S, R) /\ a \notin Before(a, S, R)
      BY <1>3 DEF Before
    <2>3. /\ Cardinality(Before(a, S, R)) <= Cardinality(Before(b, S, R))
          /\ Cardinality(Before(b, S, R)) # Cardinality(Before(a, S, R))
      BY <1>2, <2>1, <2>2, FS_Subset
    <2>4. rank[a] \in Nat /\ rank[b] \in Nat BY <1>2
    <2>q. QED BY <2>3, <2>4
  <1>4. rank \in [S -> 0..(n - 1)] BY <1>1, <1>2
  <1>5. \A a, b \in S : rank[a] = rank[b] => a = b
    <2>1. SUFFICES ASSUME NEW a \in S, NEW b \in S, rank[a] = rank[b], a # b
                   PROVE  FALSE
      OBVIOUS
    <2>2. rank[a] \in Nat /\ rank[b] \in Nat BY <1>2
    <2>3. <<a, b>> \in R \/ <<b, a>> \in R BY <2>1
    <2>q. QED BY <1>3, <2>1, <2>2, <2>3
  <1> HIDE DEF rank
  <1>6. rank \in Injection(S, 0..(n - 1))
    BY <1>4, <1>5 DEF Injection, IsInjective
  <1>7. IsFiniteSet(0..(n - 1)) /\ Cardinality(0..(n - 1)) = n
    <2>1. n - 1 \in Int /\ 0 \in Int BY <1>1
    <2>2. /\ IsFiniteSet(0..(n - 1))
          /\ Cardinality(0..(n - 1)) = IF 0 > n - 1 THEN 0 ELSE (n - 1) - 0 + 1
      BY <2>1, FS_Interval
    <2> HIDE DEF n
    <2>q. QED BY <1>1, <2>2
  <1>8. rank \in Surjection(S, 0..(n - 1))
    BY <1>6, <1>7, FS_Injection
  <1>9. ASSUME NEW k \in 1..n PROVE \E a \in S : rank[a] = k - 1
    <2>1. k - 1 \in 0..(n - 1) BY <1>1
    <2>q. QED BY <1>8, <2>1 DEF Surjection
  <1>10. \A a \in S : rank[a] = Cardinality(Before(a, S, R)) BY DEF rank
  <1>q. QED BY <1>1, <1>3, <1>4, <1>9, <1>10
=============================================================================
