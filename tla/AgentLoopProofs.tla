--------------------------- MODULE AgentLoopProofs ---------------------------
(***************************************************************************)
(* What AgentLoop promises, for any tools, replies, windows and bounds.    *)
(***************************************************************************)
EXTENDS AgentLoop, DataLemmas

-----------------------------------------------------------------------------
(* Sound, and what its calls weigh. *)

(* The first n steps of sifting a sequence of calls. *)
Sifted(calls, n, f) ==
    /\ f \in [0..n -> Seq(Calls)]
    /\ f[0] = <<>>
    /\ \A m \in 1..n : f[m] = IF calls[m] \in Malformed THEN f[m - 1]
                            ELSE Append(f[m - 1], calls[m])

LEMMA SiftedExist ==
    ASSUME NEW calls \in Seq(Calls) PROVE \E f : Sifted(calls, Len(calls), f)
  <1> DEFINE T == {n \in Nat : n <= Len(calls) => \E f : Sifted(calls, n, f)}
  <1>1. 0 \in T
    <2>1. Sifted(calls, 0, [i \in 0..0 |-> <<>>]) BY DEF Sifted
    <2>q. QED BY <2>1
  <1>2. ASSUME NEW n \in Nat, n \in T PROVE n + 1 \in T
    <2> SUFFICES ASSUME n + 1 <= Len(calls) PROVE \E f : Sifted(calls, n + 1, f)
      OBVIOUS
    <2>1. PICK f : Sifted(calls, n, f) BY <1>2
    <2> DEFINE next == IF calls[n + 1] \in Malformed THEN f[n]
                       ELSE Append(f[n], calls[n + 1])
               g == [i \in 0..(n + 1) |-> IF i <= n THEN f[i] ELSE next]
    <2>2. calls[n + 1] \in Calls OBVIOUS
    <2>3. f[n] \in Seq(Calls) BY <2>1 DEF Sifted
    <2>4. next \in Seq(Calls) BY <2>2, <2>3
    <2> HIDE DEF next
    <2>5. g \in [0..(n + 1) -> Seq(Calls)]
      <3>1. \A i \in 0..n : f[i] \in Seq(Calls) BY <2>1 DEF Sifted
      <3>q. QED BY <2>4, <3>1
    <2>6. g[0] = <<>> BY <2>1 DEF Sifted
    <2>7. ASSUME NEW m \in 1..(n + 1)
          PROVE  g[m] = IF calls[m] \in Malformed THEN g[m - 1]
                        ELSE Append(g[m - 1], calls[m])
      <3>1. CASE m <= n
        <4>1. g[m] = f[m] /\ g[m - 1] = f[m - 1] BY <3>1
        <4>q. QED BY <2>1, <3>1, <4>1 DEF Sifted
      <3>2. CASE m = n + 1
        <4>1. g[m] = next /\ g[m - 1] = f[n] BY <3>2
        <4>q. QED BY <3>2, <4>1 DEF next
      <3>q. QED BY <3>1, <3>2
    <2>q. QED BY <2>5, <2>6, <2>7 DEF Sifted
  <1> HIDE DEF T
  <1>3. \A n \in Nat : n \in T BY <1>1, <1>2, SetInduction
  <1>4. Len(calls) \in T BY <1>3
  <1>q. QED BY <1>4 DEF T

LEMMA SoundIsLast ==
    ASSUME NEW calls \in Seq(Calls), NEW f, Sifted(calls, Len(calls), f)
    PROVE  Sound(calls) = f[Len(calls)] /\ Sound(calls) \in Seq(Calls)
  <1>1. f = [n \in 0..Len(calls) |->
               IF n = 0 THEN <<>>
               ELSE IF calls[n] \in Malformed THEN f[n - 1]
               ELSE Append(f[n - 1], calls[n])]
    <2>1. f \in [0..Len(calls) -> Seq(Calls)] /\ f[0] = <<>> BY DEF Sifted
    <2>2. ASSUME NEW n \in 0..Len(calls), n # 0
          PROVE  f[n] = IF calls[n] \in Malformed THEN f[n - 1]
                        ELSE Append(f[n - 1], calls[n])
      <3>1. n \in 1..Len(calls) BY <2>2
      <3>q. QED BY <3>1 DEF Sifted
    <2>3. \A n \in 0..Len(calls) :
            f[n] = IF n = 0 THEN <<>>
                   ELSE IF calls[n] \in Malformed THEN f[n - 1]
                   ELSE Append(f[n - 1], calls[n])
      BY <2>1, <2>2
    <2>q. QED BY <2>1, <2>3
  <1>2. PICK g : /\ g = [n \in 0..Len(calls) |->
                          IF n = 0 THEN <<>>
                          ELSE IF calls[n] \in Malformed THEN g[n - 1]
                          ELSE Append(g[n - 1], calls[n])]
                 /\ Sound(calls) = g[Len(calls)]
    BY <1>1 DEF Sound
  <1> DEFINE T == {n \in Nat : n <= Len(calls) => g[n] = f[n]}
  <1>3. 0 \in T BY <1>1, <1>2
  <1>4. ASSUME NEW n \in Nat, n \in T PROVE n + 1 \in T
    <2> SUFFICES ASSUME n + 1 <= Len(calls) PROVE g[n + 1] = f[n + 1]
      OBVIOUS
    <2>1. g[n] = f[n] BY <1>4
    <2>2. n + 1 \in 0..Len(calls) /\ n + 1 # 0 /\ (n + 1) - 1 = n OBVIOUS
    <2>3. g[n + 1] = IF calls[n + 1] \in Malformed THEN g[n]
                     ELSE Append(g[n], calls[n + 1]) BY <1>2, <2>2
    <2>4. f[n + 1] = IF calls[n + 1] \in Malformed THEN f[n]
                     ELSE Append(f[n], calls[n + 1]) BY <1>1, <2>2
    <2>q. QED BY <2>1, <2>3, <2>4
  <1> HIDE DEF T
  <1>5. \A n \in Nat : n \in T BY <1>3, <1>4, SetInduction
  <1>6. Len(calls) \in T /\ Len(calls) \in 0..Len(calls) BY <1>5
  <1>7. g[Len(calls)] = f[Len(calls)] BY <1>6 DEF T
  <1>q. QED BY <1>2, <1>6, <1>7 DEF Sifted

LEMMA SoundType ==
    ASSUME NEW calls \in Seq(Calls) PROVE Sound(calls) \in Seq(Calls)
  BY SiftedExist, SoundIsLast

(* The sizes of the arguments of a sequence of calls. *)
ArgsOf(calls) == [i \in DOMAIN calls |-> ArgSize[calls[i]]]

LEMMA ArgsOfType ==
    ASSUME NEW calls \in Seq(Calls)
    PROVE  /\ ArgsOf(calls) \in Seq(Nat) /\ ArgsOf(calls) \in Seq(Int)
           /\ Len(ArgsOf(calls)) = Len(calls)
           /\ \A i \in 1..Len(calls) : /\ ArgsOf(calls)[i] = ArgSize[calls[i]]
                                       /\ ArgSize[calls[i]] \in Nat
  <1>1. \A i \in 1..Len(calls) : ArgSize[calls[i]] \in Nat
    BY AgentAssumption
  <1>2. ArgsOf(calls) \in [1..Len(calls) -> Nat] BY <1>1 DEF ArgsOf
  <1>q. QED BY <1>1, <1>2, FcnIsSeq DEF ArgsOf

(* What the ledger counts of them. *)
HeardOf(calls) == [i \in DOMAIN calls |-> Heard(calls[i])]

LEMMA HeardType == ASSUME NEW c \in Calls PROVE Heard(c) \in Nat
  BY AgentAssumption DEF Heard

LEMMA HeardOfType ==
    ASSUME NEW calls \in Seq(Calls)
    PROVE  /\ HeardOf(calls) \in Seq(Nat) /\ HeardOf(calls) \in Seq(Int)
           /\ Len(HeardOf(calls)) = Len(calls)
           /\ \A i \in 1..Len(calls) : HeardOf(calls)[i] = Heard(calls[i])
  <1>1. \A i \in 1..Len(calls) : calls[i] \in Calls OBVIOUS
  <1>2. \A i \in 1..Len(calls) : Heard(calls[i]) \in Nat BY <1>1, HeardType
  <1>3. HeardOf(calls) \in [1..Len(calls) -> Nat] BY <1>2 DEF HeardOf
  <1>q. QED BY <1>3, FcnIsSeq DEF HeardOf

LEMMA HeardOfAppend ==
    ASSUME NEW calls \in Seq(Calls), NEW c \in Calls
    PROVE  Total(HeardOf(Append(calls, c))) = Total(HeardOf(calls)) + Heard(c)
  <1> DEFINE d == Append(calls, c)
             b == Append(HeardOf(calls), Heard(c))
  <1>1. /\ d \in Seq(Calls) /\ Len(d) = Len(calls) + 1 /\ d[Len(calls) + 1] = c
        /\ \A i \in 1..Len(calls) : d[i] = calls[i]
    BY AppendProperties
  <1>2. /\ HeardOf(calls) \in Seq(Int) /\ Len(HeardOf(calls)) = Len(calls)
        /\ \A i \in 1..Len(calls) : HeardOf(calls)[i] = Heard(calls[i])
    BY HeardOfType
  <1>3. Heard(c) \in Int
    <2>1. Heard(c) \in Nat BY HeardType
    <2>q. QED BY <2>1
  <1>4. /\ b \in Seq(Int) /\ Len(b) = Len(calls) + 1 /\ b[Len(calls) + 1] = Heard(c)
        /\ \A i \in 1..Len(calls) : b[i] = HeardOf(calls)[i]
    BY <1>2, <1>3, AppendProperties
  <1>5. Total(b) = Total(HeardOf(calls)) + Heard(c) BY <1>2, <1>3, TotalAppend
  <1>6. Len(calls) \in Nat OBVIOUS
  <1> HIDE DEF d, b
  <1>7. /\ HeardOf(d) \in Seq(Int) /\ Len(HeardOf(d)) = Len(d)
        /\ \A i \in 1..Len(d) : HeardOf(d)[i] = Heard(d[i])
    BY <1>1, HeardOfType
  <1>8. ASSUME NEW i \in 1..Len(b) PROVE HeardOf(d)[i] = b[i]
    <2>1. i \in 1..Len(d) /\ (i = Len(calls) + 1 \/ i \in 1..Len(calls))
      BY <1>1, <1>4, <1>6
    <2>2. HeardOf(d)[i] = Heard(d[i]) BY <1>7, <2>1
    <2>3. CASE i = Len(calls) + 1 BY <1>1, <1>4, <2>2, <2>3
    <2>4. CASE i \in 1..Len(calls)
      <3>1. b[i] = Heard(calls[i]) BY <1>2, <1>4, <2>4
      <3>2. d[i] = calls[i] BY <1>1, <2>4
      <3>q. QED BY <2>2, <3>1, <3>2
    <2>q. QED BY <2>1, <2>3, <2>4
  <1>9. HeardOf(d) = b BY <1>1, <1>4, <1>7, <1>8, SeqEqual
  <1>q. QED BY <1>5, <1>9 DEF d

(* What the ledger hears of and what it does not make up the whole. *)
LEMMA SoundWeighs ==
    ASSUME NEW calls \in Seq(Calls)
    PROVE  /\ Total(HeardOf(Sound(calls))) + Unheard(calls) = Total(ArgsOf(calls))
           /\ Unheard(calls) \in Nat
           /\ Total(ArgsOf(calls)) \in Nat /\ Total(HeardOf(Sound(calls))) \in Nat
  <1> DEFINE un == [i \in 1..Len(calls) |->
                      IF calls[i] \in Malformed \cup Undecodable THEN ArgSize[calls[i]] ELSE 0]
  <1>1. \A i \in 1..Len(calls) : calls[i] \in Calls /\ ArgSize[calls[i]] \in Nat
    BY AgentAssumption
  <1>2. un \in Seq(Nat) /\ Len(un) = Len(calls) /\ un \in Seq(Int)
    <2>1. un \in [1..Len(calls) -> Nat] BY <1>1
    <2>q. QED BY <2>1, FcnIsSeq
  <1>3. Unheard(calls) = Total(un)
    <2> DEFINE it == [i \in DOMAIN calls |->
                        [size |-> IF calls[i] \in Malformed \cup Undecodable THEN ArgSize[calls[i]] ELSE 0]]
    <2>1. [i \in DOMAIN it |-> it[i].size] = un OBVIOUS
    <2>q. QED BY <2>1 DEF Unheard, Sizes
  <1>4. \A i \in 1..Len(calls) :
           un[i] = IF calls[i] \in Malformed \cup Undecodable THEN ArgSize[calls[i]] ELSE 0
    OBVIOUS
  <1> HIDE DEF un
  <1>5. PICK f : Sifted(calls, Len(calls), f) BY SiftedExist
  <1>6. /\ f \in [0..Len(calls) -> Seq(Calls)] /\ f[0] = <<>>
        /\ \A m \in 1..Len(calls) :
             f[m] = IF calls[m] \in Malformed THEN f[m - 1]
                    ELSE Append(f[m - 1], calls[m])
    BY <1>5 DEF Sifted
  <1>7. PICK u : Sums(un, u) BY <1>2, SumsExist
  <1>8. /\ u \in [0..Len(calls) -> Int] /\ u[0] = 0
        /\ \A m \in 1..Len(calls) : u[m] = u[m - 1] + un[m]
    BY <1>2, <1>7 DEF Sums, RunningSums
  <1>9. /\ ArgsOf(calls) \in Seq(Int) /\ Len(ArgsOf(calls)) = Len(calls)
        /\ ArgsOf(calls) \in Seq(Nat)
        /\ \A i \in 1..Len(calls) : ArgsOf(calls)[i] = ArgSize[calls[i]]
    BY ArgsOfType
  <1>10. PICK a : Sums(ArgsOf(calls), a) BY <1>9, SumsExist
  <1>11. /\ a \in [0..Len(calls) -> Int] /\ a[0] = 0
         /\ \A m \in 1..Len(calls) : a[m] = a[m - 1] + ArgSize[calls[m]]
    BY <1>9, <1>10 DEF Sums, RunningSums
  <1> DEFINE T == {n \in Nat : n <= Len(calls) => Total(HeardOf(f[n])) + u[n] = a[n]}
  <1>12. 0 \in T
    <2>1. HeardOf(<<>>) = <<>> BY DEF HeardOf
    <2>q. QED BY <1>6, <1>8, <1>11, <2>1, TotalEmpty
  <1>13. ASSUME NEW n \in Nat, n \in T PROVE n + 1 \in T
    <2> SUFFICES ASSUME n + 1 <= Len(calls)
                 PROVE  Total(HeardOf(f[n + 1])) + u[n + 1] = a[n + 1]
      OBVIOUS
    <2> DEFINE c == calls[n + 1]  k == f[n]
    <2>1. n + 1 \in 1..Len(calls) /\ (n + 1) - 1 = n /\ n \in 0..Len(calls) OBVIOUS
    <2>2. k \in Seq(Calls) /\ c \in Calls /\ ArgSize[c] \in Nat
      BY <1>1, <1>6, <2>1
    <2>3. a[n + 1] = a[n] + ArgSize[c] /\ a[n] \in Int BY <1>11, <2>1
    <2>4. u[n + 1] = u[n] + un[n + 1] /\ u[n] \in Int BY <1>8, <2>1
    <2>5. un[n + 1] = IF c \in Malformed \cup Undecodable THEN ArgSize[c] ELSE 0
      BY <1>4, <2>1
    <2>6. f[n + 1] = IF c \in Malformed THEN k ELSE Append(k, c) BY <1>6, <2>1
    <2>7. Total(HeardOf(k)) + u[n] = a[n] BY <1>13
    <2> HIDE DEF c, k
    <2>8. Total(HeardOf(k)) \in Int BY <2>2, HeardOfType, TotalType
    <2>9. CASE c \in Malformed
      <3>1. f[n + 1] = k /\ u[n + 1] = u[n] + ArgSize[c] BY <2>4, <2>5, <2>6, <2>9
      <3>q. QED BY <2>2, <2>3, <2>4, <2>7, <2>8, <3>1
    <2>10. CASE c \notin Malformed
      <3>1. f[n + 1] = Append(k, c) BY <2>6, <2>10
      <3>3. un[n + 1] + Heard(c) = ArgSize[c] BY <2>2, <2>5, <2>10 DEF Heard
      <3>4. Heard(c) \in Int /\ un[n + 1] \in Int BY <2>2, <2>5 DEF Heard
      <3>2. Total(HeardOf(Append(k, c))) = Total(HeardOf(k)) + Heard(c)
        BY <2>2, HeardOfAppend
      <3>q. QED BY <2>2, <2>3, <2>4, <2>7, <2>8, <3>1, <3>2, <3>3, <3>4
    <2>q. QED BY <2>9, <2>10
  <1> HIDE DEF T
  <1>14. \A n \in Nat : n \in T BY <1>12, <1>13, SetInduction
  <1>15. Total(HeardOf(f[Len(calls)])) + u[Len(calls)] = a[Len(calls)]
    <2>1. Len(calls) \in T BY <1>14
    <2>q. QED BY <2>1 DEF T
  <1>16. Sound(calls) = f[Len(calls)] /\ Sound(calls) \in Seq(Calls)
    BY <1>5, SoundIsLast
  <1>17. Total(un) = u[Len(calls)] BY <1>2, <1>7, TotalIsLast
  <1>18. Total(ArgsOf(calls)) = a[Len(calls)] BY <1>9, <1>10, TotalIsLast
  <1>19. Total(un) \in Nat /\ Total(ArgsOf(calls)) \in Nat BY <1>2, <1>9, TotalNat
  <1>20. Total(HeardOf(Sound(calls))) \in Nat BY <1>16, HeardOfType, TotalNat
  <1>q. QED BY <1>3, <1>15, <1>16, <1>17, <1>18, <1>19, <1>20

-----------------------------------------------------------------------------
(* Sizes and positions in a conversation. *)

LEMMA TotalLeq ==
    ASSUME NEW s \in Seq(Int), NEW t \in Seq(Int), Len(t) = Len(s),
           \A i \in 1..Len(s) : t[i] <= s[i]
    PROVE  Total(t) <= Total(s)
  <1>1. PICK f : Sums(s, f) BY SumsExist
  <1>2. PICK g : Sums(t, g) BY SumsExist
  <1>3. /\ f \in [0..Len(s) -> Int] /\ f[0] = 0
        /\ \A m \in 1..Len(s) : f[m] = f[m - 1] + s[m]
    BY <1>1 DEF Sums, RunningSums
  <1>4. /\ g \in [0..Len(s) -> Int] /\ g[0] = 0
        /\ \A m \in 1..Len(s) : g[m] = g[m - 1] + t[m]
    BY <1>2 DEF Sums, RunningSums
  <1> DEFINE T == {n \in Nat : n <= Len(s) => g[n] <= f[n]}
  <1>5. 0 \in T BY <1>3, <1>4
  <1>6. ASSUME NEW n \in Nat, n \in T PROVE n + 1 \in T
    <2> SUFFICES ASSUME n + 1 <= Len(s) PROVE g[n + 1] <= f[n + 1]
      OBVIOUS
    <2>1. n + 1 \in 1..Len(s) /\ (n + 1) - 1 = n /\ n \in 0..Len(s) OBVIOUS
    <2>2. s[n + 1] \in Int /\ t[n + 1] \in Int /\ t[n + 1] <= s[n + 1] BY <2>1
    <2>3. f[n] \in Int /\ g[n] \in Int BY <1>3, <1>4, <2>1
    <2>4. f[n + 1] = f[n] + s[n + 1] /\ g[n + 1] = g[n] + t[n + 1]
      BY <1>3, <1>4, <2>1
    <2>5. g[n] <= f[n] BY <1>6
    <2>q. QED BY <2>2, <2>3, <2>4, <2>5
  <1> HIDE DEF T
  <1>7. \A n \in Nat : n \in T BY <1>5, <1>6, SetInduction
  <1>8. g[Len(s)] <= f[Len(s)]
    <2>1. Len(s) \in T BY <1>7
    <2>q. QED BY <2>1 DEF T
  <1>q. QED BY <1>1, <1>2, <1>8, TotalIsLast

LEMMA MinOfTwo ==
    ASSUME NEW a \in Int, NEW b \in Int
    PROVE  Min({a, b}) <= a /\ Min({a, b}) <= b /\ Min({a, b}) \in {a, b}
  <1>1. CASE a <= b
    <2>1. a \in {a, b} /\ \A y \in {a, b} : a <= y BY <1>1
    <2>q. QED BY <2>1 DEF Min
  <1>2. CASE b <= a
    <2>1. b \in {a, b} /\ \A y \in {a, b} : b <= y BY <1>2
    <2>q. QED BY <2>1 DEF Min
  <1>q. QED BY <1>1, <1>2

LEMMA MaxOfTwo ==
    ASSUME NEW a \in Int, NEW b \in Int PROVE Max({a, b}) \in {a, b}
  <1>1. CASE a <= b
    <2>1. b \in {a, b} /\ \A y \in {a, b} : b >= y BY <1>1
    <2>q. QED BY <2>1 DEF Max
  <1>2. CASE b <= a
    <2>1. a \in {a, b} /\ \A y \in {a, b} : a >= y BY <1>2
    <2>q. QED BY <2>1 DEF Max
  <1>q. QED BY <1>1, <1>2

(* The sizes of items, as a sequence. *)
Weights(items) == [i \in DOMAIN items |-> items[i].size]

LEMMA WeightsType ==
    ASSUME NEW items \in Seq(Item)
    PROVE  /\ Weights(items) \in Seq(Nat) /\ Weights(items) \in Seq(Int)
           /\ Len(Weights(items)) = Len(items)
           /\ \A i \in 1..Len(items) : /\ Weights(items)[i] = items[i].size
                                       /\ items[i].size \in Nat
           /\ Sizes(items) = Total(Weights(items)) /\ Sizes(items) \in Nat
  <1>1. ASSUME NEW i \in 1..Len(items) PROVE items[i].size \in Nat
    <2>1. items[i] \in Item OBVIOUS
    <2>q. QED BY <2>1 DEF Item
  <1>2. Weights(items) \in [1..Len(items) -> Nat] BY <1>1 DEF Weights
  <1>3. /\ Weights(items) \in Seq(Nat) /\ Weights(items) \in Seq(Int)
        /\ Len(Weights(items)) = Len(items)
    BY <1>2, FcnIsSeq
  <1>4. \A i \in 1..Len(items) : Weights(items)[i] = items[i].size BY DEF Weights
  <1>5. Sizes(items) = Total(Weights(items)) BY DEF Sizes, Weights
  <1>6. Total(Weights(items)) \in Nat BY <1>3, TotalNat
  <1>q. QED BY <1>1, <1>3, <1>4, <1>5, <1>6

LEMMA SizesAppend ==
    ASSUME NEW items \in Seq(Item), NEW item \in Item
    PROVE  Sizes(Append(items, item)) = Sizes(items) + item.size
  <1> DEFINE all == Append(items, item)
             b == Append(Weights(items), item.size)
  <1>0. item.size \in Nat BY DEF Item
  <1>1. /\ all \in Seq(Item) /\ Len(all) = Len(items) + 1 /\ all[Len(items) + 1] = item
        /\ \A i \in 1..Len(items) : all[i] = items[i]
    BY AppendProperties
  <1>2. /\ Weights(items) \in Seq(Int) /\ Len(Weights(items)) = Len(items)
        /\ \A i \in 1..Len(items) : Weights(items)[i] = items[i].size
        /\ Sizes(items) = Total(Weights(items))
    BY WeightsType
  <1>3. /\ b \in Seq(Int) /\ Len(b) = Len(items) + 1 /\ b[Len(items) + 1] = item.size
        /\ \A i \in 1..Len(items) : b[i] = Weights(items)[i]
    BY <1>0, <1>2, AppendProperties
  <1>4. Total(b) = Sizes(items) + item.size BY <1>0, <1>2, TotalAppend
  <1>5. Len(items) \in Nat OBVIOUS
  <1> HIDE DEF all, b
  <1>6. /\ Weights(all) \in Seq(Int) /\ Len(Weights(all)) = Len(all)
        /\ \A i \in 1..Len(all) : Weights(all)[i] = all[i].size
        /\ Sizes(all) = Total(Weights(all))
    BY <1>1, WeightsType
  <1>7. ASSUME NEW i \in 1..Len(b) PROVE Weights(all)[i] = b[i]
    <2>1. i \in 1..Len(all) /\ (i = Len(items) + 1 \/ i \in 1..Len(items))
      BY <1>1, <1>3, <1>5
    <2>2. Weights(all)[i] = all[i].size BY <1>6, <2>1
    <2>3. CASE i = Len(items) + 1 BY <1>1, <1>3, <2>2, <2>3
    <2>4. CASE i \in 1..Len(items)
      <3>1. b[i] = items[i].size BY <1>2, <1>3, <2>4
      <3>2. all[i] = items[i] BY <1>1, <2>4
      <3>q. QED BY <2>2, <3>1, <3>2
    <2>q. QED BY <2>1, <2>3, <2>4
  <1>8. Weights(all) = b BY <1>1, <1>3, <1>6, <1>7, SeqEqual
  <1>q. QED BY <1>4, <1>6, <1>8 DEF all

(* The sizes of messages, as a sequence. *)
Heights(messages) == [m \in DOMAIN messages |-> Sizes(messages[m].items)]

LEMMA HeightsType ==
    ASSUME NEW messages \in Seq(Message)
    PROVE  /\ Heights(messages) \in Seq(Nat) /\ Heights(messages) \in Seq(Int)
           /\ Len(Heights(messages)) = Len(messages)
           /\ \A m \in 1..Len(messages) :
                /\ Heights(messages)[m] = Sizes(messages[m].items)
                /\ Sizes(messages[m].items) \in Nat
           /\ Size(messages) = Total(Heights(messages)) /\ Size(messages) \in Nat
  <1>1. ASSUME NEW m \in 1..Len(messages) PROVE Sizes(messages[m].items) \in Nat
    <2>1. messages[m] \in Message OBVIOUS
    <2>2. messages[m].items \in Seq(Item) BY <2>1 DEF Message
    <2>q. QED BY <2>2, WeightsType
  <1>2. Heights(messages) \in [1..Len(messages) -> Nat] BY <1>1 DEF Heights
  <1>3. /\ Heights(messages) \in Seq(Nat) /\ Heights(messages) \in Seq(Int)
        /\ Len(Heights(messages)) = Len(messages)
    BY <1>2, FcnIsSeq
  <1>4. \A m \in 1..Len(messages) : Heights(messages)[m] = Sizes(messages[m].items)
    BY DEF Heights
  <1>5. Size(messages) = Total(Heights(messages)) BY DEF Size, Heights
  <1>6. Total(Heights(messages)) \in Nat BY <1>3, TotalNat
  <1>q. QED BY <1>1, <1>3, <1>4, <1>5, <1>6

LEMMA SizeAppend ==
    ASSUME NEW messages \in Seq(Message), NEW message \in Message
    PROVE  Size(Append(messages, message)) = Size(messages) + Sizes(message.items)
  <1> DEFINE all == Append(messages, message)
             b == Append(Heights(messages), Sizes(message.items))
  <1>0. Sizes(message.items) \in Nat
    <2>1. message.items \in Seq(Item) BY DEF Message
    <2>q. QED BY <2>1, WeightsType
  <1>1. /\ all \in Seq(Message) /\ Len(all) = Len(messages) + 1
        /\ all[Len(messages) + 1] = message
        /\ \A m \in 1..Len(messages) : all[m] = messages[m]
    BY AppendProperties
  <1>2. /\ Heights(messages) \in Seq(Int) /\ Len(Heights(messages)) = Len(messages)
        /\ \A m \in 1..Len(messages) : Heights(messages)[m] = Sizes(messages[m].items)
        /\ Size(messages) = Total(Heights(messages))
    BY HeightsType
  <1>3. /\ b \in Seq(Int) /\ Len(b) = Len(messages) + 1
        /\ b[Len(messages) + 1] = Sizes(message.items)
        /\ \A m \in 1..Len(messages) : b[m] = Heights(messages)[m]
    BY <1>0, <1>2, AppendProperties
  <1>4. Total(b) = Size(messages) + Sizes(message.items) BY <1>0, <1>2, TotalAppend
  <1>5. Len(messages) \in Nat OBVIOUS
  <1> HIDE DEF all, b
  <1>6. /\ Heights(all) \in Seq(Int) /\ Len(Heights(all)) = Len(all)
        /\ \A m \in 1..Len(all) : Heights(all)[m] = Sizes(all[m].items)
        /\ Size(all) = Total(Heights(all))
    BY <1>1, HeightsType
  <1>7. ASSUME NEW m \in 1..Len(b) PROVE Heights(all)[m] = b[m]
    <2>1. m \in 1..Len(all) /\ (m = Len(messages) + 1 \/ m \in 1..Len(messages))
      BY <1>1, <1>3, <1>5
    <2>2. Heights(all)[m] = Sizes(all[m].items) BY <1>6, <2>1
    <2>3. CASE m = Len(messages) + 1 BY <1>1, <1>3, <2>2, <2>3
    <2>4. CASE m \in 1..Len(messages)
      <3>1. b[m] = Sizes(messages[m].items) BY <1>2, <1>3, <2>4
      <3>2. all[m] = messages[m] BY <1>1, <2>4
      <3>q. QED BY <2>2, <3>1, <3>2
    <2>q. QED BY <2>1, <2>3, <2>4
  <1>8. Heights(all) = b BY <1>1, <1>3, <1>6, <1>7, SeqEqual
  <1>q. QED BY <1>4, <1>6, <1>8 DEF all

(* How many items of its role each message after m has. *)
Later(messages, m) ==
    [n \in DOMAIN messages |->
       IF n > m /\ messages[n].role = messages[m].role
       THEN Len(messages[n].items) ELSE 0]

LEMMA AfterFacts ==
    ASSUME NEW messages \in Seq(Message), NEW m \in 1..Len(messages), NEW i \in Int
    PROVE  /\ Later(messages, m) \in Seq(Int)
           /\ Len(Later(messages, m)) = Len(messages)
           /\ After(messages, m, i) = Len(messages[m].items) - i + Total(Later(messages, m))
           /\ Total(Later(messages, m)) \in Nat /\ After(messages, m, i) \in Int
  <1>1. \A n \in 1..Len(messages) : Len(messages[n].items) \in Nat
    BY DEF Message
  <1>2. Later(messages, m) \in [1..Len(messages) -> Nat]
    BY <1>1 DEF Later
  <1>3. /\ Later(messages, m) \in Seq(Int) /\ Later(messages, m) \in Seq(Nat)
        /\ Len(Later(messages, m)) = Len(messages)
    BY <1>2, FcnIsSeq
  <1>4. Total(Later(messages, m)) \in Nat BY <1>3, TotalNat
  <1>5. After(messages, m, i) = Len(messages[m].items) - i + Total(Later(messages, m))
    BY DEF After, Later
  <1>q. QED BY <1>1, <1>3, <1>4, <1>5

(* More messages, more items after each. *)
LEMMA AfterAppend ==
    ASSUME NEW messages \in Seq(Message), NEW message \in Message,
           NEW m \in 1..Len(messages), NEW i \in Int
    PROVE  After(Append(messages, message), m, i) >= After(messages, m, i)
  <1> DEFINE all == Append(messages, message)
             x == IF message.role = messages[m].role THEN Len(message.items) ELSE 0
             b == Append(Later(messages, m), x)
  <1>0. x \in Nat /\ x \in Int
    <2>1. message.items \in Seq(Item) BY DEF Message
    <2>q. QED BY <2>1
  <1>1. /\ all \in Seq(Message) /\ Len(all) = Len(messages) + 1
        /\ all[Len(messages) + 1] = message
        /\ \A n \in 1..Len(messages) : all[n] = messages[n]
    BY AppendProperties
  <1>2. Len(messages) \in Nat OBVIOUS
  <1>3. /\ Later(messages, m) \in Seq(Int) /\ Len(Later(messages, m)) = Len(messages)
        /\ Total(Later(messages, m)) \in Nat
        /\ After(messages, m, i) = Len(messages[m].items) - i + Total(Later(messages, m))
        /\ After(messages, m, i) \in Int
    BY AfterFacts
  <1>9. x = IF message.role = messages[m].role THEN Len(message.items) ELSE 0
    OBVIOUS
  <1> HIDE DEF x
  <1>4. /\ b \in Seq(Int) /\ Len(b) = Len(messages) + 1 /\ b[Len(messages) + 1] = x
        /\ \A n \in 1..Len(messages) : b[n] = Later(messages, m)[n]
    BY <1>0, <1>3, AppendProperties
  <1>5. Total(b) = Total(Later(messages, m)) + x BY <1>0, <1>3, TotalAppend
  <1> HIDE DEF all, b
  <1>6. m \in 1..Len(all) BY <1>1, <1>2
  <1>7. /\ Later(all, m) \in Seq(Int) /\ Len(Later(all, m)) = Len(all)
        /\ After(all, m, i) = Len(all[m].items) - i + Total(Later(all, m))
    BY <1>1, <1>6, AfterFacts
  <1>8. ASSUME NEW n \in 1..Len(b) PROVE Later(all, m)[n] = b[n]
    <2>0. DOMAIN all = 1..Len(all) BY <1>1
    <2>1. n \in DOMAIN all /\ (n = Len(messages) + 1 \/ n \in 1..Len(messages))
      <3>1. Len(messages) \in Nat /\ n \in 1..(Len(messages) + 1) BY <1>4, <1>8
      <3>2. Len(all) = Len(messages) + 1 BY <1>1
      <3>3. n \in 1..Len(all) BY <3>1, <3>2
      <3>4. n = Len(messages) + 1 \/ n \in 1..Len(messages) BY <3>1
      <3>q. QED BY <2>0, <3>3, <3>4
    <2>2. Later(all, m)[n] = IF n > m /\ all[n].role = all[m].role
                             THEN Len(all[n].items) ELSE 0
      BY <2>1 DEF Later
    <2>3. CASE n = Len(messages) + 1
      <3>1. n > m /\ all[n] = message /\ all[m] = messages[m] BY <1>1, <1>2, <2>3
      <3>q. QED BY <1>4, <1>9, <2>2, <2>3, <3>1
    <2>4. CASE n \in 1..Len(messages)
      <3>1. all[n] = messages[n] /\ all[m] = messages[m] BY <1>1, <2>4
      <3>2. b[n] = IF n > m /\ messages[n].role = messages[m].role
                   THEN Len(messages[n].items) ELSE 0
        <4>1. n \in DOMAIN messages BY <2>4
        <4>2. b[n] = Later(messages, m)[n] BY <1>4, <2>4
        <4>q. QED BY <4>1, <4>2 DEF Later
      <3>q. QED BY <2>2, <3>1, <3>2
    <2>q. QED BY <2>1, <2>3, <2>4
  <1>10. Later(all, m) = b BY <1>1, <1>4, <1>7, <1>8, SeqEqual
  <1>11. all[m] = messages[m] BY <1>1
  <1>12. Len(messages[m].items) \in Nat BY DEF Message
  <1>13. After(all, m, i) = After(messages, m, i) + x
    BY <1>0, <1>3, <1>5, <1>7, <1>10, <1>11, <1>12
  <1>q. QED BY <1>0, <1>3, <1>13 DEF all

(* Notes on the first item. *)
LEMMA SizesFirst ==
    ASSUME NEW items \in Seq(Item), NEW d \in Nat, items # <<>>
    PROVE  /\ [items EXCEPT ![1].size = @ + d] \in Seq(Item)
           /\ Len([items EXCEPT ![1].size = @ + d]) = Len(items)
           /\ Sizes([items EXCEPT ![1].size = @ + d]) = Sizes(items) + d
           /\ \A i \in 1..Len(items) :
                /\ [items EXCEPT ![1].size = @ + d][i].call = items[i].call
                /\ [items EXCEPT ![1].size = @ + d][i].stub = items[i].stub
  <1> DEFINE b == [items EXCEPT ![1].size = @ + d]
  <1>1. Len(items) \in Nat /\ 1 \in 1..Len(items) /\ items[1] \in Item
    <2>1. Len(items) \in Nat /\ Len(items) # 0 BY EmptySeq
    <2>2. 1 \in 1..Len(items) BY <2>1
    <2>q. QED BY <2>1, <2>2
  <1>2. /\ DOMAIN b = 1..Len(items) /\ b \in [1..Len(items) -> Item]
        /\ b[1].size = items[1].size + d
        /\ \A i \in 2..Len(items) : b[i] = items[i]
        /\ b[1].call = items[1].call /\ b[1].stub = items[1].stub
    <2>1. items[1] = [call |-> items[1].call, size |-> items[1].size, stub |-> items[1].stub]
          /\ items[1].call \in Calls /\ items[1].size \in Nat /\ items[1].stub \in BOOLEAN
      BY <1>1 DEF Item
    <2>2. b = [i \in 1..Len(items) |->
                 IF i = 1 THEN [items[1] EXCEPT !.size = @ + d] ELSE items[i]]
      BY <1>1
    <2>3. [items[1] EXCEPT !.size = @ + d]
            = [call |-> items[1].call, size |-> items[1].size + d, stub |-> items[1].stub]
      BY <2>1
    <2>4. [items[1] EXCEPT !.size = @ + d] \in Item BY <2>1, <2>3 DEF Item
    <2>5. \A i \in 1..Len(items) : items[i] \in Item OBVIOUS
    <2> HIDE DEF b
    <2>6. b[1] = [call |-> items[1].call, size |-> items[1].size + d, stub |-> items[1].stub]
      BY <1>1, <2>2, <2>3
    <2>7. \A i \in 2..Len(items) : b[i] = items[i] BY <2>2
    <2>8. b \in [1..Len(items) -> Item] BY <2>2, <2>4, <2>5
    <2>q. QED BY <2>2, <2>6, <2>7, <2>8
  <1> HIDE DEF b
  <1>3. b \in Seq(Item) /\ Len(b) = Len(items) BY <1>1, <1>2, FcnIsSeq
  <1>4. \A i \in 1..Len(items) : b[i].call = items[i].call /\ b[i].stub = items[i].stub
    BY <1>2
  <1>5. /\ Weights(items) \in Seq(Int) /\ Len(Weights(items)) = Len(items)
        /\ \A i \in 1..Len(items) : Weights(items)[i] = items[i].size
        /\ Sizes(items) = Total(Weights(items))
    BY WeightsType
  <1>6. /\ Weights(b) \in Seq(Int) /\ Len(Weights(b)) = Len(b)
        /\ \A i \in 1..Len(b) : Weights(b)[i] = b[i].size
        /\ Sizes(b) = Total(Weights(b))
    BY <1>3, WeightsType
  <1>7. Weights(items) # <<>> /\ Weights(b)[1] = Weights(items)[1] + d
    BY <1>1, <1>2, <1>3, <1>5, <1>6
  <1>8. \A i \in 2..Len(Weights(items)) : Weights(b)[i] = Weights(items)[i]
    BY <1>2, <1>3, <1>5, <1>6
  <1>9. Total(Weights(b)) = Total(Weights(items)) + d
    BY <1>3, <1>5, <1>6, <1>7, <1>8, TotalAtFirst
  <1>q. QED BY <1>3, <1>4, <1>5, <1>6, <1>9 DEF b

CallsOf(items) == [i \in DOMAIN items |-> items[i].call]

LEMMA CallsOfType ==
    ASSUME NEW items \in Seq(Item)
    PROVE  /\ CallsOf(items) \in Seq(Calls) /\ Len(CallsOf(items)) = Len(items)
           /\ \A i \in 1..Len(items) : CallsOf(items)[i] = items[i].call
  <1>1. ASSUME NEW i \in 1..Len(items) PROVE items[i].call \in Calls
    <2>1. items[i] \in Item OBVIOUS
    <2>q. QED BY <2>1 DEF Item
  <1>2. CallsOf(items) \in [1..Len(items) -> Calls] BY <1>1 DEF CallsOf
  <1>q. QED BY <1>2, FcnIsSeq DEF CallsOf

(* The same calls in other items. *)
LEMMA SameCalls ==
    ASSUME NEW a \in Seq(Item), NEW b \in Seq(Item), Len(b) = Len(a),
           \A i \in 1..Len(a) : b[i].call = a[i].call
    PROVE  CallsOf(b) = CallsOf(a)
  <1>1. DOMAIN a = 1..Len(a) /\ DOMAIN b = 1..Len(a) OBVIOUS
  <1>q. QED BY <1>1 DEF CallsOf

LEMMA CallsOfAppend ==
    ASSUME NEW items \in Seq(Item), NEW item \in Item
    PROVE  CallsOf(Append(items, item)) = Append(CallsOf(items), item.call)
  <1> DEFINE all == Append(items, item)
             b == Append(CallsOf(items), item.call)
  <1>0. item.call \in Calls BY DEF Item
  <1>1. /\ all \in Seq(Item) /\ Len(all) = Len(items) + 1 /\ all[Len(items) + 1] = item
        /\ \A i \in 1..Len(items) : all[i] = items[i]
    BY AppendProperties
  <1>2. /\ CallsOf(items) \in Seq(Calls) /\ Len(CallsOf(items)) = Len(items)
        /\ \A i \in 1..Len(items) : CallsOf(items)[i] = items[i].call
    BY CallsOfType
  <1>3. /\ b \in Seq(Calls) /\ Len(b) = Len(items) + 1 /\ b[Len(items) + 1] = item.call
        /\ \A i \in 1..Len(items) : b[i] = CallsOf(items)[i]
    BY <1>0, <1>2, AppendProperties
  <1>5. Len(items) \in Nat OBVIOUS
  <1> HIDE DEF all, b
  <1>6. /\ CallsOf(all) \in Seq(Calls) /\ Len(CallsOf(all)) = Len(all)
        /\ \A i \in 1..Len(all) : CallsOf(all)[i] = all[i].call
    BY <1>1, CallsOfType
  <1>7. ASSUME NEW i \in 1..Len(b) PROVE CallsOf(all)[i] = b[i]
    <2>1. i \in 1..Len(all) /\ (i = Len(items) + 1 \/ i \in 1..Len(items))
      BY <1>1, <1>3, <1>5
    <2>2. CallsOf(all)[i] = all[i].call BY <1>6, <2>1
    <2>3. CASE i = Len(items) + 1 BY <1>1, <1>3, <2>2, <2>3
    <2>4. CASE i \in 1..Len(items)
      <3>1. b[i] = items[i].call BY <1>2, <1>3, <2>4
      <3>2. all[i] = items[i] BY <1>1, <2>4
      <3>q. QED BY <2>2, <3>1, <3>2
    <2>q. QED BY <2>1, <2>3, <2>4
  <1>8. CallsOf(all) = b BY <1>1, <1>3, <1>6, <1>7, SeqEqual
  <1>q. QED BY <1>8 DEF all, b

(* The items a reply makes of its calls. *)
LEMMA MadeFacts ==
    ASSUME NEW calls \in Seq(Calls)
    PROVE  /\ Made(calls) \in Seq(Item) /\ Len(Made(calls)) = Len(calls)
           /\ CallsOf(Made(calls)) = calls
           /\ Sizes(Made(calls)) = Total(ArgsOf(calls))
           /\ \A i \in 1..Len(calls) : ~Made(calls)[i].stub
  <1>1. ASSUME NEW i \in 1..Len(calls)
        PROVE  [call |-> calls[i], size |-> ArgSize[calls[i]], stub |-> FALSE] \in Item
    <2>1. calls[i] \in Calls /\ ArgSize[calls[i]] \in Nat BY AgentAssumption
    <2>q. QED BY <2>1 DEF Item
  <1>2. Made(calls) \in [1..Len(calls) -> Item] BY <1>1 DEF Made
  <1>3. Made(calls) \in Seq(Item) /\ Len(Made(calls)) = Len(calls) /\ DOMAIN Made(calls) = 1..Len(calls)
    BY <1>2, FcnIsSeq
  <1>4. \A i \in 1..Len(calls) :
          Made(calls)[i] = [call |-> calls[i], size |-> ArgSize[calls[i]], stub |-> FALSE]
    <2>1. DOMAIN calls = 1..Len(calls) OBVIOUS
    <2>q. QED BY <2>1 DEF Made
  <1>5. CallsOf(Made(calls)) = calls
    <2>1. /\ CallsOf(Made(calls)) \in Seq(Calls)
          /\ Len(CallsOf(Made(calls))) = Len(Made(calls))
          /\ \A i \in 1..Len(Made(calls)) : CallsOf(Made(calls))[i] = Made(calls)[i].call
      BY <1>3, CallsOfType
    <2>2. \A i \in 1..Len(calls) : CallsOf(Made(calls))[i] = calls[i]
      BY <1>3, <1>4, <2>1
    <2>q. QED BY <1>3, <2>1, <2>2, SeqEqual
  <1>6. Sizes(Made(calls)) = Total(ArgsOf(calls))
    <2>1. /\ Weights(Made(calls)) \in Seq(Int)
          /\ Len(Weights(Made(calls))) = Len(Made(calls))
          /\ \A i \in 1..Len(Made(calls)) : Weights(Made(calls))[i] = Made(calls)[i].size
          /\ Sizes(Made(calls)) = Total(Weights(Made(calls)))
      BY <1>3, WeightsType
    <2>2. /\ ArgsOf(calls) \in Seq(Int) /\ Len(ArgsOf(calls)) = Len(calls)
          /\ \A i \in 1..Len(calls) : ArgsOf(calls)[i] = ArgSize[calls[i]]
      BY ArgsOfType
    <2>3. \A i \in 1..Len(calls) : Weights(Made(calls))[i] = ArgsOf(calls)[i]
      BY <1>3, <1>4, <2>1, <2>2
    <2>4. Weights(Made(calls)) = ArgsOf(calls) BY <1>3, <2>1, <2>2, <2>3, SeqEqual
    <2>q. QED BY <2>1, <2>4
  <1>q. QED BY <1>3, <1>4, <1>5, <1>6

-----------------------------------------------------------------------------
(* Collapsing. *)

(* b is a, but for the sizes of items and which of them are stubs. *)
Alike(a, b) ==
    /\ Len(b) = Len(a)
    /\ \A m \in 1..Len(a) :
         /\ b[m].role = a[m].role
         /\ Len(b[m].items) = Len(a[m].items)
         /\ \A i \in 1..Len(a[m].items) : b[m].items[i].call = a[m].items[i].call

LEMMA ItemsOf ==
    ASSUME NEW messages \in Seq(Message), NEW m \in 1..Len(messages)
    PROVE  /\ messages[m] \in Message /\ messages[m].items \in Seq(Item)
           /\ messages[m].role \in {"assistant", "results"}
           /\ Len(messages[m].items) \in Nat
           /\ DOMAIN messages[m].items = 1..Len(messages[m].items)
  <1>1. messages[m] \in Message OBVIOUS
  <1>2. messages[m].items \in Seq(Item) BY <1>1 DEF Message
  <1>q. QED BY <1>1, <1>2 DEF Message

LEMMA AlikeAfter ==
    ASSUME NEW a \in Seq(Message), NEW b \in Seq(Message), Alike(a, b),
           NEW m \in 1..Len(a), NEW i \in Int
    PROVE  /\ After(b, m, i) = After(a, m, i)
           /\ CallsOf(b[m].items) = CallsOf(a[m].items)
  <1>1. DOMAIN a = 1..Len(a) /\ DOMAIN b = 1..Len(a) /\ m \in 1..Len(b) BY DEF Alike
  <1>2. Later(b, m) = Later(a, m) BY <1>1 DEF Later, Alike
  <1>3. After(b, m, i) = Len(b[m].items) - i + Total(Later(b, m))
    BY <1>1, AfterFacts
  <1>4. After(a, m, i) = Len(a[m].items) - i + Total(Later(a, m))
    BY AfterFacts
  <1>5. Len(b[m].items) = Len(a[m].items) BY DEF Alike
  <1>6. a[m].items \in Seq(Item) /\ b[m].items \in Seq(Item) BY <1>1, ItemsOf
  <1>7. CallsOf(b[m].items) = CallsOf(a[m].items)
    BY <1>5, <1>6, SameCalls DEF Alike
  <1>q. QED BY <1>2, <1>3, <1>4, <1>5, <1>7

(* One item, collapsed. *)
LEMMA StubbedFacts ==
    ASSUME NEW item \in Item
    PROVE  /\ Stubbed(item) \in Item
           /\ Stubbed(item).call = item.call /\ Stubbed(item).stub
           /\ Bulky(item) => Stubbed(item).size <= item.size
           /\ ~Bulky(Stubbed(item))
  <1>1. /\ item = [call |-> item.call, size |-> item.size, stub |-> item.stub]
        /\ item.call \in Calls /\ item.size \in Nat
    BY DEF Item
  <1>2. Stubbed(item) = [call |-> item.call, size |-> Stub, stub |-> TRUE]
    BY DEF Stubbed
  <1>3. Stub \in Nat /\ MinCollapse \in Nat /\ Stub < MinCollapse BY AgentAssumption
  <1>q. QED BY <1>1, <1>2, <1>3 DEF Item, Bulky

(* What becomes of item i of message m. *)
Became(messages, role, m, i) ==
    IF messages[m].role = role /\ Shrinks(messages, m, i)
    THEN Stubbed(messages[m].items[i]) ELSE messages[m].items[i]

LEMMA CollapsedFacts ==
    ASSUME NEW messages \in Seq(Message), NEW role \in {"assistant", "results"}
    PROVE  /\ Collapsed(messages, role) \in Seq(Message)
           /\ Alike(messages, Collapsed(messages, role))
           /\ \A m \in 1..Len(messages) :
                 messages[m].role # role => Collapsed(messages, role)[m] = messages[m]
           /\ \A m \in 1..Len(messages) : \A i \in 1..Len(messages[m].items) :
                 Collapsed(messages, role)[m].items[i] = Became(messages, role, m, i)
  <1> DEFINE new(m) ==
               IF messages[m].role # role THEN messages[m]
               ELSE [role |-> role,
                     items |-> [i \in 1..Len(messages[m].items) |-> Became(messages, role, m, i)]]
             b == [m \in 1..Len(messages) |-> new(m)]
  <1>1. ASSUME NEW m \in 1..Len(messages)
        PROVE  /\ new(m) \in Message /\ new(m).role = messages[m].role
               /\ Len(new(m).items) = Len(messages[m].items)
               /\ \A i \in 1..Len(messages[m].items) :
                    /\ new(m).items[i] = Became(messages, role, m, i)
                    /\ new(m).items[i].call = messages[m].items[i].call
    <2> DEFINE its == [i \in 1..Len(messages[m].items) |-> Became(messages, role, m, i)]
    <2>1. /\ messages[m] \in Message /\ messages[m].items \in Seq(Item)
          /\ Len(messages[m].items) \in Nat
      BY ItemsOf
    <2>2. ASSUME NEW i \in 1..Len(messages[m].items)
          PROVE  /\ Became(messages, role, m, i) \in Item
                 /\ Became(messages, role, m, i).call = messages[m].items[i].call
      <3>1. messages[m].items[i] \in Item BY <2>1
      <3>2. Stubbed(messages[m].items[i]) \in Item
            /\ Stubbed(messages[m].items[i]).call = messages[m].items[i].call
        BY <3>1, StubbedFacts
      <3>q. QED BY <3>1, <3>2 DEF Became
    <2>3. its \in [1..Len(messages[m].items) -> Item] BY <2>2
    <2>4. its \in Seq(Item) /\ Len(its) = Len(messages[m].items) BY <2>1, <2>3, FcnIsSeq
    <2>5. \A i \in 1..Len(messages[m].items) : its[i] = Became(messages, role, m, i)
      OBVIOUS
    <2> HIDE DEF its
    <2>6. CASE messages[m].role = role
      <3>1. new(m) = [role |-> role, items |-> its] BY <2>6 DEF its
      <3> HIDE DEF new
      <3>2. new(m) \in Message BY <2>4, <3>1 DEF Message
      <3>q. QED BY <2>2, <2>4, <2>5, <2>6, <3>1, <3>2
    <2>7. CASE messages[m].role # role
      <3>1. new(m) = messages[m] BY <2>7
      <3> HIDE DEF new
      <3>2. \A i \in 1..Len(messages[m].items) :
               Became(messages, role, m, i) = messages[m].items[i]
        BY <2>7 DEF Became
      <3>q. QED BY <2>1, <3>1, <3>2
    <2>q. QED BY <2>6, <2>7
  <1>2. Collapsed(messages, role) = b
    <2>1. ASSUME NEW m \in 1..Len(messages)
          PROVE  DOMAIN messages[m].items = 1..Len(messages[m].items)
      BY ItemsOf
    <2>2. DOMAIN messages = 1..Len(messages) OBVIOUS
    <2>3. ASSUME NEW m \in 1..Len(messages)
          PROVE  new(m) = IF messages[m].role # role THEN messages[m]
                          ELSE [role |-> role,
                                items |-> [i \in DOMAIN messages[m].items |->
                                   IF Shrinks(messages, m, i)
                                   THEN Stubbed(messages[m].items[i])
                                   ELSE messages[m].items[i]]]
      BY <2>1 DEF Became
    <2> HIDE DEF new
    <2>q. QED BY <2>2, <2>3 DEF Collapsed
  <1>3. \A m \in 1..Len(messages) : messages[m].role # role => new(m) = messages[m]
    OBVIOUS
  <1> HIDE DEF new
  <1>4. b \in [1..Len(messages) -> Message] BY <1>1
  <1>5. b \in Seq(Message) /\ Len(b) = Len(messages) BY <1>4, FcnIsSeq
  <1>6. \A m \in 1..Len(messages) : b[m] = new(m) OBVIOUS
  <1> HIDE DEF b
  <1>7. Alike(messages, b) BY <1>1, <1>5, <1>6 DEF Alike
  <1>8. \A m \in 1..Len(messages) : messages[m].role # role => b[m] = messages[m]
    BY <1>3, <1>6
  <1>9. \A m \in 1..Len(messages) : \A i \in 1..Len(messages[m].items) :
           b[m].items[i] = Became(messages, role, m, i)
    BY <1>1, <1>6
  <1>q. QED BY <1>2, <1>5, <1>7, <1>8, <1>9

(* Collapsing makes nothing longer. *)
LEMMA CollapsedIsSmaller ==
    ASSUME NEW messages \in Seq(Message), NEW role \in {"assistant", "results"}
    PROVE  Size(Collapsed(messages, role)) <= Size(messages)
  <1> DEFINE b == Collapsed(messages, role)
  <1>1. /\ b \in Seq(Message) /\ Len(b) = Len(messages) /\ Alike(messages, b)
        /\ \A m \in 1..Len(messages) : \A i \in 1..Len(messages[m].items) :
              b[m].items[i] = Became(messages, role, m, i)
    BY CollapsedFacts DEF Alike
  <1> HIDE DEF b
  <1>2. ASSUME NEW m \in 1..Len(messages)
        PROVE  Sizes(b[m].items) <= Sizes(messages[m].items)
    <2> DEFINE old == messages[m].items  new == b[m].items
    <2>1. old \in Seq(Item) /\ new \in Seq(Item) /\ Len(new) = Len(old)
      BY <1>1, ItemsOf DEF Alike
    <2>2. \A i \in 1..Len(old) : new[i] = Became(messages, role, m, i)
      BY <1>1
    <2>3. ASSUME NEW i \in 1..Len(old) PROVE new[i].size <= old[i].size
      <3>1. old[i] \in Item BY <2>1
      <3>2. Bulky(old[i]) => Stubbed(old[i]).size <= old[i].size
        BY <3>1, StubbedFacts
      <3>3. old[i].size \in Int BY <3>1 DEF Item
      <3>4. new[i] = old[i] \/ (Bulky(old[i]) /\ new[i] = Stubbed(old[i]))
        BY <2>2 DEF Became, Shrinks
      <3>q. QED BY <3>2, <3>3, <3>4
    <2> HIDE DEF old, new
    <2>4. /\ Weights(old) \in Seq(Int) /\ Len(Weights(old)) = Len(old)
          /\ \A i \in 1..Len(old) : Weights(old)[i] = old[i].size
          /\ Sizes(old) = Total(Weights(old))
      BY <2>1, WeightsType
    <2>5. /\ Weights(new) \in Seq(Int) /\ Len(Weights(new)) = Len(new)
          /\ \A i \in 1..Len(new) : Weights(new)[i] = new[i].size
          /\ Sizes(new) = Total(Weights(new))
      BY <2>1, WeightsType
    <2>6. \A i \in 1..Len(Weights(old)) : Weights(new)[i] <= Weights(old)[i]
      BY <2>1, <2>3, <2>4, <2>5
    <2>7. Total(Weights(new)) <= Total(Weights(old))
      BY <2>1, <2>4, <2>5, <2>6, TotalLeq
    <2>q. QED BY <2>4, <2>5, <2>7 DEF old, new
  <1>3. /\ Heights(messages) \in Seq(Int) /\ Len(Heights(messages)) = Len(messages)
        /\ \A m \in 1..Len(messages) : Heights(messages)[m] = Sizes(messages[m].items)
        /\ Size(messages) = Total(Heights(messages))
    BY HeightsType
  <1>4. /\ Heights(b) \in Seq(Int) /\ Len(Heights(b)) = Len(b)
        /\ \A m \in 1..Len(b) : Heights(b)[m] = Sizes(b[m].items)
        /\ Size(b) = Total(Heights(b))
    BY <1>1, HeightsType
  <1>5. \A m \in 1..Len(Heights(messages)) : Heights(b)[m] <= Heights(messages)[m]
    BY <1>1, <1>2, <1>3, <1>4
  <1>6. Total(Heights(b)) <= Total(Heights(messages)) BY <1>1, <1>3, <1>4, <1>5, TotalLeq
  <1>q. QED BY <1>3, <1>4, <1>6 DEF b

-----------------------------------------------------------------------------
(* The inductive invariant. *)

(* The counters, between the turns and in one. *)
Counters ==
    /\ at \in {"trim", "ask", "act"} => turn <= MaxTurns /\ loops <= 1
    /\ at \in {"trim", "ask"} => opened <= turn - 1
    /\ at = "act" => opened <= turn

(* What has been answered, what is still to be, and by what. *)
Paired ==
    /\ \A m \in DOMAIN conv : conv[m].role = IF m % 2 = 1 THEN "assistant" ELSE "results"
    /\ \A m \in DOMAIN conv :
         m % 2 = 1 /\ m # Len(conv)
           => CallsOf(conv[m + 1].items) = Sound(CallsOf(conv[m].items))
    /\ at \in {"trim", "ask"} => Len(conv) % 2 = 0
    /\ at = "act" =>
         /\ Len(conv) % 2 = 1
         /\ CallsOf(results) \o todo = Sound(CallsOf(conv[Len(conv)].items))
         /\ results = <<>> => todo # <<>>

(* In a turn, the ledger has not heard of the calls still to be dispatched,  *)
(* and has heard of the results that no message carries yet.                 *)
Ledger ==
    /\ at \in {"trim", "ask"} => live + unseen = Size(conv)
    /\ at = "act" => live + unseen + Total(HeardOf(todo)) = Size(conv) + Sizes(results)

(* A stub was stale when it was made, and stays so. *)
StubsAreStale ==
    /\ \A m \in DOMAIN conv : \A i \in DOMAIN conv[m].items :
         conv[m].items[i].stub => After(conv, m, i) >= Min({keep, KeepLast})
    /\ \A i \in DOMAIN results : ~results[i].stub

(* The one recovery, and what it leaves to the turn after it. *)
Recovered ==
    /\ ~shrunk => keep = KeepLast /\ refused = {}
    /\ shrunk => \E t \in 1..MaxTurns : refused = {t}
    /\ at = "trim" /\ unsized => trimAbove = Headroom(live)
    /\ at = "act" => ~unsized

(* What was written for the model, or will be into the next message. *)
Noted ==
    /\ at \in {"trim", "ask"} =>
         /\ loops > 0 => carrier["looped"] # 0
         /\ opened >= Openings => carrier["restating"] # 0
    /\ at = "act" =>
         /\ loops > 0 => carrier["looped"] # 0 \/ "looped" \in due
         /\ opened >= Openings => carrier["restating"] # 0 \/ "restating" \in due
    /\ at \in {"trim", "ask", "act"} =>
         /\ MaxTurns - SlowDown \in 1..(turn - 1)
              => MaxTurns - SlowDown \in refused \/ carrier["slow down"] # 0
         /\ MaxTurns - LandIt \in 1..(turn - 1)
              => MaxTurns - LandIt \in refused \/ carrier["land it"] # 0

(* The message of a note has more results than stay verbatim. *)
Crowded(note) == Len(conv[carrier[note]].items) > Min({keep, KeepLast})

(* A note is in the last message, or it was read, or may have been trimmed. *)
Reached ==
    /\ \A note \in Notes :
         carrier[note] # 0 => /\ carrier[note] \in 1..Len(conv)
                              /\ Len(conv[carrier[note]].items) > 0
    /\ at \in {"trim", "ask"} =>
         \A note \in Notes :
            carrier[note] # 0
              => note \in told \/ Crowded(note) \/ carrier[note] = Len(conv)
    /\ at = "act" =>
         \A note \in Notes : carrier[note] # 0 => note \in told \/ Crowded(note)

RetryTrimmed == live >= 0 => RetryIsTrimmed

Inv ==
    /\ TypeOK /\ Counters /\ Paired /\ Ledger
    /\ StubsAreStale /\ Recovered /\ Noted /\ Reached /\ RetryTrimmed

LEMMA Numbers ==
    /\ MaxTurns \in Nat \ {0} /\ KeepLast \in Nat /\ TrimAbove \in Nat /\ Note \in Nat
    /\ Window \in Nat /\ Openings \in Nat \ {0} /\ SlowDown \in Nat /\ LandIt \in Nat
    /\ SlowDown # LandIt
  BY AgentAssumption

LEMMA InitHolds == Init => Inv
  <1> SUFFICES ASSUME Init PROVE Inv OBVIOUS
  <1>1. /\ at = "trim" /\ turn = 1 /\ conv = <<>> /\ live = 0
        /\ keep = KeepLast /\ trimAbove = TrimAbove /\ shrunk = FALSE
        /\ loops = 0 /\ opened = 0
        /\ recent = <<>> /\ nudgedAt = [c \in Calls |-> 0]
        /\ todo = <<>> /\ results = <<>> /\ circling = "no" /\ due = {}
        /\ unseen = 0 /\ refused = {} /\ unsized = FALSE /\ told = {}
        /\ carrier = [note \in Notes |-> 0]
    BY DEF Init
  <1>2. DOMAIN conv = {} /\ Len(conv) = 0 /\ DOMAIN results = {} BY <1>1
  <1>3. Size(conv) = 0
    <2>1. [m \in DOMAIN conv |-> Sizes(conv[m].items)] = <<>> BY <1>1
    <2>q. QED BY <2>1, TotalEmpty DEF Size
  <1>4. TypeOK
    <2>1. nudgedAt \in [Calls -> 0..MaxTurns] BY <1>1, Numbers
    <2>2. conv \in Seq(Message) /\ results \in Seq(Item) /\ todo \in Seq(Calls)
          /\ recent \in Seq(Calls) /\ Len(recent) <= Window
      BY <1>1, Numbers
    <2>3. /\ turn \in 1..(MaxTurns + 1) /\ live \in Int /\ keep \in Nat /\ trimAbove \in Int
          /\ opened \in 0..MaxTurns /\ unseen \in Nat /\ refused \subseteq 1..MaxTurns
      BY <1>1, Numbers
    <2>4. at \in {"trim", "ask", "act"} \cup Ends /\ loops \in 0..2 BY <1>1
    <2>5. /\ circling \in Calls \cup {"no"} /\ due \subseteq Notes /\ told \subseteq Notes
          /\ carrier \in [Notes -> Nat]
      BY <1>1
    <2>6. shrunk \in BOOLEAN /\ unsized \in BOOLEAN BY <1>1
    <2>q. QED BY <2>1, <2>2, <2>3, <2>4, <2>5, <2>6 DEF TypeOK
  <1>5. Counters BY <1>1, Numbers DEF Counters
  <1>6. Paired BY <1>1, <1>2 DEF Paired
  <1>7. Ledger BY <1>1, <1>3 DEF Ledger
  <1>8. StubsAreStale BY <1>2 DEF StubsAreStale
  <1>9. Recovered BY <1>1 DEF Recovered
  <1>10. Noted BY <1>1, Numbers DEF Noted
  <1>11. RetryTrimmed BY <1>1 DEF RetryTrimmed, RetryIsTrimmed
  <1>12. Reached BY <1>1 DEF Reached
  <1>q. QED BY <1>4, <1>5, <1>6, <1>7, <1>8, <1>9, <1>10, <1>11, <1>12 DEF Inv

LEMMA StutterKeeps == Inv /\ UNCHANGED vars => Inv'
  <1> SUFFICES ASSUME Inv, UNCHANGED vars PROVE Inv' OBVIOUS
  <1>1. /\ at' = at /\ turn' = turn /\ conv' = conv /\ live' = live
        /\ keep' = keep /\ trimAbove' = trimAbove /\ shrunk' = shrunk
        /\ loops' = loops /\ opened' = opened /\ recent' = recent /\ nudgedAt' = nudgedAt
        /\ todo' = todo /\ results' = results /\ circling' = circling /\ due' = due
        /\ unseen' = unseen /\ refused' = refused /\ unsized' = unsized /\ told' = told
        /\ carrier' = carrier
    BY DEF vars, limits, detectors, thisTurn, observers
  <1>4. TypeOK' BY <1>1 DEF Inv, TypeOK
  <1>5. Counters' BY <1>1 DEF Inv, Counters
  <1>6. Paired' BY <1>1 DEF Inv, Paired
  <1>7. Ledger' BY <1>1 DEF Inv, Ledger
  <1>8. StubsAreStale' BY <1>1 DEF Inv, StubsAreStale
  <1>9. Recovered' BY <1>1 DEF Inv, Recovered
  <1>10. Noted' BY <1>1 DEF Inv, Noted
  <1>11. RetryTrimmed' BY <1>1 DEF Inv, RetryTrimmed, RetryIsTrimmed
  <1>12. Reached' BY <1>1 DEF Inv, Reached, Crowded
  <1>q. QED BY <1>4, <1>5, <1>6, <1>7, <1>8, <1>9, <1>10, <1>11, <1>12 DEF Inv

-----------------------------------------------------------------------------
(* Trimming. *)

(* What trimming may make of a conversation. *)
Trimmed(a, b) ==
    /\ b \in Seq(Message) /\ Alike(a, b) /\ Size(b) <= Size(a)
    /\ \A m \in 1..Len(a) : \A i \in 1..Len(a[m].items) :
         b[m].items[i].stub => a[m].items[i].stub \/ After(a, m, i) >= keep

LEMMA TrimmedNot == ASSUME NEW a \in Seq(Message) PROVE Trimmed(a, a)
  <1>1. Size(a) \in Nat BY HeightsType
  <1>2. Alike(a, a) BY DEF Alike
  <1>q. QED BY <1>1, <1>2 DEF Trimmed

LEMMA TrimmedOnce ==
    ASSUME NEW a \in Seq(Message), NEW role \in {"assistant", "results"}
    PROVE  Trimmed(a, Collapsed(a, role))
  <1> DEFINE b == Collapsed(a, role)
  <1>1. /\ b \in Seq(Message) /\ Alike(a, b)
        /\ \A m \in 1..Len(a) : \A i \in 1..Len(a[m].items) :
              b[m].items[i] = Became(a, role, m, i)
    BY CollapsedFacts
  <1>2. Size(b) <= Size(a) BY CollapsedIsSmaller
  <1> HIDE DEF b
  <1>3. \A m \in 1..Len(a) : \A i \in 1..Len(a[m].items) :
           b[m].items[i].stub => a[m].items[i].stub \/ After(a, m, i) >= keep
    BY <1>1 DEF Became, Shrinks, Stale
  <1>q. QED BY <1>1, <1>2, <1>3 DEF Trimmed, b

LEMMA TrimmedTwice ==
    ASSUME NEW a \in Seq(Message), NEW b, NEW c, Trimmed(a, b), Trimmed(b, c)
    PROVE  Trimmed(a, c)
  <1>1. b \in Seq(Message) /\ c \in Seq(Message) /\ Alike(a, b) /\ Alike(b, c)
    BY DEF Trimmed
  <1>2. Alike(a, c) BY <1>1 DEF Alike
  <1>3. Size(c) <= Size(a)
    <2>1. Size(a) \in Nat /\ Size(b) \in Nat /\ Size(c) \in Nat BY <1>1, HeightsType
    <2>q. QED BY <2>1 DEF Trimmed
  <1>4. ASSUME NEW m \in 1..Len(a), NEW i \in 1..Len(a[m].items), c[m].items[i].stub
        PROVE  a[m].items[i].stub \/ After(a, m, i) >= keep
    <2>1. m \in 1..Len(b) /\ i \in 1..Len(b[m].items) BY <1>1 DEF Alike
    <2>2. i \in Int /\ After(b, m, i) = After(a, m, i)
      <3>1. Len(a[m].items) \in Nat BY ItemsOf
      <3>2. i \in Int BY <3>1
      <3>q. QED BY <1>1, <3>2, AlikeAfter
    <2>3. b[m].items[i].stub \/ After(b, m, i) >= keep BY <1>4, <2>1 DEF Trimmed
    <2>q. QED BY <2>2, <2>3 DEF Trimmed
  <1>q. QED BY <1>1, <1>2, <1>3, <1>4 DEF Trimmed

LEMMA HeadroomFacts ==
    ASSUME NEW n \in Int
    PROVE  Headroom(n) \in Int /\ (n >= 0 => Headroom(n) <= n)
  BY DEF Headroom

(* The two collapses of one turn. *)
LEMMA TrimFacts ==
    ASSUME Inv, Trim
    PROVE  /\ Trimmed(conv, conv') /\ live' \in Int
           /\ live' = live - Size(conv) + Size(conv')
           /\ live >= trimAbove =>
                \A m \in 1..Len(conv) : \A i \in 1..Len(conv[m].items) :
                   conv[m].role = "results"
                     => conv'[m].items[i] = Became(conv, "results", m, i)
  <1>1. PICK one \in {IF live >= trimAbove THEN Collapsed(conv, "results") ELSE conv} :
        \E left \in {live - (Size(conv) - Size(one))} :
        \E two \in {IF left >= trimAbove THEN Collapsed(one, "assistant") ELSE one} :
          conv' = two /\ live' = left - (Size(one) - Size(two))
    BY DEF Trim
  <1> DEFINE left == live - (Size(conv) - Size(one))
  <1>2. /\ conv' = IF left >= trimAbove THEN Collapsed(one, "assistant") ELSE one
        /\ live' = left - (Size(one) - Size(conv'))
    BY <1>1
  <1> HIDE DEF left
  <1>3. /\ one = IF live >= trimAbove THEN Collapsed(conv, "results") ELSE conv
    BY <1>1
  <1>4. conv \in Seq(Message) /\ live \in Int BY DEF Inv, TypeOK
  <1>5. Trimmed(conv, one) /\ one \in Seq(Message)
    <2>1. Trimmed(conv, one) BY <1>3, <1>4, TrimmedNot, TrimmedOnce
    <2>q. QED BY <2>1 DEF Trimmed
  <1>6. Trimmed(one, conv') /\ conv' \in Seq(Message)
    <2>1. Trimmed(one, conv') BY <1>2, <1>5, TrimmedNot, TrimmedOnce
    <2>q. QED BY <2>1 DEF Trimmed
  <1>7. Trimmed(conv, conv') BY <1>4, <1>5, <1>6, TrimmedTwice
  <1>8. Size(conv) \in Nat /\ Size(one) \in Nat /\ Size(conv') \in Nat
    BY <1>4, <1>5, <1>6, HeightsType
  <1>9. live' = live - Size(conv) + Size(conv') /\ live' \in Int
    BY <1>2, <1>4, <1>8 DEF left
  <1>10. ASSUME live >= trimAbove, NEW m \in 1..Len(conv),
                NEW i \in 1..Len(conv[m].items), conv[m].role = "results"
         PROVE  conv'[m].items[i] = Became(conv, "results", m, i)
    <2>1. one = Collapsed(conv, "results") BY <1>3, <1>10
    <2>2. one[m].items[i] = Became(conv, "results", m, i)
      BY <1>4, <1>10, <2>1, CollapsedFacts
    <2>3. m \in 1..Len(one) /\ one[m].role = "results"
      BY <1>5, <1>10 DEF Trimmed, Alike
    <2>4. conv'[m] = one[m]
      <3>1. CASE left >= trimAbove BY <1>2, <1>5, <2>3, <3>1, CollapsedFacts
      <3>2. CASE ~(left >= trimAbove) BY <1>2, <3>2
      <3>q. QED BY <3>1, <3>2
    <2>q. QED BY <2>2, <2>4
  <1>q. QED BY <1>7, <1>9, <1>10

LEMMA TrimKeeps == Inv /\ Trim => Inv'
  <1> SUFFICES ASSUME Inv, Trim PROVE Inv' OBVIOUS
  <1>1. /\ at = "trim" /\ at' = "ask" /\ turn' = turn
        /\ keep' = keep /\ trimAbove' = trimAbove /\ shrunk' = shrunk
        /\ loops' = loops /\ opened' = opened /\ recent' = recent /\ nudgedAt' = nudgedAt
        /\ todo' = todo /\ results' = results /\ circling' = circling /\ due' = due
        /\ unseen' = unseen /\ refused' = refused /\ unsized' = unsized /\ told' = told
        /\ carrier' = carrier
    BY DEF Trim, limits, detectors, thisTurn, observers
  <1>2. /\ Trimmed(conv, conv') /\ live' \in Int
        /\ live' = live - Size(conv) + Size(conv')
        /\ live >= trimAbove =>
              \A m \in 1..Len(conv) : \A i \in 1..Len(conv[m].items) :
                 conv[m].role = "results"
                   => conv'[m].items[i] = Became(conv, "results", m, i)
    BY TrimFacts
  <1>3. /\ conv \in Seq(Message) /\ conv' \in Seq(Message) /\ Alike(conv, conv')
        /\ Size(conv') <= Size(conv) /\ live \in Int /\ unseen \in Nat /\ keep \in Nat
        /\ KeepLast \in Nat
    BY <1>2, AgentAssumption DEF Inv, TypeOK, Trimmed
  <1>4. /\ Len(conv') = Len(conv)
        /\ DOMAIN conv = 1..Len(conv) /\ DOMAIN conv' = 1..Len(conv)
        /\ \A m \in 1..Len(conv) : conv'[m].role = conv[m].role
    BY <1>3 DEF Alike
  <1>5. ASSUME NEW m \in 1..Len(conv)
        PROVE  /\ DOMAIN conv'[m].items = 1..Len(conv[m].items)
               /\ CallsOf(conv'[m].items) = CallsOf(conv[m].items)
               /\ Len(conv[m].items) \in Nat
    <2>1. m \in 1..Len(conv') BY <1>4
    <2>2. DOMAIN conv'[m].items = 1..Len(conv'[m].items) BY <1>3, <2>1, ItemsOf
    <2>3. Len(conv'[m].items) = Len(conv[m].items) BY <1>3 DEF Alike
    <2>4. CallsOf(conv'[m].items) = CallsOf(conv[m].items)
      <3>1. 0 \in Int OBVIOUS
      <3>q. QED BY <1>3, <3>1, AlikeAfter
    <2>q. QED BY <1>3, <2>2, <2>3, <2>4, ItemsOf
  <1>6. Size(conv) \in Nat /\ Size(conv') \in Nat BY <1>3, HeightsType
  <1>7. TypeOK'
    <2>1. TypeOK BY DEF Inv
    <2>q. QED BY <1>1, <1>2, <1>3, <2>1 DEF TypeOK
  <1>8. Counters' BY <1>1 DEF Inv, Counters
  <1>9. Paired'
    <2>1. \A m \in DOMAIN conv' : conv'[m].role = IF m % 2 = 1 THEN "assistant" ELSE "results"
      BY <1>4 DEF Inv, Paired
    <2>2. ASSUME NEW m \in DOMAIN conv', m % 2 = 1, m # Len(conv')
          PROVE  CallsOf(conv'[m + 1].items) = Sound(CallsOf(conv'[m].items))
      <3>1. m \in 1..Len(conv) /\ m + 1 \in 1..Len(conv) /\ m # Len(conv) BY <1>4, <2>2
      <3>2. CallsOf(conv[m + 1].items) = Sound(CallsOf(conv[m].items))
        BY <1>4, <2>2, <3>1 DEF Inv, Paired
      <3>q. QED BY <1>5, <3>1, <3>2
    <2>3. Len(conv') % 2 = 0 BY <1>1, <1>4 DEF Inv, Paired
    <2>q. QED BY <1>1, <2>1, <2>2, <2>3 DEF Paired
  <1>10. Ledger'
    <2>1. live + unseen = Size(conv) BY <1>1 DEF Inv, Ledger
    <2>2. live' + unseen = Size(conv') BY <1>2, <1>3, <1>6, <2>1
    <2>q. QED BY <1>1, <2>2 DEF Ledger
  <1>11. StubsAreStale'
    <2>1. ASSUME NEW m \in DOMAIN conv', NEW i \in DOMAIN conv'[m].items,
                 conv'[m].items[i].stub
          PROVE  After(conv', m, i) >= Min({keep, KeepLast})
      <3>1. m \in 1..Len(conv) /\ m \in DOMAIN conv BY <1>4
      <3>2. i \in 1..Len(conv[m].items) /\ i \in Int BY <1>5, <3>1
      <3>3. i \in DOMAIN conv[m].items BY <1>3, <3>1, <3>2, ItemsOf
      <3>4. After(conv', m, i) = After(conv, m, i) BY <1>3, <3>1, <3>2, AlikeAfter
      <3>5. After(conv, m, i) \in Int BY <1>3, <3>1, <3>2, AfterFacts
      <3>6. conv[m].items[i].stub \/ After(conv, m, i) >= keep
        BY <1>2, <2>1, <3>1, <3>2 DEF Trimmed
      <3>7. Min({keep, KeepLast}) <= keep /\ Min({keep, KeepLast}) \in Int
        <4>1. keep \in Int /\ KeepLast \in Int BY <1>3
        <4>2. Min({keep, KeepLast}) <= keep /\ Min({keep, KeepLast}) \in {keep, KeepLast}
          BY <4>1, MinOfTwo
        <4>q. QED BY <4>1, <4>2
      <3>8. conv[m].items[i].stub => After(conv, m, i) >= Min({keep, KeepLast})
        BY <3>1, <3>3 DEF Inv, StubsAreStale
      <3>q. QED BY <1>3, <3>4, <3>5, <3>6, <3>7, <3>8
    <2>2. \A i \in DOMAIN results : ~results[i].stub BY DEF Inv, StubsAreStale
    <2>q. QED BY <1>1, <2>1, <2>2 DEF StubsAreStale
  <1>12. Recovered' BY <1>1 DEF Inv, Recovered
  <1>13. Noted' BY <1>1 DEF Inv, Noted
  <1>14. RetryTrimmed'
    <2> SUFFICES ASSUME live' >= 0, unsized,
                        NEW m \in DOMAIN conv', NEW i \in DOMAIN conv'[m].items,
                        conv'[m].role = "results", Bulky(conv'[m].items[i])
                 PROVE  After(conv', m, i) < keep
      BY <1>1 DEF RetryTrimmed, RetryIsTrimmed
    <2>1. trimAbove = Headroom(live) BY <1>1 DEF Inv, Recovered
    <2>2. live >= 0 BY <1>2, <1>3, <1>6
    <2>3. Headroom(live) <= live BY <1>3, <2>2, HeadroomFacts
    <2>4. live >= trimAbove BY <2>1, <2>3
    <2>5. m \in 1..Len(conv) /\ conv[m].role = "results" BY <1>4
    <2>6. i \in 1..Len(conv[m].items) /\ i \in Int BY <1>5, <2>5
    <2>7. conv'[m].items[i] = Became(conv, "results", m, i) BY <1>2, <2>4, <2>5, <2>6
    <2>8. conv[m].items[i] \in Item BY <1>3, <2>5, <2>6, ItemsOf
    <2>9. ~Bulky(Stubbed(conv[m].items[i])) BY <2>8, StubbedFacts
    <2>10. ~Stale(conv, m, i) BY <2>5, <2>7, <2>9 DEF Became, Shrinks
    <2>11. After(conv', m, i) = After(conv, m, i) BY <1>3, <2>5, <2>6, AlikeAfter
    <2>12. After(conv, m, i) \in Int BY <1>3, <2>5, <2>6, AfterFacts
    <2>q. QED BY <1>3, <2>10, <2>11, <2>12 DEF Stale
  <1>15. Reached'
    <2>1. ASSUME NEW note \in Notes, carrier[note] # 0
          PROVE  /\ carrier[note] \in 1..Len(conv)
                 /\ Len(conv[carrier[note]].items) > 0
                 /\ note \in told \/ Crowded(note) \/ carrier[note] = Len(conv)
      BY <1>1, <2>1 DEF Inv, Reached
    <2>2. ASSUME NEW note \in Notes, carrier[note] # 0
          PROVE  Len(conv'[carrier[note]].items) = Len(conv[carrier[note]].items)
      BY <1>3, <2>1, <2>2 DEF Alike
    <2>q. QED BY <1>1, <1>4, <2>1, <2>2 DEF Reached, Crowded
  <1>q. QED BY <1>7, <1>8, <1>9, <1>10, <1>11, <1>12, <1>13, <1>14, <1>15 DEF Inv

-----------------------------------------------------------------------------
(* A refusal and an exception. *)

LEMMA RecoverKeeps ==
    ASSUME NEW ceiling \in Ceilings \cup {Unsized}, Inv, Recover(ceiling) PROVE Inv'
  <1>1. /\ at = "ask" /\ ~shrunk /\ shrunk' = TRUE
        /\ trimAbove' = Headroom(IF ceiling = Unsized THEN live ELSE ceiling)
        /\ keep' = Max({2, keep \div 2})
        /\ turn' = turn + 1 /\ at' = (IF turn < MaxTurns THEN "trim" ELSE "capped")
        /\ refused' = refused \cup {turn} /\ unsized' = (ceiling = Unsized)
        /\ conv' = conv /\ live' = live
        /\ loops' = loops /\ opened' = opened /\ recent' = recent /\ nudgedAt' = nudgedAt
        /\ todo' = todo /\ results' = results /\ circling' = circling /\ due' = due
        /\ unseen' = unseen /\ told' = told /\ carrier' = carrier
    BY DEF Recover, NextTurn, detectors, thisTurn
  <1>2. /\ conv \in Seq(Message) /\ live \in Int /\ keep \in Nat
        /\ turn \in Nat \ {0} /\ turn <= MaxTurns /\ opened \in Nat
    BY <1>1, Numbers DEF Inv, TypeOK, Counters
  <1>3. ceiling \in Int BY AgentAssumption DEF Unsized
  <1>4. trimAbove' \in Int BY <1>1, <1>2, <1>3, HeadroomFacts
  <1>5. keep' \in Nat
    <2>1. keep \div 2 \in Nat BY <1>2
    <2>2. Max({2, keep \div 2}) \in {2, keep \div 2} BY <2>1, MaxOfTwo
    <2>q. QED BY <1>1, <2>1, <2>2
  <1>6. keep = KeepLast /\ refused = {} BY <1>1 DEF Inv, Recovered
  <1>7. TypeOK'
    <2>1. TypeOK BY DEF Inv
    <2>2. at' \in {"trim", "ask", "act"} \cup Ends BY <1>1 DEF Ends
    <2>3. turn' \in 1..(MaxTurns + 1) /\ refused' \subseteq 1..MaxTurns
      BY <1>1, <1>2, <1>6, Numbers
    <2>4. shrunk' \in BOOLEAN /\ unsized' \in BOOLEAN BY <1>1
    <2>q. QED BY <1>1, <1>4, <1>5, <2>1, <2>2, <2>3, <2>4 DEF TypeOK
  <1>8. Counters' BY <1>1, <1>2, Numbers DEF Inv, Counters
  <1>9. Paired' BY <1>1 DEF Inv, Paired
  <1>10. Ledger' BY <1>1 DEF Inv, Ledger
  <1>11. StubsAreStale'
    <2>1. ASSUME NEW m \in DOMAIN conv, NEW i \in DOMAIN conv[m].items,
                 conv[m].items[i].stub
          PROVE  After(conv, m, i) >= Min({keep', KeepLast})
      <3>1. m \in 1..Len(conv) BY <1>2
      <3>2. i \in Int BY <1>2, <3>1, ItemsOf
      <3>3. After(conv, m, i) \in Int BY <1>2, <3>1, <3>2, AfterFacts
      <3>4. After(conv, m, i) >= Min({keep, KeepLast})
        BY <2>1 DEF Inv, StubsAreStale
      <3>5. Min({keep, KeepLast}) = KeepLast
        <4>1. KeepLast \in Int BY Numbers
        <4>q. QED BY <1>6, <4>1, MinOfTwo
      <3>6. KeepLast \in Int /\ keep' \in Int BY <1>5, Numbers
      <3>7. Min({keep', KeepLast}) <= KeepLast /\ Min({keep', KeepLast}) \in {keep', KeepLast}
        BY <3>6, MinOfTwo
      <3>q. QED BY <3>3, <3>4, <3>5, <3>6, <3>7
    <2>2. \A i \in DOMAIN results : ~results[i].stub BY DEF Inv, StubsAreStale
    <2>q. QED BY <1>1, <2>1, <2>2 DEF StubsAreStale
  <1>12. Recovered'
    <2>1. refused' = {turn} /\ turn \in 1..MaxTurns BY <1>1, <1>2, <1>6, Numbers
    <2>2. unsized' => trimAbove' = Headroom(live') BY <1>1
    <2>3. shrunk' /\ at' # "act" BY <1>1
    <2>q. QED BY <2>1, <2>2, <2>3 DEF Recovered
  <1>13. Noted'
    <2>1. /\ loops' > 0 => carrier'["looped"] # 0
          /\ opened' >= Openings => carrier'["restating"] # 0
      BY <1>1 DEF Inv, Noted
    <2>2. /\ MaxTurns - SlowDown \in 1..(turn - 1)
               => MaxTurns - SlowDown \in refused \/ carrier["slow down"] # 0
          /\ MaxTurns - LandIt \in 1..(turn - 1)
               => MaxTurns - LandIt \in refused \/ carrier["land it"] # 0
      BY <1>1 DEF Inv, Noted
    <2>3. ASSUME NEW n \in Int, n \in 1..(turn' - 1) PROVE n \in 1..(turn - 1) \/ n = turn
      BY <1>1, <1>2, <2>3
    <2>4. MaxTurns - SlowDown \in Int /\ MaxTurns - LandIt \in Int BY Numbers
    <2>5. /\ MaxTurns - SlowDown \in 1..(turn' - 1)
               => MaxTurns - SlowDown \in refused' \/ carrier'["slow down"] # 0
          /\ MaxTurns - LandIt \in 1..(turn' - 1)
               => MaxTurns - LandIt \in refused' \/ carrier'["land it"] # 0
      BY <1>1, <2>2, <2>3, <2>4
    <2>6. at' # "act" BY <1>1
    <2>q. QED BY <2>1, <2>5, <2>6 DEF Noted
  <1>14. RetryTrimmed' BY <1>1 DEF RetryTrimmed, RetryIsTrimmed
  <1>15. Reached'
    <2>1. Min({keep', KeepLast}) <= Min({keep, KeepLast}) /\ Min({keep, KeepLast}) \in Int
          /\ Min({keep', KeepLast}) \in Int
      <3>1. Min({keep, KeepLast}) = KeepLast /\ KeepLast \in Int
        <4>1. KeepLast \in Int BY Numbers
        <4>q. QED BY <1>6, <4>1, MinOfTwo
      <3>2. keep' \in Int BY <1>5
      <3>3. Min({keep', KeepLast}) <= KeepLast /\ Min({keep', KeepLast}) \in {keep', KeepLast}
        BY <3>1, <3>2, MinOfTwo
      <3>q. QED BY <3>1, <3>2, <3>3
    <2>2. ASSUME NEW note \in Notes, carrier[note] # 0
          PROVE  /\ carrier[note] \in 1..Len(conv)
                 /\ Len(conv[carrier[note]].items) > 0
                 /\ note \in told \/ Crowded(note) \/ carrier[note] = Len(conv)
      BY <1>1, <2>2 DEF Inv, Reached
    <2>3. ASSUME NEW note \in Notes, carrier[note] # 0, Crowded(note) PROVE Crowded(note)'
      <3>1. Len(conv[carrier[note]].items) \in Nat BY <1>2, <2>2, <2>3, ItemsOf
      <3>q. QED BY <1>1, <2>1, <2>3, <3>1 DEF Crowded
    <2>4. at' # "act" BY <1>1
    <2>q. QED BY <1>1, <2>2, <2>3, <2>4 DEF Reached
  <1>q. QED BY <1>7, <1>8, <1>9, <1>10, <1>11, <1>12, <1>13, <1>14, <1>15 DEF Inv

(* The run ends, and nothing else changes. *)
LEMMA EndKeeps ==
    ASSUME Inv, at' \in Ends, turn' = turn,
           UNCHANGED <<conv, live, limits, detectors, thisTurn, observers>>
    PROVE  Inv'
  <1>1. /\ conv' = conv /\ live' = live
        /\ keep' = keep /\ trimAbove' = trimAbove /\ shrunk' = shrunk
        /\ loops' = loops /\ opened' = opened /\ recent' = recent /\ nudgedAt' = nudgedAt
        /\ todo' = todo /\ results' = results /\ circling' = circling /\ due' = due
        /\ unseen' = unseen /\ refused' = refused /\ unsized' = unsized /\ told' = told
        /\ carrier' = carrier
    BY DEF limits, detectors, thisTurn, observers
  <1>2. at' # "trim" /\ at' # "ask" /\ at' # "act" BY DEF Ends
  <1>3. turn' = turn /\ at' \in Ends OBVIOUS
  <1>4. TypeOK' BY <1>1, <1>3 DEF Inv, TypeOK
  <1>5. Counters' BY <1>2 DEF Counters
  <1>6. Paired' BY <1>1, <1>2 DEF Inv, Paired
  <1>7. Ledger' BY <1>2 DEF Ledger
  <1>8. StubsAreStale' BY <1>1 DEF Inv, StubsAreStale
  <1>9. Recovered' BY <1>1, <1>2 DEF Inv, Recovered
  <1>10. Noted' BY <1>2 DEF Noted
  <1>11. RetryTrimmed' BY <1>2 DEF RetryTrimmed, RetryIsTrimmed
  <1>12. Reached' BY <1>1, <1>2 DEF Inv, Reached
  <1>q. QED BY <1>4, <1>5, <1>6, <1>7, <1>8, <1>9, <1>10, <1>11, <1>12 DEF Inv

-----------------------------------------------------------------------------
(* A reply. *)

LEMMA TotalZero ==
    ASSUME NEW s \in Seq(Int), \A i \in 1..Len(s) : s[i] = 0 PROVE Total(s) = 0
  <1>1. PICK f : Sums(s, f) BY SumsExist
  <1>2. /\ f \in [0..Len(s) -> Int] /\ f[0] = 0
        /\ \A m \in 1..Len(s) : f[m] = f[m - 1] + s[m]
    BY <1>1 DEF Sums, RunningSums
  <1> DEFINE T == {n \in Nat : n <= Len(s) => f[n] = 0}
  <1>3. 0 \in T BY <1>2
  <1>4. ASSUME NEW n \in Nat, n \in T PROVE n + 1 \in T
    <2> SUFFICES ASSUME n + 1 <= Len(s) PROVE f[n + 1] = 0
      OBVIOUS
    <2>1. n + 1 \in 1..Len(s) /\ (n + 1) - 1 = n OBVIOUS
    <2>2. f[n + 1] = f[n] + s[n + 1] /\ s[n + 1] = 0 BY <1>2, <2>1
    <2>3. f[n] = 0 BY <1>4
    <2>q. QED BY <2>2, <2>3
  <1> HIDE DEF T
  <1>5. \A n \in Nat : n \in T BY <1>3, <1>4, SetInduction
  <1>6. f[Len(s)] = 0
    <2>1. Len(s) \in T BY <1>5
    <2>q. QED BY <2>1 DEF T
  <1>q. QED BY <1>1, <1>6, TotalIsLast

(* Only its own items come after an item of the last message. *)
LEMMA AfterInLast ==
    ASSUME NEW messages \in Seq(Message), NEW i \in Int, Len(messages) # 0
    PROVE  After(messages, Len(messages), i) = Len(messages[Len(messages)].items) - i
  <1> DEFINE m == Len(messages)
  <1>1. m \in 1..Len(messages) /\ DOMAIN messages = 1..Len(messages) OBVIOUS
  <1>2. /\ Later(messages, m) \in Seq(Int) /\ Len(Later(messages, m)) = Len(messages)
        /\ After(messages, m, i) = Len(messages[m].items) - i + Total(Later(messages, m))
    BY <1>1, AfterFacts
  <1>3. \A n \in 1..Len(messages) : Later(messages, m)[n] = 0 BY <1>1 DEF Later
  <1>4. Total(Later(messages, m)) = 0 BY <1>2, <1>3, TotalZero
  <1>5. Len(messages[m].items) \in Nat BY <1>1, ItemsOf
  <1>q. QED BY <1>2, <1>4, <1>5

(* A note whose result is stubbed rode on one of too many. *)
LEMMA CarriedOrCrowded ==
    ASSUME Inv, at = "ask", NEW note \in Notes, carrier[note] # 0
    PROVE  note \in told \cup Carried \/ Crowded(note)
  <1> DEFINE m == carrier[note]
  <1>1. /\ m \in 1..Len(conv) /\ Len(conv[m].items) > 0
        /\ note \in told \/ Crowded(note) \/ m = Len(conv)
    BY DEF Inv, Reached
  <1>2. CASE m = Len(conv) /\ conv[m].items[1].stub
    <2>1. conv \in Seq(Message) /\ Len(conv) # 0 BY <1>1 DEF Inv, TypeOK
    <2>2. DOMAIN conv[m].items = 1..Len(conv[m].items) /\ Len(conv[m].items) \in Nat
          /\ DOMAIN conv = 1..Len(conv)
      BY <1>1, <2>1, ItemsOf
    <2>3. m \in DOMAIN conv /\ 1 \in DOMAIN conv[m].items BY <1>1, <2>2
    <2>4. After(conv, m, 1) >= Min({keep, KeepLast})
      BY <1>2, <2>3 DEF Inv, StubsAreStale
    <2>5. After(conv, m, 1) = Len(conv[m].items) - 1 BY <1>2, <2>1, AfterInLast
    <2>6. Min({keep, KeepLast}) \in Int
      <3>1. keep \in Int /\ KeepLast \in Int BY Numbers DEF Inv, TypeOK
      <3>q. QED BY <3>1, MinOfTwo
    <2>q. QED BY <2>2, <2>4, <2>5, <2>6 DEF Crowded
  <1>3. CASE m = Len(conv) /\ ~conv[m].items[1].stub BY <1>3 DEF Carried
  <1>4. CASE m # Len(conv) BY <1>1, <1>4
  <1>q. QED BY <1>2, <1>3, <1>4

LEMMA ReplyKeeps ==
    ASSUME NEW calls \in Replies, NEW looped \in BOOLEAN,
           NEW opening \in {"none", "same", "new"},
           Inv, Reply(calls, looped, opening)
    PROVE  Inv'
  <1> DEFINE message == [role |-> "assistant", items |-> Made(calls)]
  <1>1. /\ at = "ask" /\ conv' = Append(conv, message)
        /\ loops' = (IF looped THEN loops + 1 ELSE loops)
        /\ opened' = (IF loops' >= 2 \/ opening = "none" THEN opened
                      ELSE IF opening = "same" THEN opened + 1 ELSE 1)
        /\ due' = (IF looped THEN {"looped"} ELSE {}) \cup
                  (IF opening # "none" /\ opened' >= Openings THEN {"restating"} ELSE {})
        /\ todo' = Sound(calls) /\ results' = <<>> /\ circling' = "no"
        /\ turn' = turn
        /\ at' = (IF loops' >= 2 THEN "looped"
                  ELSE IF todo' = <<>> THEN "answered" ELSE "act")
        /\ unseen' = unseen + Unheard(calls) /\ unsized' = FALSE
        /\ live' = live /\ keep' = keep /\ trimAbove' = trimAbove /\ shrunk' = shrunk
        /\ recent' = recent /\ nudgedAt' = nudgedAt /\ refused' = refused
        /\ told' = told \cup Carried /\ carrier' = carrier
    BY DEF Reply, EndsAs, limits
  <1>2. calls \in Seq(Calls) BY AgentAssumption
  <1>3. /\ Made(calls) \in Seq(Item) /\ Len(Made(calls)) = Len(calls)
        /\ CallsOf(Made(calls)) = calls
        /\ Sizes(Made(calls)) = Total(ArgsOf(calls))
        /\ \A i \in 1..Len(calls) : ~Made(calls)[i].stub
    BY <1>2, MadeFacts
  <1>4. /\ Total(HeardOf(Sound(calls))) + Unheard(calls) = Total(ArgsOf(calls))
        /\ Unheard(calls) \in Nat
        /\ Total(ArgsOf(calls)) \in Nat /\ Total(HeardOf(Sound(calls))) \in Nat
        /\ Sound(calls) \in Seq(Calls)
    BY <1>2, SoundWeighs, SoundType
  <1>5. /\ message \in Message /\ message.items = Made(calls)
        /\ message.role = "assistant"
    BY <1>3 DEF Message
  <1> HIDE DEF message
  <1>6. /\ conv \in Seq(Message) /\ Len(conv) \in Nat /\ live \in Int
        /\ turn \in Nat \ {0} /\ turn <= MaxTurns
        /\ loops \in 0..1 /\ opened \in Nat /\ opened <= turn - 1 /\ unseen \in Nat
    BY <1>1, Numbers DEF Inv, TypeOK, Counters
  <1>7. /\ conv' \in Seq(Message) /\ Len(conv') = Len(conv) + 1
        /\ conv'[Len(conv) + 1] = message
        /\ \A m \in 1..Len(conv) : conv'[m] = conv[m]
        /\ DOMAIN conv' = 1..(Len(conv) + 1) /\ DOMAIN conv = 1..Len(conv)
    BY <1>1, <1>5, <1>6, AppendProperties
  <1>8. Len(conv) % 2 = 0 BY <1>1 DEF Inv, Paired
  <1>9. loops' \in 0..2 /\ (loops' <= 1 \/ loops' >= 2)
    BY <1>1, <1>6
  <1>10. opened' \in Nat /\ opened' <= turn
    BY <1>1, <1>6
  <1>11. at' \in {"looped", "answered", "act"} BY <1>1
  <1>12. at' = "act" => loops' <= 1 /\ todo' # <<>> BY <1>1, <1>9
  <1>13. TypeOK'
    <2>1. TypeOK BY DEF Inv
    <2>2. at' \in {"trim", "ask", "act"} \cup Ends BY <1>11 DEF Ends
    <2>3. opened' \in 0..MaxTurns /\ unseen' \in Nat BY <1>1, <1>4, <1>6, <1>10, Numbers
    <2>4. due' \subseteq Notes BY <1>1 DEF Notes
    <2>5. results' \in Seq(Item) /\ todo' \in Seq(Calls) /\ circling' \in Calls \cup {"no"}
      BY <1>1, <1>4
    <2>6. unsized' \in BOOLEAN BY <1>1
    <2>7. told' \subseteq Notes BY <1>1, <2>1 DEF TypeOK, Carried
    <2>q. QED BY <1>1, <1>7, <1>9, <2>1, <2>2, <2>3, <2>4, <2>5, <2>6, <2>7 DEF TypeOK
  <1>14. Counters' BY <1>1, <1>6, <1>10, <1>11, <1>12 DEF Counters
  <1>15. Paired'
    <2>1. ASSUME NEW m \in DOMAIN conv'
          PROVE  conv'[m].role = IF m % 2 = 1 THEN "assistant" ELSE "results"
      <3>1. CASE m \in 1..Len(conv)
        BY <1>7, <3>1 DEF Inv, Paired
      <3>2. CASE m = Len(conv) + 1
        <4>1. m % 2 = 1 BY <1>6, <1>8, <3>2
        <4>q. QED BY <1>5, <1>7, <3>2, <4>1
      <3>q. QED BY <1>6, <1>7, <2>1, <3>1, <3>2
    <2>2. ASSUME NEW m \in DOMAIN conv', m % 2 = 1, m # Len(conv')
          PROVE  CallsOf(conv'[m + 1].items) = Sound(CallsOf(conv'[m].items))
      <3>1. m \in 1..Len(conv) BY <1>6, <1>7, <2>2
      <3>2. m # Len(conv) /\ m + 1 \in 1..Len(conv) BY <1>6, <1>8, <2>2, <3>1
      <3>3. CallsOf(conv[m + 1].items) = Sound(CallsOf(conv[m].items))
        BY <1>7, <2>2, <3>1, <3>2 DEF Inv, Paired
      <3>q. QED BY <1>7, <3>1, <3>2, <3>3
    <2>3. Len(conv') % 2 = 1 BY <1>6, <1>7, <1>8
    <2>4. CallsOf(results') \o todo' = Sound(CallsOf(conv'[Len(conv')].items))
      <3>1. CallsOf(conv'[Len(conv')].items) = calls BY <1>3, <1>5, <1>7
      <3>2. CallsOf(results') = <<>> BY <1>1 DEF CallsOf
      <3>3. <<>> \o Sound(calls) = Sound(calls) BY <1>4, ConcatEmptySeq
      <3>q. QED BY <1>1, <3>1, <3>2, <3>3
    <2>q. QED BY <1>11, <1>12, <2>1, <2>2, <2>3, <2>4 DEF Paired
  <1>16. Ledger'
    <2>1. live + unseen = Size(conv) BY <1>1 DEF Inv, Ledger
    <2>2. Size(conv') = Size(conv) + Total(ArgsOf(calls))
      BY <1>1, <1>3, <1>5, <1>6, SizeAppend
    <2>3. Sizes(results') = 0
      <3>1. [i \in DOMAIN results' |-> results'[i].size] = <<>> BY <1>1
      <3>q. QED BY <3>1, TotalEmpty DEF Sizes
    <2>4. live' + unseen' + Total(HeardOf(todo')) = Size(conv') + Sizes(results')
      BY <1>1, <1>4, <1>6, <2>1, <2>2, <2>3
    <2>q. QED BY <1>11, <2>4 DEF Ledger
  <1>17. StubsAreStale'
    <2>1. ASSUME NEW m \in DOMAIN conv', NEW i \in DOMAIN conv'[m].items,
                 conv'[m].items[i].stub
          PROVE  After(conv', m, i) >= Min({keep, KeepLast})
      <3>1. CASE m = Len(conv) + 1
        <4>1. conv'[m].items = Made(calls) BY <1>5, <1>7, <3>1
        <4>2. i \in 1..Len(calls) BY <1>3, <4>1
        <4>q. QED BY <1>3, <2>1, <4>1, <4>2
      <3>2. CASE m \in 1..Len(conv)
        <4>1. conv'[m] = conv[m] /\ m \in DOMAIN conv BY <1>7, <3>2
        <4>2. i \in DOMAIN conv[m].items /\ i \in Int BY <1>6, <3>2, <4>1, ItemsOf
        <4>3. After(conv, m, i) >= Min({keep, KeepLast})
          BY <2>1, <4>1, <4>2 DEF Inv, StubsAreStale
        <4>4. After(conv', m, i) >= After(conv, m, i)
          BY <1>1, <1>5, <1>6, <3>2, <4>2, AfterAppend
        <4>5. After(conv, m, i) \in Int BY <1>6, <3>2, <4>2, AfterFacts
        <4>6. m \in 1..Len(conv') BY <1>7
        <4>7. After(conv', m, i) \in Int BY <1>7, <4>2, <4>6, AfterFacts
        <4>8. Min({keep, KeepLast}) \in Int
          <5>1. keep \in Int /\ KeepLast \in Int BY Numbers DEF Inv, TypeOK
          <5>q. QED BY <5>1, MinOfTwo
        <4>q. QED BY <4>3, <4>4, <4>5, <4>7, <4>8
      <3>q. QED BY <1>6, <1>7, <3>1, <3>2
    <2>2. DOMAIN results' = {} BY <1>1
    <2>q. QED BY <1>1, <2>1, <2>2 DEF StubsAreStale
  <1>18. Recovered' BY <1>1, <1>11 DEF Inv, Recovered
  <1>19. Noted'
    <2>1. loops' > 0 => carrier'["looped"] # 0 \/ "looped" \in due'
      BY <1>1, <1>6 DEF Inv, Noted
    <2>2. at' = "act" /\ opened' >= Openings
            => carrier'["restating"] # 0 \/ "restating" \in due'
      <3>1. opened >= Openings => carrier["restating"] # 0 BY <1>1 DEF Inv, Noted
      <3>q. QED BY <1>1, <1>12, <1>9, <3>1
    <2>3. /\ MaxTurns - SlowDown \in 1..(turn - 1)
               => MaxTurns - SlowDown \in refused \/ carrier["slow down"] # 0
          /\ MaxTurns - LandIt \in 1..(turn - 1)
               => MaxTurns - LandIt \in refused \/ carrier["land it"] # 0
      BY <1>1 DEF Inv, Noted
    <2>q. QED BY <1>1, <1>11, <2>1, <2>2, <2>3 DEF Noted
  <1>20. RetryTrimmed' BY <1>1 DEF RetryTrimmed, RetryIsTrimmed
  <1>21. Reached'
    <2>1. ASSUME NEW note \in Notes, carrier[note] # 0
          PROVE  /\ carrier[note] \in 1..Len(conv)
                 /\ Len(conv[carrier[note]].items) > 0
                 /\ note \in told \cup Carried \/ Crowded(note)
      <3>1. /\ carrier[note] \in 1..Len(conv)
            /\ Len(conv[carrier[note]].items) > 0
        BY <2>1 DEF Inv, Reached
      <3>q. QED BY <1>1, <2>1, <3>1, CarriedOrCrowded
    <2>2. ASSUME NEW note \in Notes, carrier[note] # 0
          PROVE  conv'[carrier[note]] = conv[carrier[note]]
      BY <1>7, <2>1, <2>2
    <2>3. \A note \in Notes : carrier[note] # 0 => (Crowded(note) => Crowded(note)')
      BY <1>1, <2>2 DEF Crowded
    <2>4. \A note \in Notes : carrier'[note] # 0 =>
             carrier'[note] \in 1..Len(conv') /\ Len(conv'[carrier'[note]].items) > 0
      BY <1>1, <1>6, <1>7, <2>1, <2>2
    <2>5. \A note \in Notes : carrier'[note] # 0 => note \in told' \/ Crowded(note)'
      BY <1>1, <2>1, <2>3
    <2>q. QED BY <1>11, <2>4, <2>5 DEF Reached
  <1>q. QED BY <1>13, <1>14, <1>15, <1>16, <1>17, <1>18, <1>19, <1>20, <1>21 DEF Inv

-----------------------------------------------------------------------------
(* The calls of a turn. *)

LEMMA HeardOfTail ==
    ASSUME NEW calls \in Seq(Calls), calls # <<>>
    PROVE  Total(HeardOf(calls)) = Heard(Head(calls)) + Total(HeardOf(Tail(calls)))
  <1> DEFINE t == Tail(calls)
  <1>1. /\ t \in Seq(Calls) /\ Len(calls) >= 1 /\ Len(t) = Len(calls) - 1
        /\ \A i \in 1..Len(t) : t[i] = calls[i + 1]
        /\ Head(calls) = calls[1]
    BY HeadTailProperties
  <1> HIDE DEF t
  <1>2. /\ HeardOf(calls) \in Seq(Int) /\ Len(HeardOf(calls)) = Len(calls)
        /\ \A i \in 1..Len(calls) : HeardOf(calls)[i] = Heard(calls[i])
    BY HeardOfType
  <1>3. /\ HeardOf(t) \in Seq(Int) /\ Len(HeardOf(t)) = Len(t)
        /\ \A i \in 1..Len(t) : HeardOf(t)[i] = Heard(t[i])
    BY <1>1, HeardOfType
  <1> DEFINE u == Tail(HeardOf(calls))
  <1>4. HeardOf(calls) # <<>> BY <1>1, <1>2
  <1>5. /\ u \in Seq(Int) /\ Len(u) = Len(calls) - 1
        /\ \A i \in 1..Len(u) : u[i] = HeardOf(calls)[i + 1]
    BY <1>2, <1>4, HeadTailProperties
  <1>6. Total(HeardOf(calls)) = HeardOf(calls)[1] + Total(u) BY <1>2, <1>4, TotalTail
  <1> HIDE DEF u
  <1>7. ASSUME NEW i \in 1..Len(u) PROVE HeardOf(t)[i] = u[i]
    <2>1. i \in 1..Len(t) /\ i + 1 \in 1..Len(calls) BY <1>1, <1>5
    <2>q. QED BY <1>1, <1>2, <1>3, <1>5, <2>1
  <1>8. HeardOf(t) = u BY <1>1, <1>3, <1>5, <1>7, SeqEqual
  <1>9. HeardOf(calls)[1] = Heard(Head(calls)) BY <1>1, <1>2
  <1>q. QED BY <1>6, <1>8, <1>9 DEF t

(* The first of what is to come, moved to what has been. *)
LEMMA MoveOne ==
    ASSUME NEW S, NEW s \in Seq(S), NEW t \in Seq(S), t # <<>>
    PROVE  Append(s, Head(t)) \o Tail(t) = s \o t
  <1> DEFINE x == Head(t)  r == Tail(t)
  <1>1. x \in S /\ r \in Seq(S) /\ t = <<x>> \o r
    BY HeadTailProperties
  <1> HIDE DEF x, r
  <1>2. Append(s, x) = s \o <<x>> BY <1>1
  <1>3. <<x>> \in Seq(S) BY <1>1
  <1>4. (s \o <<x>>) \o r = s \o (<<x>> \o r) BY <1>1, <1>3, ConcatAssociative
  <1>q. QED BY <1>1, <1>2, <1>4 DEF x, r

LEMMA DispatchKeeps ==
    ASSUME NEW size \in Nat, Inv, at = "act", todo # <<>>,
           Dispatch, Receive(Head(todo), size),
           recent' \in Seq(Calls), Len(recent') <= Window,
           nudgedAt' \in [Calls -> 0..MaxTurns], circling' \in Calls \cup {"no"}
    PROVE  Inv'
  <1> DEFINE c == Head(todo)
             item == [call |-> c, size |-> size, stub |-> FALSE]
  <1>1. /\ at' = at /\ turn' = turn /\ conv' = conv
        /\ keep' = keep /\ trimAbove' = trimAbove /\ shrunk' = shrunk
        /\ loops' = loops /\ opened' = opened /\ due' = due
        /\ unseen' = unseen /\ refused' = refused /\ unsized' = unsized /\ told' = told
        /\ carrier' = carrier
        /\ todo' = Tail(todo) /\ results' = Append(results, item)
        /\ live' = live + Heard(c) + size
    BY DEF Dispatch, Receive, limits, observers
  <1>2. /\ todo \in Seq(Calls) /\ results \in Seq(Item) /\ conv \in Seq(Message)
        /\ live \in Int /\ unseen \in Nat
    BY DEF Inv, TypeOK
  <1>3. c \in Calls /\ todo' \in Seq(Calls) BY <1>1, <1>2, HeadTailProperties
  <1>4. item \in Item /\ item.call = c /\ item.size = size /\ ~item.stub BY <1>3 DEF Item
  <1>5. Heard(c) \in Nat BY <1>3, HeardType
  <1>6. Total(HeardOf(todo)) = Heard(c) + Total(HeardOf(todo'))
    BY <1>1, <1>2, HeardOfTail
  <1>7. CallsOf(results) \in Seq(Calls) BY <1>2, CallsOfType
  <1>8. Append(CallsOf(results), c) \o todo' = CallsOf(results) \o todo
    BY <1>1, <1>2, <1>7, MoveOne
  <1> HIDE DEF c, item
  <1>9. CallsOf(results') = Append(CallsOf(results), c)
    BY <1>1, <1>2, <1>4, CallsOfAppend
  <1>10. Sizes(results') = Sizes(results) + size BY <1>1, <1>2, <1>4, SizesAppend
  <1>11. /\ results' \in Seq(Item) /\ Len(results') = Len(results) + 1
         /\ results'[Len(results) + 1] = item
         /\ \A i \in 1..Len(results) : results'[i] = results[i]
         /\ Len(results) \in Nat
         /\ DOMAIN results' = 1..(Len(results) + 1) /\ DOMAIN results = 1..Len(results)
    BY <1>1, <1>2, <1>4, AppendProperties
  <1>12. TypeOK'
    <2>1. TypeOK BY DEF Inv
    <2>2. live' \in Int BY <1>1, <1>2, <1>5
    <2>q. QED BY <1>1, <1>3, <1>11, <2>1, <2>2 DEF TypeOK
  <1>13. Counters' BY <1>1 DEF Inv, Counters
  <1>14. Paired'
    <2>1. results' # <<>> BY <1>11
    <2>2. CallsOf(results') \o todo' = Sound(CallsOf(conv[Len(conv)].items))
      BY <1>8, <1>9 DEF Inv, Paired
    <2>q. QED BY <1>1, <2>1, <2>2 DEF Inv, Paired
  <1>15. Ledger'
    <2>1. live + unseen + Total(HeardOf(todo)) = Size(conv) + Sizes(results)
      BY DEF Inv, Ledger
    <2>2. /\ Total(HeardOf(todo')) \in Int /\ Size(conv) \in Int /\ Sizes(results) \in Int
      BY <1>2, <1>3, HeardOfType, TotalType, HeightsType, WeightsType
    <2>3. live' + unseen + Total(HeardOf(todo')) = Size(conv) + Sizes(results')
      <3> DEFINE t == Total(HeardOf(todo'))  a == Heard(c)
                 x == Size(conv)  y == Sizes(results)  z == Sizes(results')
      <3>1. t \in Int /\ a \in Int /\ x \in Int /\ y \in Int BY <1>5, <2>2
      <3>2. live' = live + a + size /\ z = y + size BY <1>1, <1>10
      <3>3. live + unseen + (a + t) = x + y BY <1>6, <2>1
      <3> HIDE DEF t, a, x, y, z
      <3>4. live' + unseen + t = x + z BY <1>2, <3>1, <3>2, <3>3
      <3>q. QED BY <3>4 DEF t, x, z
    <2>4. at' = "act" BY <1>1
    <2>q. QED BY <1>1, <2>3, <2>4 DEF Ledger
  <1>16. StubsAreStale'
    <2>1. \A i \in DOMAIN results : ~results[i].stub BY DEF Inv, StubsAreStale
    <2>2. \A i \in DOMAIN results' : ~results'[i].stub BY <1>4, <1>11, <2>1
    <2>q. QED BY <1>1, <2>2 DEF Inv, StubsAreStale
  <1>17. Recovered'
    <2>1. at' # "trim" BY <1>1
    <2>q. QED BY <1>1, <2>1 DEF Inv, Recovered
  <1>18. Noted' BY <1>1 DEF Inv, Noted
  <1>19. RetryTrimmed'
    <2>1. at' # "ask" BY <1>1
    <2>q. QED BY <2>1 DEF RetryTrimmed, RetryIsTrimmed
  <1>20. Reached' BY <1>1 DEF Inv, Reached, Crowded
  <1>q. QED BY <1>12, <1>13, <1>14, <1>15, <1>16, <1>17, <1>18, <1>19, <1>20 DEF Inv

LEMMA RememberType ==
    ASSUME NEW c \in Calls, Inv, Remember(c)
    PROVE  recent' \in Seq(Calls) /\ Len(recent') <= Window
  <1> DEFINE all == Append(recent, c)
  <1>1. recent \in Seq(Calls) /\ Len(recent) <= Window BY DEF Inv, TypeOK
  <1>2. all \in Seq(Calls) /\ Len(all) = Len(recent) + 1 /\ all # <<>>
    BY <1>1, AppendProperties
  <1>3. Tail(all) \in Seq(Calls) /\ Len(Tail(all)) = Len(all) - 1
    BY <1>2, HeadTailProperties
  <1>4. recent' = IF Len(all) <= Window THEN all ELSE Tail(all) BY DEF Remember
  <1>5. Len(recent) \in Nat /\ Window \in Nat BY <1>1, Numbers
  <1> HIDE DEF all
  <1>q. QED BY <1>1, <1>2, <1>3, <1>4, <1>5

LEMMA CallKeeps == Inv /\ (Read \/ Progress \/ Nudge \/ Circle) => Inv'
  <1> SUFFICES ASSUME Inv, Read \/ Progress \/ Nudge \/ Circle PROVE Inv' OBVIOUS
  <1>1. Dispatch BY DEF Read, Progress, Nudge, Circle
  <1>2. at = "act" /\ todo # <<>> BY <1>1 DEF Dispatch
  <1>3. todo \in Seq(Calls) /\ turn \in 1..(MaxTurns + 1) /\ turn <= MaxTurns
    BY <1>2 DEF Inv, TypeOK, Counters
  <1>4. Head(todo) \in Calls BY <1>2, <1>3, HeadTailProperties
  <1>5. ResultSize[Head(todo)] \in Nat /\ ResultSize[Head(todo)] + Note \in Nat
    BY <1>4, Numbers, AgentAssumption
  <1>6. /\ recent \in Seq(Calls) /\ Len(recent) <= Window
        /\ nudgedAt \in [Calls -> 0..MaxTurns] /\ circling \in Calls \cup {"no"}
    BY DEF Inv, TypeOK
  <1>7. CASE Read
    <2>1. /\ Receive(Head(todo), ResultSize[Head(todo)])
          /\ recent' = recent /\ nudgedAt' = nudgedAt /\ circling' = circling
      BY <1>7 DEF Read
    <2>q. QED BY <1>1, <1>2, <1>5, <1>6, <2>1, DispatchKeeps
  <1>8. CASE Progress
    <2>1. /\ Receive(Head(todo), ResultSize[Head(todo)]) /\ Remember(Head(todo))
          /\ nudgedAt' = nudgedAt /\ circling' = circling
      BY <1>8 DEF Progress
    <2>2. recent' \in Seq(Calls) /\ Len(recent') <= Window BY <1>4, <2>1, RememberType
    <2>q. QED BY <1>1, <1>2, <1>5, <1>6, <2>1, <2>2, DispatchKeeps
  <1>9. CASE Nudge
    <2>1. /\ Receive(Head(todo), ResultSize[Head(todo)] + Note) /\ Remember(Head(todo))
          /\ nudgedAt' = [nudgedAt EXCEPT ![Head(todo)] = turn] /\ circling' = circling
      BY <1>9 DEF Nudge
    <2>2. recent' \in Seq(Calls) /\ Len(recent') <= Window BY <1>4, <2>1, RememberType
    <2>3. turn \in 0..MaxTurns BY <1>3, Numbers
    <2>4. nudgedAt' \in [Calls -> 0..MaxTurns] BY <1>6, <2>1, <2>3
    <2>q. QED BY <1>1, <1>2, <1>5, <1>6, <2>1, <2>2, <2>4, DispatchKeeps
  <1>10. CASE Circle
    <2>1. /\ Receive(Head(todo), ResultSize[Head(todo)]) /\ Remember(Head(todo))
          /\ nudgedAt' = nudgedAt /\ circling' = Head(todo)
      BY <1>10 DEF Circle
    <2>2. recent' \in Seq(Calls) /\ Len(recent') <= Window BY <1>4, <2>1, RememberType
    <2>q. QED BY <1>1, <1>2, <1>4, <1>5, <1>6, <2>1, <2>2, DispatchKeeps
  <1>q. QED BY <1>7, <1>8, <1>9, <1>10

-----------------------------------------------------------------------------
(* The end of a turn. *)

LEMMA BudgetNoteFacts ==
    /\ BudgetNote \subseteq Notes /\ IsFiniteSet(BudgetNote)
    /\ MaxTurns - turn = SlowDown => "slow down" \in BudgetNote
    /\ MaxTurns - turn = LandIt => "land it" \in BudgetNote
  <1>1. BudgetNote = IF MaxTurns - turn = SlowDown THEN {"slow down"}
                     ELSE IF MaxTurns - turn = LandIt THEN {"land it"} ELSE {}
    BY Numbers DEF BudgetNote
  <1>2. IsFiniteSet({}) /\ IsFiniteSet({"slow down"}) /\ IsFiniteSet({"land it"})
    BY FS_EmptySet, FS_Singleton
  <1>q. QED BY <1>1, <1>2, Numbers DEF Notes

LEMMA NotesAreFinite == IsFiniteSet(Notes)
  <1>1. IsFiniteSet({"looped"}) BY FS_Singleton
  <1>2. IsFiniteSet({"looped"} \cup {"restating"}) BY <1>1, FS_AddElement
  <1>3. IsFiniteSet(({"looped"} \cup {"restating"}) \cup {"slow down"})
    BY <1>2, FS_AddElement
  <1>4. IsFiniteSet((({"looped"} \cup {"restating"}) \cup {"slow down"}) \cup {"land it"})
    BY <1>3, FS_AddElement
  <1>5. Notes = (({"looped"} \cup {"restating"}) \cup {"slow down"}) \cup {"land it"}
    BY DEF Notes
  <1>q. QED BY <1>4, <1>5

LEMMA GoOnKeeps == Inv /\ GoOn => Inv'
  <1> SUFFICES ASSUME Inv, GoOn PROVE Inv' OBVIOUS
  <1> DEFINE notes == due \cup BudgetNote
             d == Note * Cardinality(notes)
             items == [results EXCEPT ![1].size = @ + d]
             message == [role |-> "results", items |-> items]
  <1>1. /\ at = "act" /\ todo = <<>> /\ circling = "no"
        /\ conv' = Append(conv, message)
        /\ unseen' = unseen + d /\ told' = told
        /\ carrier' = [note \in Notes |->
                         IF note \in notes THEN Len(conv) + 1 ELSE carrier[note]]
        /\ turn' = turn + 1 /\ at' = (IF turn < MaxTurns THEN "trim" ELSE "capped")
        /\ todo' = <<>> /\ results' = <<>> /\ circling' = "no" /\ due' = {}
        /\ live' = live /\ keep' = keep /\ trimAbove' = trimAbove /\ shrunk' = shrunk
        /\ loops' = loops /\ opened' = opened /\ recent' = recent /\ nudgedAt' = nudgedAt
        /\ refused' = refused /\ unsized' = unsized
    BY DEF GoOn, Deliver, NextTurn, limits, detectors
  <1>2. notes \subseteq Notes /\ due \subseteq notes /\ BudgetNote \subseteq notes
    BY BudgetNoteFacts DEF Inv, TypeOK
  <1>3. d \in Nat
    <2>1. IsFiniteSet(notes) BY <1>2, NotesAreFinite, FS_Subset
    <2>2. Cardinality(notes) \in Nat BY <2>1, FS_CardinalityType
    <2> HIDE DEF notes
    <2>3. \A a \in Nat, b \in Nat : a * b \in Nat OBVIOUS
    <2>q. QED BY <2>2, <2>3, Numbers
  <1> HIDE DEF notes, d
  <1>4. /\ conv \in Seq(Message) /\ Len(conv) \in Nat /\ results \in Seq(Item)
        /\ live \in Int /\ unseen \in Nat /\ turn \in Nat \ {0} /\ turn <= MaxTurns
        /\ opened \in Nat /\ opened <= turn /\ loops \in 0..1
    BY <1>1, Numbers DEF Inv, TypeOK, Counters
  <1>5. results # <<>> BY <1>1 DEF Inv, Paired
  <1>6. /\ items \in Seq(Item) /\ Len(items) = Len(results)
        /\ Sizes(items) = Sizes(results) + d
        /\ \A i \in 1..Len(results) : /\ items[i].call = results[i].call
                                      /\ items[i].stub = results[i].stub
    BY <1>3, <1>4, <1>5, SizesFirst
  <1> HIDE DEF items
  <1>7. /\ message \in Message /\ message.items = items /\ message.role = "results"
    BY <1>6 DEF Message
  <1> HIDE DEF message
  <1>8. /\ conv' \in Seq(Message) /\ Len(conv') = Len(conv) + 1
        /\ conv'[Len(conv) + 1] = message
        /\ \A m \in 1..Len(conv) : conv'[m] = conv[m]
        /\ DOMAIN conv' = 1..(Len(conv) + 1) /\ DOMAIN conv = 1..Len(conv)
    BY <1>1, <1>4, <1>7, AppendProperties
  <1>9. Len(conv) % 2 = 1 BY <1>1 DEF Inv, Paired
  <1>10. CallsOf(items) = Sound(CallsOf(conv[Len(conv)].items))
    <2>1. CallsOf(items) = CallsOf(results) BY <1>4, <1>6, SameCalls
    <2>2. CallsOf(results) \o <<>> = Sound(CallsOf(conv[Len(conv)].items))
      BY <1>1 DEF Inv, Paired
    <2>3. CallsOf(results) \in Seq(Calls) BY <1>4, CallsOfType
    <2>q. QED BY <2>1, <2>2, <2>3, ConcatEmptySeq
  <1>11. at' \in {"trim", "capped"} /\ (at' = "trim" => turn' <= MaxTurns)
    BY <1>1, <1>4, Numbers
  <1>12. TypeOK'
    <2>1. TypeOK BY DEF Inv
    <2>2. at' \in {"trim", "ask", "act"} \cup Ends BY <1>11 DEF Ends
    <2>3. turn' \in 1..(MaxTurns + 1) /\ unseen' \in Nat BY <1>1, <1>3, <1>4, Numbers
    <2>4. /\ due' \subseteq Notes /\ told' \subseteq Notes
          /\ carrier' \in [Notes -> Nat]
      BY <1>1, <1>2, <1>4, <2>1 DEF TypeOK
    <2>5. results' \in Seq(Item) /\ todo' \in Seq(Calls) /\ circling' \in Calls \cup {"no"}
      BY <1>1
    <2>q. QED BY <1>1, <1>8, <2>1, <2>2, <2>3, <2>4, <2>5 DEF TypeOK
  <1>13. Counters' BY <1>1, <1>4, <1>11 DEF Counters
  <1>14. Paired'
    <2>1. ASSUME NEW m \in DOMAIN conv'
          PROVE  conv'[m].role = IF m % 2 = 1 THEN "assistant" ELSE "results"
      <3>1. CASE m \in 1..Len(conv)
        BY <1>8, <3>1 DEF Inv, Paired
      <3>2. CASE m = Len(conv) + 1
        <4>1. m % 2 # 1 BY <1>4, <1>9, <3>2
        <4>q. QED BY <1>7, <1>8, <3>2, <4>1
      <3>q. QED BY <1>4, <1>8, <2>1, <3>1, <3>2
    <2>2. ASSUME NEW m \in DOMAIN conv', m % 2 = 1, m # Len(conv')
          PROVE  CallsOf(conv'[m + 1].items) = Sound(CallsOf(conv'[m].items))
      <3>1. m \in 1..Len(conv) BY <1>4, <1>8, <2>2
      <3>2. CASE m # Len(conv)
        <4>1. m + 1 \in 1..Len(conv) BY <1>4, <3>1, <3>2
        <4>2. CallsOf(conv[m + 1].items) = Sound(CallsOf(conv[m].items))
          BY <1>8, <2>2, <3>1, <3>2 DEF Inv, Paired
        <4>q. QED BY <1>8, <3>1, <4>1, <4>2
      <3>3. CASE m = Len(conv)
        BY <1>7, <1>8, <1>10, <3>1, <3>3
      <3>q. QED BY <3>2, <3>3
    <2>3. Len(conv') % 2 = 0 BY <1>4, <1>8, <1>9
    <2>q. QED BY <1>11, <2>1, <2>2, <2>3 DEF Paired
  <1>15. Ledger'
    <2>1. live + unseen + Total(HeardOf(todo)) = Size(conv) + Sizes(results)
      BY <1>1 DEF Inv, Ledger
    <2>2. Total(HeardOf(todo)) = 0
      <3>1. HeardOf(todo) = <<>> BY <1>1 DEF HeardOf
      <3>q. QED BY <3>1, TotalEmpty
    <2>3. Size(conv') = Size(conv) + Sizes(items)
      BY <1>1, <1>4, <1>7, SizeAppend
    <2>4. Size(conv) \in Int /\ Sizes(results) \in Int
      BY <1>4, HeightsType, WeightsType
    <2>5. live' + unseen' = Size(conv')
      <3> DEFINE x == Size(conv)  y == Sizes(results)  z == Size(conv')
      <3>1. x \in Int /\ y \in Int BY <2>4
      <3>2. live' = live /\ unseen' = unseen + d /\ z = x + (y + d) BY <1>1, <1>6, <2>3
      <3>3. live + unseen + 0 = x + y BY <2>1, <2>2
      <3> HIDE DEF x, y, z
      <3>4. live' + unseen' = z BY <1>3, <1>4, <3>1, <3>2, <3>3
      <3>q. QED BY <3>4 DEF z
    <2>q. QED BY <1>11, <2>5 DEF Ledger
  <1>16. StubsAreStale'
    <2>1. ASSUME NEW m \in DOMAIN conv', NEW i \in DOMAIN conv'[m].items,
                 conv'[m].items[i].stub
          PROVE  After(conv', m, i) >= Min({keep, KeepLast})
      <3>1. CASE m = Len(conv) + 1
        <4>1. conv'[m].items = items BY <1>7, <1>8, <3>1
        <4>2. i \in 1..Len(results) /\ i \in DOMAIN results BY <1>4, <1>6, <4>1
        <4>3. ~results[i].stub BY <4>2 DEF Inv, StubsAreStale
        <4>q. QED BY <1>6, <2>1, <4>1, <4>2, <4>3
      <3>2. CASE m \in 1..Len(conv)
        <4>1. conv'[m] = conv[m] /\ m \in DOMAIN conv BY <1>8, <3>2
        <4>2. i \in DOMAIN conv[m].items /\ i \in Int BY <1>4, <3>2, <4>1, ItemsOf
        <4>3. After(conv, m, i) >= Min({keep, KeepLast})
          BY <2>1, <4>1, <4>2 DEF Inv, StubsAreStale
        <4>4. After(conv', m, i) >= After(conv, m, i)
          BY <1>1, <1>4, <1>7, <3>2, <4>2, AfterAppend
        <4>5. After(conv, m, i) \in Int BY <1>4, <3>2, <4>2, AfterFacts
        <4>6. m \in 1..Len(conv') BY <1>8
        <4>7. After(conv', m, i) \in Int BY <1>8, <4>2, <4>6, AfterFacts
        <4>8. Min({keep, KeepLast}) \in Int
          <5>1. keep \in Int /\ KeepLast \in Int BY Numbers DEF Inv, TypeOK
          <5>q. QED BY <5>1, MinOfTwo
        <4>q. QED BY <4>3, <4>4, <4>5, <4>7, <4>8
      <3>q. QED BY <1>4, <1>8, <3>1, <3>2
    <2>2. DOMAIN results' = {} BY <1>1
    <2>q. QED BY <1>1, <2>1, <2>2 DEF StubsAreStale
  <1>17. Recovered'
    <2>1. (~shrunk => keep = KeepLast /\ refused = {})
          /\ (shrunk => \E t \in 1..MaxTurns : refused = {t})
      BY DEF Inv, Recovered
    <2>2. ~unsized BY <1>1 DEF Inv, Recovered
    <2>q. QED BY <1>1, <1>11, <2>1, <2>2 DEF Recovered
  <1>18. \A note \in Notes :
            /\ note \in notes => carrier'[note] = Len(conv) + 1
            /\ note \notin notes => carrier'[note] = carrier[note]
    BY <1>1
  <1>21. Noted'
    <2>0. /\ "looped" \in Notes /\ "restating" \in Notes
          /\ "slow down" \in Notes /\ "land it" \in Notes
      BY DEF Notes
    <2>1. /\ loops > 0 => carrier["looped"] # 0 \/ "looped" \in due
          /\ opened >= Openings => carrier["restating"] # 0 \/ "restating" \in due
          /\ MaxTurns - SlowDown \in 1..(turn - 1)
               => MaxTurns - SlowDown \in refused \/ carrier["slow down"] # 0
          /\ MaxTurns - LandIt \in 1..(turn - 1)
               => MaxTurns - LandIt \in refused \/ carrier["land it"] # 0
      BY <1>1 DEF Inv, Noted
    <2>2. \A note \in Notes : carrier[note] # 0 \/ note \in notes => carrier'[note] # 0
      BY <1>4, <1>18
    <2>3. ASSUME NEW n \in Int, n \in 1..(turn' - 1) PROVE n \in 1..(turn - 1) \/ n = turn
      BY <1>1, <1>4, <2>3
    <2>4. MaxTurns - SlowDown \in Int /\ MaxTurns - LandIt \in Int BY Numbers
    <2>5. MaxTurns - SlowDown = turn => carrier'["slow down"] # 0
      <3>1. MaxTurns - SlowDown = turn => MaxTurns - turn = SlowDown BY <1>4, Numbers
      <3>2. MaxTurns - turn = SlowDown => "slow down" \in notes BY <1>2, BudgetNoteFacts
      <3>q. QED BY <2>0, <2>2, <3>1, <3>2
    <2>6. MaxTurns - LandIt = turn => carrier'["land it"] # 0
      <3>1. MaxTurns - LandIt = turn => MaxTurns - turn = LandIt BY <1>4, Numbers
      <3>2. MaxTurns - turn = LandIt => "land it" \in notes BY <1>2, BudgetNoteFacts
      <3>q. QED BY <2>0, <2>2, <3>1, <3>2
    <2>7. /\ MaxTurns - SlowDown \in 1..(turn' - 1)
               => MaxTurns - SlowDown \in refused' \/ carrier'["slow down"] # 0
          /\ MaxTurns - LandIt \in 1..(turn' - 1)
               => MaxTurns - LandIt \in refused' \/ carrier'["land it"] # 0
      BY <1>1, <2>0, <2>1, <2>2, <2>3, <2>4, <2>5, <2>6
    <2>8. /\ loops' > 0 => carrier'["looped"] # 0
          /\ opened' >= Openings => carrier'["restating"] # 0
      BY <1>1, <1>2, <2>0, <2>1, <2>2
    <2>q. QED BY <1>11, <2>7, <2>8 DEF Noted
  <1>22. Reached'
    <2>0. Len(items) > 0 /\ Len(results) \in Nat BY <1>4, <1>5, <1>6, EmptySeq
    <2>1. ASSUME NEW note \in Notes, note \notin notes, carrier[note] # 0
          PROVE  /\ carrier[note] \in 1..Len(conv)
                 /\ Len(conv[carrier[note]].items) > 0
                 /\ note \in told \/ Crowded(note)
                 /\ carrier'[note] = carrier[note]
                 /\ conv'[carrier[note]] = conv[carrier[note]]
      <3>1. /\ carrier[note] \in 1..Len(conv)
            /\ Len(conv[carrier[note]].items) > 0
            /\ note \in told \/ Crowded(note)
        BY <1>1, <2>1 DEF Inv, Reached
      <3>q. QED BY <1>8, <1>18, <2>1, <3>1
    <2>2. ASSUME NEW note \in Notes, carrier'[note] # 0
          PROVE  /\ carrier'[note] \in 1..Len(conv')
                 /\ Len(conv'[carrier'[note]].items) > 0
                 /\ note \in told' \/ Crowded(note)' \/ carrier'[note] = Len(conv')
      <3>1. CASE note \in notes
        <4>1. carrier'[note] = Len(conv) + 1 BY <1>18, <3>1
        <4>q. QED BY <1>4, <1>7, <1>8, <2>0, <4>1
      <3>2. CASE note \notin notes
        <4>1. carrier[note] # 0 BY <1>18, <2>2, <3>2
        <4>2. /\ carrier'[note] = carrier[note] /\ conv'[carrier[note]] = conv[carrier[note]]
              /\ carrier[note] \in 1..Len(conv) /\ Len(conv[carrier[note]].items) > 0
              /\ note \in told \/ Crowded(note)
          BY <2>1, <3>2, <4>1
        <4>3. Crowded(note) => Crowded(note)' BY <1>1, <4>2 DEF Crowded
        <4>q. QED BY <1>1, <1>4, <1>8, <4>2, <4>3
      <3>q. QED BY <3>1, <3>2
    <2>q. QED BY <1>11, <2>2 DEF Reached
  <1>19. RetryTrimmed'
    <2>1. at' # "ask" BY <1>11
    <2>q. QED BY <2>1 DEF RetryTrimmed, RetryIsTrimmed
  <1>q. QED BY <1>12, <1>13, <1>14, <1>15, <1>16, <1>17, <1>19, <1>21, <1>22 DEF Inv

-----------------------------------------------------------------------------
LEMMA StepKeeps == Inv /\ [Next]_vars => Inv'
  <1> SUFFICES ASSUME Inv, [Next]_vars PROVE Inv' OBVIOUS
  <1>1. CASE UNCHANGED vars BY <1>1, StutterKeeps
  <1>2. CASE Trim BY <1>2, TrimKeeps
  <1>3. CASE Ask
    <2>1. ASSUME NEW ceiling \in Ceilings \cup {Unsized}, Recover(ceiling) PROVE Inv'
      BY <2>1, RecoverKeeps
    <2>2. CASE Raise
      <3>1. at' \in Ends /\ turn' = turn BY <2>2 DEF Raise, EndsAs, Ends
      <3>2. UNCHANGED <<conv, live, limits, detectors, thisTurn, observers>>
        BY <2>2 DEF Raise
      <3>q. QED BY <3>1, <3>2, EndKeeps
    <2>3. ASSUME NEW calls \in Replies, NEW looped \in BOOLEAN,
                 NEW opening \in {"none", "same", "new"}, Reply(calls, looped, opening)
          PROVE  Inv'
      BY <2>3, ReplyKeeps
    <2>q. QED BY <1>3, <2>1, <2>2, <2>3 DEF Ask
  <1>4. CASE Act
    <2>1. CASE Read \/ Progress \/ Nudge \/ Circle BY <2>1, CallKeeps
    <2>2. CASE Stop
      <3>1. at' \in Ends /\ turn' = turn BY <2>2 DEF Stop, EndsAs, Ends
      <3>2. UNCHANGED <<conv, live, limits, detectors, thisTurn, observers>>
        BY <2>2 DEF Stop
      <3>q. QED BY <3>1, <3>2, EndKeeps
    <2>3. CASE GoOn BY <2>3, GoOnKeeps
    <2>q. QED BY <1>4, <2>1, <2>2, <2>3 DEF Act
  <1>q. QED BY <1>1, <1>2, <1>3, <1>4 DEF Next

LEMMA Always == Spec => []Inv
  BY InitHolds, StepKeeps, PTL DEF Spec

(* Every variable of the loop holds a value of its kind: at most one warned  *)
(* loop goes on, a turn past the cap is never begun, the window of recent    *)
(* calls never outgrows its length (run_agent, RepetitionDetector.observe).  *)
THEOREM TypesHold == Spec => []TypeOK
  <1>1. Inv => TypeOK BY DEF Inv
  <1>q. QED BY <1>1, Always, PTL

(* Whatever the replies, a prompt pairs every dispatched call with its       *)
(* result, in order (run_agent, _dispatch and both collapses).               *)
THEOREM PromptsArePaired == Spec => []CallsAreAnswered
  <1>1. Inv => CallsAreAnswered
    <2> SUFFICES ASSUME Inv, at = "ask" PROVE CallsAreAnswered
      BY DEF CallsAreAnswered
    <2>1. conv \in Seq(Message) /\ Len(conv) \in Nat /\ DOMAIN conv = 1..Len(conv)
      BY DEF Inv, TypeOK
    <2>2. Len(conv) % 2 = 0 BY DEF Inv, Paired
    <2>3. \A m \in DOMAIN conv :
             conv[m].role = IF m % 2 = 1 THEN "assistant" ELSE "results"
      BY DEF Inv, Paired
    <2>4. ASSUME NEW m \in DOMAIN conv, m % 2 = 1
          PROVE  CallsOf(conv[m + 1].items) = Sound(CallsOf(conv[m].items))
      <3>1. m # Len(conv) BY <2>2, <2>4
      <3>q. QED BY <2>4, <3>1 DEF Inv, Paired
    <2>q. QED BY <2>2, <2>3, <2>4 DEF CallsAreAnswered, CallsOf
  <1>q. QED BY <1>1, Always, PTL

(* The ledger and what it never hears of make up the conversation, whatever  *)
(* was collapsed, noted, dropped as malformed or sent with arguments that    *)
(* are no JSON and stay in their message as they are (context_budget.Ledger).*)
THEOREM LedgerKeepsStep == Spec => []LedgerInStep
  <1>1. Inv => LedgerInStep BY DEF Inv, Ledger, LedgerInStep
  <1>q. QED BY <1>1, Always, PTL

(* The last keep_last_results items of a role are never collapsed, nor those *)
(* that a lowered keep_last_results still keeps (collapse_stale_results).    *)
THEOREM RecentItemsStay == Spec => []RecentStayVerbatim
  <1>1. Inv => RecentStayVerbatim BY DEF Inv, StubsAreStale, RecentStayVerbatim
  <1>q. QED BY <1>1, Always, PTL

(* As long as the ledger is not below zero, the prompt after a refusal that  *)
(* named no size keeps no bulky result it may drop (run_agent).              *)
THEOREM RetriesAreTrimmed == Spec => [](live >= 0 => RetryIsTrimmed)
  <1>1. Inv => (live >= 0 => RetryIsTrimmed) BY DEF Inv, RetryTrimmed
  <1>q. QED BY <1>1, Always, PTL

(* At most one prompt of a run is ever refused and recovered from: the flag  *)
(* run_agent sets is never cleared.                                          *)
THEOREM RecoveryIsOnce == Spec => []OneRecovery
  <1>1. Inv => OneRecovery
    <2> SUFFICES ASSUME Inv PROVE OneRecovery OBVIOUS
    <2>1. refused = {} \/ \E t \in 1..MaxTurns : refused = {t}
      BY DEF Inv, Recovered, TypeOK
    <2>2. Cardinality({}) = 0 /\ \A t : Cardinality({t}) = 1 BY FS_EmptySet, FS_Singleton
    <2>3. Cardinality(refused) <= 1 BY <2>1, <2>2
    <2>q. QED BY <2>3 DEF OneRecovery
  <1>q. QED BY <1>1, Always, PTL

(* What the loop holds against the model was in a prompt the model replied   *)
(* to, or is in this one, for any caps, strikes and budgets; but for a turn  *)
(* that was refused, and for replies of more calls than stay verbatim, whose *)
(* first result is trimmed with the notes on it (run_agent, _budget_note).   *)
THEOREM WarningsComeFirst == Spec => []NotesAreDelivered
  <1>1. Inv => NotesAreDelivered
    <2> SUFFICES ASSUME Inv, at = "ask" PROVE NotesAreDelivered
      BY DEF NotesAreDelivered
    <2>1. /\ loops > 0 => carrier["looped"] # 0
          /\ opened >= Openings => carrier["restating"] # 0
          /\ MaxTurns - SlowDown \in 1..(turn - 1)
               => MaxTurns - SlowDown \in refused \/ carrier["slow down"] # 0
          /\ MaxTurns - LandIt \in 1..(turn - 1)
               => MaxTurns - LandIt \in refused \/ carrier["land it"] # 0
      BY DEF Inv, Noted
    <2>2. /\ "looped" \in Notes /\ "restating" \in Notes
          /\ "slow down" \in Notes /\ "land it" \in Notes
      BY DEF Notes
    <2>3. \A note \in Notes : carrier[note] # 0 => Given(note)
      BY CarriedOrCrowded DEF Given, Crowded
    <2>4. ASSUME NEW note \in {<<SlowDown, "slow down">>, <<LandIt, "land it">>},
                 MaxTurns - note[1] \in 1..(turn - 1)
          PROVE  MaxTurns - note[1] \in refused \/ Given(note[2])
      <3>1. CASE note = <<SlowDown, "slow down">> BY <2>1, <2>2, <2>3, <2>4, <3>1
      <3>2. CASE note = <<LandIt, "land it">> BY <2>1, <2>2, <2>3, <2>4, <3>2
      <3>q. QED BY <3>1, <3>2
    <2>q. QED BY <2>1, <2>2, <2>3, <2>4 DEF NotesAreDelivered
  <1>q. QED BY <1>1, Always, PTL
=============================================================================
