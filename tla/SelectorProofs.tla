--------------------------- MODULE SelectorProofs ---------------------------
(***************************************************************************)
(* What holds of the selectors for lists of any length, any weights and    *)
(* any number of callers.  The invariant has a part for each selector: the *)
(* turns that round robin has given, what each server is owed between two  *)
(* weighted Selects and in the middle of one, and where a key was put.     *)
(* The provers have no induction; these proofs take the least element of a *)
(* set instead.                                                            *)
(***************************************************************************)
EXTENDS Selector, SequenceTheorems, WellFoundedInduction, TLAPS

\* A nonempty set of natural numbers has a least element.
LEMMA LeastElement ==
  ASSUME NEW T, T \subseteq Nat, T # {}
  PROVE  \E x \in T : \A y \in T : x <= y
<1>1. PICK x \in T : \A y \in T : ~(<<y, x>> \in OpToRel(<, Nat))
  BY NatLessThanWellFounded, WFMin, Zenon
<1>2. ASSUME NEW y \in T PROVE x <= y
  <2>1. x \in Nat /\ y \in Nat
    OBVIOUS
  <2>2. y < x => <<y, x>> \in OpToRel(<, Nat)
    BY <2>1 DEF OpToRel
  <2>3. ~(y < x)
    BY <1>1, <2>2, Zenon
  <2> QED BY <2>1, <2>3
<1> QED BY <1>2

\* A bounded one has a greatest element, which is what Max chooses.
LEMMA MaxFacts ==
  ASSUME NEW S, S \subseteq Nat, S # {}, NEW m \in Nat, \A x \in S : x <= m
  PROVE  Max(S) \in S /\ \A y \in S : Max(S) >= y
<1> DEFINE T == {m - x : x \in S}
<1>1. T \subseteq Nat
  <2>1. ASSUME NEW x \in S PROVE m - x \in Nat
    OBVIOUS
  <2> QED BY <2>1
<1>0. T # {}
  BY Zenon
<1>2. PICK t \in T : \A y \in T : t <= y
  BY <1>0, <1>1, LeastElement, Zenon
<1>3. PICK x \in S : t = m - x
  OBVIOUS
<1>4. ASSUME NEW y \in S PROVE x >= y
  <2>1. m - y \in T
    OBVIOUS
  <2>2. m - x <= m - y
    BY <1>2, <1>3, <2>1
  <2>3. x \in Nat /\ y \in Nat
    OBVIOUS
  <2> QED BY <2>2, <2>3
<1> QED BY <1>3, <1>4, Zenon DEF Max

\* Induction up to m, for a set instead of a predicate.
LEMMA SetInduction ==
  ASSUME NEW m \in Nat, NEW T, 0 \in T,
         \A n \in 0 .. m - 1 : n \in T => n + 1 \in T
  PROVE  \A n \in 0 .. m : n \in T
<1> DEFINE Bad == {n \in 0 .. m : n \notin T}
<1>1. SUFFICES ASSUME Bad # {} PROVE FALSE
  OBVIOUS
<1>2. PICK x \in Bad : \A y \in Bad : x <= y
  <2>1. Bad \subseteq Nat
    OBVIOUS
  <2> QED BY <1>1, <2>1, LeastElement, Zenon
<1>3. x \in 1 .. m /\ x - 1 \in 0 .. m - 1 /\ ~(x <= x - 1)
  OBVIOUS
<1>4. x - 1 \in T
  BY <1>2, <1>3
<1>5. (x - 1) + 1 \in T
  BY <1>3, <1>4
<1> QED BY <1>3, <1>5

\* A recursive definition of sums defines them.
LEMMA SumsDef ==
  ASSUME NEW f \in Seq(Int)
  PROVE  Sums(f) = [n \in 0 .. Len(f) |->
                      IF n = 0 THEN 0 ELSE Sums(f)[n - 1] + f[n]]
<1> DEFINE Good(g, m) == g = [n \in 0 .. m |->
                                IF n = 0 THEN 0 ELSE g[n - 1] + f[n]]
           Fine == {m \in 0 .. Len(f) : \E g : Good(g, m)}
<1>1. \A n \in 0 .. Len(f) : n \in Fine
  <2>1. 0 \in Fine
    <3>1. Good([n \in 0 .. 0 |-> 0], 0) /\ 0 \in 0 .. Len(f)
      OBVIOUS
    <3>2. \E g : Good(g, 0)
      BY <3>1, Zenon
    <3> HIDE DEF Good
    <3> QED BY <3>1, <3>2
  <2>2. ASSUME NEW m \in 0 .. Len(f) - 1, m \in Fine PROVE m + 1 \in Fine
    <3>1. PICK g : Good(g, m)
      BY <2>2
    <3> DEFINE h == [n \in 0 .. m + 1 |-> IF n = m + 1 THEN g[m] + f[n]
                                                       ELSE g[n]]
    <3>2. ASSUME NEW n \in 0 .. m + 1
          PROVE  h[n] = IF n = 0 THEN 0 ELSE h[n - 1] + f[n]
      BY <3>1
    <3>3. Good(h, m + 1)
      BY <3>2
    <3>4. m + 1 \in 0 .. Len(f)
      OBVIOUS
    <3> QED BY <3>3, <3>4, Zenon
  <2>3. Len(f) \in Nat
    OBVIOUS
  <2> HIDE DEF Fine
  <2> QED BY <2>1, <2>2, <2>3, SetInduction, Zenon
<1>2. \E g : Good(g, Len(f))
  BY <1>1
<1>3. Sums(f) = CHOOSE g : Good(g, Len(f))
  BY DEF Sums
<1>4. Good(Sums(f), Len(f))
  BY <1>2, <1>3, Zenon
<1> QED BY <1>4, Zenon

\* The sums are integers, each of them the one before and an element more.
LEMMA SumsFacts ==
  ASSUME NEW f \in Seq(Int)
  PROVE  /\ Sums(f) \in [0 .. Len(f) -> Int]
         /\ Sums(f)[0] = 0
         /\ \A n \in 0 .. Len(f) - 1 : Sums(f)[n + 1] = Sums(f)[n] + f[n + 1]
<1> DEFINE S == Sums(f)
           T == {n \in 0 .. Len(f) : S[n] \in Int}
<1>0. Len(f) \in Nat /\ \A n \in 1 .. Len(f) : f[n] \in Int
  OBVIOUS
<1>1. S = [n \in 0 .. Len(f) |-> IF n = 0 THEN 0 ELSE S[n - 1] + f[n]]
  BY SumsDef
<1> HIDE DEF S
<1>2. S[0] = 0 /\ \A n \in 0 .. Len(f) - 1 : S[n + 1] = S[n] + f[n + 1]
  <2>1. ASSUME NEW n \in 0 .. Len(f) - 1 PROVE S[n + 1] = S[n] + f[n + 1]
    <3>1. n + 1 \in 0 .. Len(f) /\ n + 1 # 0 /\ (n + 1) - 1 = n
      BY <1>0
    <3> QED BY <1>1, <3>1
  <2> QED BY <1>0, <1>1, <2>1
<1>3. 0 \in T
  BY <1>0, <1>2
<1>4. ASSUME NEW n \in 0 .. Len(f) - 1, n \in T PROVE n + 1 \in T
  <2>1. n + 1 \in 1 .. Len(f) /\ (n + 1) - 1 = n
    BY <1>0
  <2> QED BY <1>0, <1>2, <1>4, <2>1
<1>5. \A n \in 0 .. Len(f) : n \in T
  <2> HIDE DEF T
  <2> QED BY <1>0, <1>3, <1>4, SetInduction, Zenon
<1>6. S \in [0 .. Len(f) -> Int]
  BY <1>1, <1>5
<1> QED BY <1>2, <1>6 DEF S

\* A sum and the next one.
LEMMA SumsStep ==
  ASSUME NEW f \in Seq(Int), NEW n \in 0 .. Len(f) - 1
  PROVE  Sums(f)[n + 1] = Sums(f)[n] + f[n + 1] /\ Sums(f)[n] \in Int
<1>1. Sums(f)[n + 1] = Sums(f)[n] + f[n + 1]
  BY SumsFacts, Zenon
<1>2. Sums(f) \in [0 .. Len(f) -> Int]
  BY SumsFacts, Zenon
<1>3. n \in 0 .. Len(f)
  OBVIOUS
<1> QED BY <1>1, <1>2, <1>3

\* The whole sum is an integer.
LEMMA SumType ==
  ASSUME NEW f \in Seq(Int)
  PROVE  Sum(f) \in Int
<1>1. Sums(f) \in [0 .. Len(f) -> Int]
  BY SumsFacts, Zenon
<1> QED BY <1>1 DEF Sum

\* A list of zeros sums to zero.
LEMMA SumOfZeros ==
  ASSUME NEW f \in Seq(Int), \A n \in 1 .. Len(f) : f[n] = 0
  PROVE  Sum(f) = 0
<1> DEFINE T == {n \in 0 .. Len(f) : Sums(f)[n] = 0}
<1>0. Len(f) \in Nat
  OBVIOUS
<1>1. 0 \in T
  BY <1>0, SumsFacts
<1>2. ASSUME NEW n \in 0 .. Len(f) - 1, n \in T PROVE n + 1 \in T
  <2>1. n + 1 \in 1 .. Len(f) /\ (n + 1) - 1 = n
    BY <1>0
  <2> QED BY <1>0, <1>2, <2>1, SumsFacts
<1>3. \A n \in 0 .. Len(f) : n \in T
  <2> HIDE DEF T
  <2> QED BY <1>0, <1>1, <1>2, SetInduction, Zenon
<1> QED BY <1>0, <1>3 DEF Sum

\* Changing one element of a list changes its sum by as much.
LEMMA SumOfChange ==
  ASSUME NEW f \in Seq(Int), NEW j \in 1 .. Len(f), NEW d \in Int,
         NEW g, g = [f EXCEPT ![j] = f[j] + d]
  PROVE  Sum(g) = Sum(f) + d
<1> DEFINE T == {n \in 0 .. Len(f) :
                    Sums(g)[n] = Sums(f)[n] + IF n < j THEN 0 ELSE d}
<1>0. /\ Len(f) \in Nat /\ g \in Seq(Int) /\ Len(g) = Len(f)
      /\ \A n \in 1 .. Len(f) : f[n] \in Int
                                /\ g[n] = f[n] + IF n = j THEN d ELSE 0
  OBVIOUS
<1>f. Sums(f)[0] = 0
  BY SumsFacts
<1>g. Sums(g)[0] = 0
  BY <1>0, SumsFacts, Zenon
<1>1. 0 \in T
  BY <1>0, <1>f, <1>g
<1>2. ASSUME NEW n \in 0 .. Len(f) - 1, n \in T PROVE n + 1 \in T
  <2>1. n + 1 \in 1 .. Len(f) /\ (n + 1) - 1 = n
    BY <1>0
  <2>2. Sums(f)[n + 1] = Sums(f)[n] + f[n + 1] /\ Sums(f)[n] \in Int
    BY SumsStep, Zenon
  <2>3. Sums(g)[n + 1] = Sums(g)[n] + g[n + 1] /\ Sums(g)[n] \in Int
    BY <1>0, SumsStep, Zenon
  <2>4. f[n + 1] \in Int /\ g[n + 1] = f[n + 1] + IF n + 1 = j THEN d ELSE 0
    BY <1>0, <2>1
  <2>5. Sums(g)[n] = Sums(f)[n] + IF n < j THEN 0 ELSE d
    BY <1>2
  <2>6. Sums(g)[n + 1] = Sums(f)[n + 1] + IF n + 1 < j THEN 0 ELSE d
    <3> HIDE <1>2 DEF T
    <3>1. n \in Int /\ j \in Int /\ d \in Int
      BY <1>0
    <3> QED BY <2>2, <2>3, <2>4, <2>5, <3>1, SMTT(30)
  <2> QED BY <1>0, <2>1, <2>6
<1>3. \A n \in 0 .. Len(f) : n \in T
  <2> HIDE DEF T
  <2> QED BY <1>0, <1>1, <1>2, SetInduction, Zenon
<1>4. Len(f) \in T
  <2> HIDE DEF T
  <2> QED BY <1>0, <1>3
<1>5. ~(Len(f) < j)
  BY <1>0
<1>6. Sums(g)[Len(f)] = Sums(f)[Len(f)] + d
  BY <1>4, <1>5
<1> QED BY <1>0, <1>6 DEF Sum

\* A list whose sum is positive has a positive element.
LEMMA PositiveElement ==
  ASSUME NEW f \in Seq(Int), Sum(f) > 0
  PROVE  \E n \in 1 .. Len(f) : f[n] > 0
<1>1. SUFFICES ASSUME \A n \in 1 .. Len(f) : f[n] <= 0 PROVE Sum(f) <= 0
  <2>1. Sum(f) \in Int /\ \A n \in 1 .. Len(f) : f[n] \in Int
    BY SumType
  <2> QED BY <1>1, <2>1
<1> DEFINE T == {n \in 0 .. Len(f) : Sums(f)[n] <= 0}
<1>0. Len(f) \in Nat /\ \A n \in 1 .. Len(f) : f[n] \in Int
  OBVIOUS
<1>f. Sums(f)[0] = 0
  BY SumsFacts
<1>2. 0 \in T
  BY <1>0, <1>f
<1>3. ASSUME NEW n \in 0 .. Len(f) - 1, n \in T PROVE n + 1 \in T
  <2>1. n + 1 \in 1 .. Len(f) /\ (n + 1) - 1 = n
    BY <1>0
  <2>2. Sums(f)[n + 1] = Sums(f)[n] + f[n + 1] /\ Sums(f)[n] \in Int
    BY SumsStep, Zenon
  <2> QED BY <1>0, <1>1, <1>3, <2>1, <2>2
<1>4. \A n \in 0 .. Len(f) : n \in T
  <2> HIDE DEF T
  <2> QED BY <1>0, <1>2, <1>3, SetInduction, Zenon
<1> QED BY <1>0, <1>4 DEF Sum

\* In a list without negative elements no element exceeds the sum.
LEMMA ElementOfSum ==
  ASSUME NEW f \in Seq(Int), \A n \in 1 .. Len(f) : f[n] >= 0,
         NEW j \in 1 .. Len(f)
  PROVE  f[j] <= Sum(f)
<1> DEFINE T == {n \in 0 .. Len(f) :
                    Sums(f)[n] >= 0 /\ (j <= n => f[j] <= Sums(f)[n])}
<1>0. Len(f) \in Nat /\ \A n \in 1 .. Len(f) : f[n] \in Int
  OBVIOUS
<1>f. Sums(f)[0] = 0
  BY SumsFacts
<1>1. 0 \in T
  BY <1>0, <1>f
<1>2. ASSUME NEW n \in 0 .. Len(f) - 1, n \in T PROVE n + 1 \in T
  <2>1. n + 1 \in 1 .. Len(f) /\ (n + 1) - 1 = n
    BY <1>0
  <2>2. Sums(f)[n + 1] = Sums(f)[n] + f[n + 1] /\ Sums(f)[n] \in Int
    BY SumsStep, Zenon
  <2> QED BY <1>0, <1>2, <2>1, <2>2, SMTT(30)
<1>3. \A n \in 0 .. Len(f) : n \in T
  <2> HIDE DEF T
  <2> QED BY <1>0, <1>1, <1>2, SetInduction, Zenon
<1> QED BY <1>0, <1>3 DEF Sum
-----------------------------------------------------------------------------
(* Remainders and hashes. *)

\* The remainder is a place of the list, and a place is its own remainder.
LEMMA ModFacts ==
  ASSUME NEW n \in Nat, n > 0
  PROVE  /\ \A x \in Nat : x % n \in 0 .. n - 1
         /\ \A x \in 0 .. n - 1 : x % n = x
         /\ n % n = 0
OBVIOUS

\* Hash ends in a bucket of the key before the given number of buckets, and
\* it is the last one.
LEMMA HashFacts ==
  ASSUME NEW key \in Keys, NEW n \in Nat, n > 0
  PROVE  /\ Hash(key, n) \in key /\ Hash(key, n) \in 0 .. n - 1
         /\ \A b \in key : b < n => b <= Hash(key, n)
<1> DEFINE S == {b \in key : b < n}
<1>1. key \subseteq Nat /\ 0 \in key
  BY SelectorAssumption DEF Keys
<1>2. S \subseteq Nat /\ 0 \in S /\ \A x \in S : x <= n
  <2>1. ASSUME NEW x \in S PROVE x \in Nat /\ x <= n
    BY <1>1
  <2>2. 0 \in S
    BY <1>1
  <2> QED BY <2>1, <2>2
<1>3. Max(S) \in S /\ \A y \in S : Max(S) >= y
  BY <1>2, MaxFacts
<1>4. Hash(key, n) = Max(S)
  BY DEF Hash
<1> HIDE DEF S
<1>5. Hash(key, n) \in S /\ \A y \in S : y <= Hash(key, n)
  BY <1>2, <1>3, <1>4
<1>6. ASSUME NEW b \in key, b < n PROVE b <= Hash(key, n)
  <2>1. b \in S
    BY <1>6 DEF S
  <2> QED BY <1>5, <2>1
<1>7. Hash(key, n) \in key /\ Hash(key, n) \in 0 .. n - 1
  <2>1. Hash(key, n) \in key /\ Hash(key, n) < n
    BY <1>5 DEF S
  <2>2. Hash(key, n) \in Nat
    BY <1>1, <2>1, Zenon
  <2> QED BY <2>1, <2>2
<1> QED BY <1>6, <1>7

-----------------------------------------------------------------------------
(* The inductive invariant. *)

Size == Len(servers)

Adding == {"load", "add", "compare", "settle", "subtract"}

TypeOK ==
  /\ mode \in {"Random", "RoundRobin", "Weighted", "Hash", "Ping", "Closest"}
  /\ servers \in Seq(Int) /\ Size <= MaxServers
  /\ currentWeight \in Seq(Int) /\ Len(currentWeight) = Size
  /\ count \in Seq(Int) /\ Len(count) = Size
  /\ i \in Nat
  /\ pc \in [Callers -> {"idle", "store"} \cup Adding]
  /\ k \in [Callers -> Int] /\ best \in [Callers -> Int]
  /\ total \in [Callers -> Int] /\ tmp \in [Callers -> Int]
  /\ started \in Nat
  /\ raced \in BOOLEAN
  /\ chosen \in [Keys -> [server : Int, of : Int]]

\* What a caller holds at each point of Select.
ControlInv ==
  \A c \in Callers :
     /\ pc[c] = "idle" => k[c] = 1 /\ best[c] = 1 /\ total[c] = 0
     /\ pc[c] = "store" => mode = "RoundRobin" /\ tmp[c] \in 0 .. Size - 1
     /\ pc[c] \in Adding => /\ mode \in {"Weighted", "Ping"}
                            /\ k[c] \in 1 .. Size /\ best[c] \in 1 .. Size
     /\ pc[c] \in {"settle", "subtract"} => k[c] = Size

\* Without a race there is one caller in Select at a time.
AloneInv ==
  ~raced => \A c, d \in Callers : pc[c] # "idle" /\ pc[d] # "idle" => c = d

\* The places from p on, going round, up to the one before at.
Served(p, at, x) == IF p <= at THEN p <= x /\ x < at ELSE p <= x \/ x < at

\* Round robin has given every server n turns, and one more to those between
\* a place p and the next one.
Turns(p, n) ==
  \A s \in 1 .. Size :
     count[s] = n + IF Served(p, i % Size, s - 1) THEN 1 ELSE 0

TurnInv ==
  mode = "RoundRobin" /\ ~raced /\ Size > 0 =>
     /\ \A c \in Callers : pc[c] = "store" => tmp[c] = i % Size
     /\ \E p \in 0 .. Size - 1, n \in Nat : Turns(p, n)

\* What n Selects owe to a server of weight w that was selected x times, when
\* the weights add up to sum.
Due(w, x, sum, n) == n * w - x * sum

\* The servers whose weights a caller has added, and those it has compared.
Added(c) == IF pc[c] \in {"load", "add"} THEN k[c] - 1 ELSE k[c]
Seen(c) == IF pc[c] \in {"settle", "subtract"} THEN k[c] ELSE k[c] - 1

Fair ==
  /\ mode \in {"Weighted", "Ping"} /\ ~raced
  /\ \A s \in 1 .. Size : servers[s] >= 0

\* Between two Selects the current weight of a server is what it is owed,
\* and these cancel out.
RestInv ==
  Fair /\ Idle =>
     /\ Sum(currentWeight) = 0
     /\ \A s \in 1 .. Size :
           currentWeight[s] = Due(servers[s], count[s], Sum(servers), started)

\* In the middle of one this is so for the servers gone through, and the
\* others have not got their weight of this Select yet.
LoopAt(c) ==
  /\ started > 0
  /\ total[c] = Sums(servers)[Added(c)]
  /\ Sum(currentWeight) = total[c]
  /\ \A s \in 1 .. Size : s <= Added(c) =>
        currentWeight[s] = Due(servers[s], count[s], Sum(servers), started)
  /\ \A s \in 1 .. Size : s > Added(c) =>
        currentWeight[s] = Due(servers[s], count[s], Sum(servers), started - 1)
  /\ \A s \in 1 .. Seen(c) : currentWeight[s] <= currentWeight[best[c]]
  /\ pc[c] = "add" => tmp[c] = currentWeight[k[c]]
  /\ pc[c] = "subtract" => tmp[c] = currentWeight[best[c]]

LoopInv == Fair => \A c \in Callers : pc[c] \in Adding => LoopAt(c)

\* No server is ahead by all the weights.
AheadInv ==
  Fair /\ Sum(servers) > 0 =>
     \A s \in 1 .. Size : currentWeight[s] > -Sum(servers)

\* A key keeps the place that Hash gave it.
KeyInv ==
  \A key \in Keys :
     chosen[key].server = 0 \/ /\ chosen[key].of \in 1 .. MaxServers
                               /\ chosen[key].server = Hash(key, chosen[key].of) + 1

IndInv == TypeOK /\ ControlInv /\ AloneInv /\ TurnInv /\ RestInv /\ LoopInv
          /\ AheadInv /\ KeyInv
-----------------------------------------------------------------------------
(* Types, and what a caller holds. *)

\* Every weight is an integer.
LEMMA WeightsAreIntegers == \A m : Weights(m) \subseteq Int
<1>1. ASSUME NEW meta \in Metas PROVE WeightOf(meta) \in Int
  BY SelectorAssumption DEF WeightOf
<1>2. ASSUME NEW t \in Rtts PROVE CalculateWeight(t) \in Int
  BY SelectorAssumption DEF CalculateWeight
<1> QED BY <1>1, <1>2 DEF Weights

\* A list is a sequence of weights, and its zeros are one of the same length.
LEMMA ListFacts ==
  ASSUME NEW m, NEW ss \in Lists(m)
  PROVE  /\ ss \in Seq(Int) /\ Len(ss) <= MaxServers
         /\ Zeros(ss) \in Seq(Int) /\ Len(Zeros(ss)) = Len(ss)
         /\ \A s \in 1 .. Len(ss) : Zeros(ss)[s] = 0
         /\ Sum(Zeros(ss)) = 0
<1>1. PICK l \in 0 .. MaxServers : ss \in [1 .. l -> Weights(m)]
  BY DEF Lists
<1>2. l \in Nat /\ l <= MaxServers /\ ss \in [1 .. l -> Int]
  BY <1>1, WeightsAreIntegers, SelectorAssumption
<1>3. ss \in Seq(Int) /\ Len(ss) = l
  BY <1>2
<1>4. Zeros(ss) = [s \in 1 .. l |-> 0]
  BY <1>2 DEF Zeros
<1>5. Zeros(ss) \in Seq(Int) /\ Len(Zeros(ss)) = l
      /\ \A s \in 1 .. l : Zeros(ss)[s] = 0
  BY <1>2, <1>4
<1>6. Sum(Zeros(ss)) = 0
  BY <1>5, SumOfZeros
<1> QED BY <1>2, <1>3, <1>5, <1>6

\* At the start the types are right, and nobody is in Select.
LEMMA TypeInit == Init => TypeOK /\ ControlInv
<1> SUFFICES ASSUME Init PROVE TypeOK /\ ControlInv
  OBVIOUS
<1>1. /\ servers \in Seq(Int) /\ Size <= MaxServers
      /\ currentWeight \in Seq(Int) /\ Len(currentWeight) = Size
      /\ count \in Seq(Int) /\ Len(count) = Size
  BY ListFacts DEF Init, Size
<1>2. raced \in BOOLEAN
  BY Zenon DEF Init
<1>3. TypeOK
  BY <1>1, <1>2 DEF Init, TypeOK, NotChosen
<1>4. ControlInv
  BY DEF Init, ControlInv, Adding
<1> QED BY <1>3, <1>4

\* Replacing an element of a list of integers by an integer.
LEMMA ReplaceElement ==
  ASSUME NEW f \in Seq(Int), NEW j \in 1 .. Len(f), NEW x \in Int
  PROVE  /\ [f EXCEPT ![j] = x] \in Seq(Int)
         /\ Len([f EXCEPT ![j] = x]) = Len(f)
OBVIOUS

\* Counting a Select keeps the type.
LEMMA SelectedType ==
  ASSUME TypeOK, NEW s \in 1 .. Size, Selected(s)
  PROVE  count' \in Seq(Int) /\ Len(count') = Size
BY ReplaceElement DEF TypeOK, Selected

\* A caller that Begin lets in leaves raced a Boolean and counts itself.
LEMMA BeginType ==
  ASSUME TypeOK, NEW c \in Callers, Begin(c)
  PROVE  raced' \in BOOLEAN /\ started' \in Nat /\ started' = started + 1
<1>1. raced' \in BOOLEAN
  BY Zenon DEF Begin
<1> QED BY <1>1 DEF TypeOK, Begin

\* A caller that returns keeps the types of its locals.
LEMMA ReturnType ==
  ASSUME TypeOK, ControlInv, NEW c \in Callers, NEW s \in 1 .. Size, Return(c, s)
  PROVE  /\ count' \in Seq(Int) /\ Len(count') = Size
         /\ pc' \in [Callers -> {"idle", "store"} \cup Adding]
         /\ k' \in [Callers -> Int] /\ best' \in [Callers -> Int]
         /\ total' \in [Callers -> Int] /\ tmp' \in [Callers -> Int]
<1>1. count' \in Seq(Int) /\ Len(count') = Size
  BY SelectedType DEF Return
<1>2. /\ pc' = [pc EXCEPT ![c] = "idle"]
      /\ k' = [k EXCEPT ![c] = 1] /\ best' = [best EXCEPT ![c] = 1]
      /\ total' = [total EXCEPT ![c] = 0] /\ tmp' = [tmp EXCEPT ![c] = 0]
  BY Zenon DEF Return
<1>3. /\ pc \in [Callers -> {"idle", "store"} \cup Adding]
      /\ k \in [Callers -> Int] /\ best \in [Callers -> Int]
      /\ total \in [Callers -> Int] /\ tmp \in [Callers -> Int]
  BY Zenon DEF TypeOK
<1>4. /\ pc' \in [Callers -> {"idle", "store"} \cup Adding]
      /\ k' \in [Callers -> Int] /\ best' \in [Callers -> Int]
      /\ total' \in [Callers -> Int] /\ tmp' \in [Callers -> Int]
  BY ONLY <1>2, <1>3, SMT
<1> QED BY <1>1, <1>4, Zenon

\* Every step keeps the types and what the callers hold.
LEMMA TypeNext ==
  ASSUME TypeOK, ControlInv, [Next]_vars
  PROVE  TypeOK' /\ ControlInv'
<1>1. CASE UpdateServer
  <2>1. /\ servers' \in Seq(Int) /\ Size' <= MaxServers
        /\ currentWeight' \in Seq(Int) /\ Len(currentWeight') = Size'
        /\ count' \in Seq(Int) /\ Len(count') = Size'
    BY <1>1, ListFacts DEF UpdateServer, Size
  <2>2. raced' \in BOOLEAN
    BY <1>1, Zenon DEF UpdateServer
  <2>3. TypeOK'
    BY <1>1, <2>1, <2>2 DEF UpdateServer, TypeOK, locals
  <2>4. ControlInv'
    BY <1>1 DEF UpdateServer, ControlInv, locals, Idle, Adding
  <2> QED BY <2>3, <2>4
<1>2. ASSUME NEW c \in Callers, SelectNone(c) PROVE TypeOK' /\ ControlInv'
  <2>1. raced' \in BOOLEAN /\ started' \in Nat
    BY <1>2, BeginType DEF SelectNone
  <2> QED BY <1>2, <2>1 DEF SelectNone, TypeOK, ControlInv, Size, list, locals
<1>3. ASSUME NEW c \in Callers, SelectRandom(c) PROVE TypeOK' /\ ControlInv'
  <2>1. raced' \in BOOLEAN /\ started' \in Nat
    BY <1>3, BeginType DEF SelectRandom
  <2>2. count' \in Seq(Int) /\ Len(count') = Size
    <3>1. PICK s \in DOMAIN servers : Selected(s)
      BY <1>3 DEF SelectRandom
    <3>2. s \in 1 .. Size
      BY DEF TypeOK, Size
    <3> QED BY <3>1, <3>2, SelectedType
  <2> QED BY <1>3, <2>1, <2>2, Zenon
          DEF SelectRandom, TypeOK, ControlInv, Size, list, locals
<1>4. ASSUME NEW c \in Callers, SelectHash(c) PROVE TypeOK' /\ ControlInv'
  <2>1. raced' \in BOOLEAN /\ started' \in Nat
    BY <1>4, BeginType DEF SelectHash
  <2>2. PICK key \in Keys :
           /\ Selected(Hash(key, Size) + 1)
           /\ chosen' = [chosen EXCEPT ![key] =
                            [server |-> Hash(key, Size) + 1, of |-> Size]]
    BY <1>4, Zenon DEF SelectHash, Size
  <2>3. Size > 0 /\ Size \in Nat
    BY <1>4 DEF SelectHash, TypeOK, Size
  <2>4. Hash(key, Size) + 1 \in 1 .. Size
    BY <2>3, HashFacts
  <2>5. count' \in Seq(Int) /\ Len(count') = Size
    BY <2>2, <2>4, SelectedType
  <2>6. chosen' \in [Keys -> [server : Int, of : Int]]
    BY <2>2, <2>3, <2>4 DEF TypeOK
  <2>7. TypeOK'
    BY <1>4, <2>1, <2>5, <2>6, Zenon
       DEF SelectHash, TypeOK, Size, list, locals
  <2>8. ControlInv'
    BY <1>4, <2>1, SMTT(30) DEF SelectHash, ControlInv, Size, list, locals
  <2> QED BY <2>7, <2>8, Zenon
<1>5. ASSUME NEW c \in Callers, LoadIndex(c) PROVE TypeOK' /\ ControlInv'
  <2>1. raced' \in BOOLEAN /\ started' \in Nat
    BY <1>5, BeginType DEF LoadIndex
  <2>2. i % Size \in 0 .. Size - 1
    BY <1>5, ModFacts DEF LoadIndex, TypeOK, Size
  <2> QED BY <1>5, <2>1, <2>2, SMTT(30)
          DEF LoadIndex, TypeOK, ControlInv, Adding, Size, list
<1>6. ASSUME NEW c \in Callers, StoreIndex(c) PROVE TypeOK' /\ ControlInv'
  <2>1. tmp[c] \in Nat /\ tmp[c] + 1 \in 1 .. Size
    BY <1>6, SMTT(30) DEF StoreIndex, ControlInv, TypeOK, Size
  <2>2. /\ count' \in Seq(Int) /\ Len(count') = Size
        /\ pc' \in [Callers -> {"idle", "store"} \cup Adding]
        /\ k' \in [Callers -> Int] /\ best' \in [Callers -> Int]
        /\ total' \in [Callers -> Int] /\ tmp' \in [Callers -> Int]
    BY <1>6, <2>1, ReturnType DEF StoreIndex
  <2>3. TypeOK'
    <3>1. i' \in Nat
      BY <1>6, <2>1 DEF StoreIndex
    <3> QED BY <1>6, <2>2, <3>1 DEF StoreIndex, TypeOK, Size, list
  <2>4. ControlInv'
    BY <1>6 DEF StoreIndex, Return, TypeOK, ControlInv, Adding, Size, list
  <2> QED BY <2>3, <2>4
<1>7. ASSUME NEW c \in Callers, NextWeighted(c) PROVE TypeOK' /\ ControlInv'
  <2>1. raced' \in BOOLEAN /\ started' \in Nat
    BY <1>7, BeginType DEF NextWeighted
  <2>2. Size \in Nat /\ Size > 0
    BY <1>7 DEF NextWeighted, TypeOK, Size
  <2> QED BY <1>7, <2>1, <2>2
          DEF NextWeighted, Begin, TypeOK, ControlInv, Adding, Size, list, locals
<1>8. ASSUME NEW c \in Callers, LoadWeight(c) \/ LoadBest(c)
      PROVE  TypeOK' /\ ControlInv'
  <2>1. k[c] \in 1 .. Len(currentWeight) /\ best[c] \in 1 .. Len(currentWeight)
    BY <1>8 DEF LoadWeight, LoadBest, TypeOK, ControlInv, Adding
  <2>2. currentWeight[k[c]] \in Int /\ currentWeight[best[c]] \in Int
    BY <2>1 DEF TypeOK
  <2> QED BY <1>8, <2>2, ZenonT(30) DEF LoadWeight, LoadBest, TypeOK, ControlInv, Adding,
                            Size, list, history
<1>9. ASSUME NEW c \in Callers, AddWeight(c) PROVE TypeOK' /\ ControlInv'
  <2>1. k[c] \in 1 .. Size
    BY <1>9 DEF AddWeight, ControlInv, Adding
  <2>2. servers[k[c]] \in Int
    BY <2>1 DEF TypeOK, Size
  <2>3. currentWeight' \in Seq(Int) /\ Len(currentWeight') = Size
    BY <1>9, <2>1, <2>2, ReplaceElement DEF AddWeight, TypeOK
  <2>4. TypeOK'
    <3>1. total' \in [Callers -> Int] /\ pc' \in [Callers -> {"idle", "store"} \cup Adding]
      BY <1>9, <2>2 DEF AddWeight, TypeOK, Adding
    <3>2. UNCHANGED <<list, i, k, best, tmp, history>>
      BY <1>9 DEF AddWeight
    <3> QED BY <2>3, <3>1, <3>2 DEF TypeOK, Size, list, history
  <2>5. ControlInv'
    BY <1>9 DEF AddWeight, TypeOK, ControlInv, Adding, Size, list
  <2> QED BY <2>4, <2>5
<1>10. ASSUME NEW c \in Callers, Compare(c) PROVE TypeOK' /\ ControlInv'
  <2>1. k[c] \in 1 .. Size /\ best[c] \in 1 .. Size
    BY <1>10 DEF Compare, ControlInv, Adding
  <2>2. Better(c) \in 1 .. Size
    BY <2>1 DEF Better
  <2>3. /\ best' = [best EXCEPT ![c] = Better(c)]
        /\ k[c] < Size => /\ k' = [k EXCEPT ![c] = k[c] + 1]
                          /\ pc' = [pc EXCEPT ![c] = "load"]
        /\ ~(k[c] < Size) => k' = k /\ pc' = [pc EXCEPT ![c] = "settle"]
        /\ UNCHANGED <<list, currentWeight, i, total, tmp, history>>
    BY <1>10 DEF Compare, Size
  <2>4. TypeOK'
    <3>1. pc' \in [Callers -> {"idle", "store"} \cup Adding]
      BY <2>3, Zenon DEF TypeOK, Adding
    <3>2. k' \in [Callers -> Int]
      <4>1. k \in [Callers -> Int] /\ k[c] + 1 \in Int
        BY <2>1 DEF TypeOK
      <4>2. k' = k \/ k' = [k EXCEPT ![c] = k[c] + 1]
        BY <2>3, Zenon
      <4> QED BY <4>1, <4>2, Zenon
    <3>3. best' \in [Callers -> Int]
      <4>1. Better(c) \in Int
        BY <2>2
      <4> QED BY <2>3, <4>1 DEF TypeOK
    <3> QED BY <2>3, <3>1, <3>2, <3>3 DEF TypeOK, Size, list, history
  <2>5. ControlInv'
    <3>1. Size' = Size /\ mode' = mode /\ tmp' = tmp /\ total' = total
      BY <2>3 DEF Size, list
    <3>2. \A d \in Callers \ {c} : /\ pc'[d] = pc[d] /\ k'[d] = k[d]
                                   /\ best'[d] = best[d]
      BY <2>3 DEF TypeOK
    <3>3. pc[c] = "compare" /\ mode \in {"Weighted", "Ping"}
      BY <1>10 DEF Compare, ControlInv, Adding
    <3>4. /\ pc'[c] \in {"load", "settle"} /\ k'[c] \in 1 .. Size
          /\ best'[c] \in 1 .. Size /\ (pc'[c] = "settle" => k'[c] = Size)
      <4>1. /\ pc'[c] = IF k[c] < Size THEN "load" ELSE "settle"
            /\ k'[c] = IF k[c] < Size THEN k[c] + 1 ELSE k[c]
            /\ best'[c] = Better(c)
        BY <2>3, Zenon DEF TypeOK
      <4>2. Size \in Nat
        BY DEF TypeOK, Size
      <4> QED BY <2>1, <2>2, <4>1, <4>2
    <3>5. ASSUME NEW d \in Callers \ {c} PROVE ControlInv!(d)'
      BY <3>1, <3>2, <3>5 DEF ControlInv
    <3>6. ControlInv!(c)'
      BY <3>1, <3>3, <3>4
    <3> QED BY <3>5, <3>6 DEF ControlInv
  <2> QED BY <2>4, <2>5
<1>11. ASSUME NEW c \in Callers, SubtractTotal(c) PROVE TypeOK' /\ ControlInv'
  <2>1. best[c] \in 1 .. Size
    BY <1>11 DEF SubtractTotal, ControlInv, Adding
  <2>2. currentWeight' \in Seq(Int) /\ Len(currentWeight') = Size
    BY <1>11, <2>1, ReplaceElement DEF SubtractTotal, TypeOK
  <2>3. /\ count' \in Seq(Int) /\ Len(count') = Size
        /\ pc' \in [Callers -> {"idle", "store"} \cup Adding]
        /\ k' \in [Callers -> Int] /\ best' \in [Callers -> Int]
        /\ total' \in [Callers -> Int] /\ tmp' \in [Callers -> Int]
    BY <1>11, <2>1, ReturnType, Zenon DEF SubtractTotal
  <2>4. TypeOK'
    BY <1>11, <2>2, <2>3, Zenon DEF SubtractTotal, TypeOK, Size, list
  <2>5. ControlInv'
    <3>1. Size' = Size /\ mode' = mode
      BY <1>11, Zenon DEF SubtractTotal, Size, list
    <3>2. /\ pc' = [pc EXCEPT ![c] = "idle"]
          /\ k' = [k EXCEPT ![c] = 1] /\ best' = [best EXCEPT ![c] = 1]
          /\ total' = [total EXCEPT ![c] = 0] /\ tmp' = [tmp EXCEPT ![c] = 0]
      BY <1>11, Zenon DEF SubtractTotal, Return
    <3> QED BY <3>1, <3>2, SMT DEF TypeOK, ControlInv, Adding
  <2> QED BY <2>4, <2>5
<1>12. CASE UNCHANGED vars
  BY <1>12 DEF vars, TypeOK, ControlInv, Size, list, locals, history
<1> QED BY <1>1, <1>2, <1>3, <1>4, <1>5, <1>6, <1>7, <1>8, <1>9, <1>10, <1>11,
           <1>12 DEF Next

-----------------------------------------------------------------------------
(* One caller at a time, keys and turns. *)

\* Without a race, a caller that begins is the only one in Select.
LEMMA AloneNext ==
  ASSUME TypeOK, AloneInv, [Next]_vars
  PROVE  AloneInv'
<1>1. ASSUME NEW c \in Callers, Begin(c),
             pc' = pc \/ \E l : pc' = [pc EXCEPT ![c] = l]
      PROVE  AloneInv'
  <2>1. ~raced' => \A d \in Callers : pc[d] = "idle"
    BY <1>1, Zenon DEF Begin, Idle
  <2>2. \A d \in Callers : d # c => pc'[d] = pc[d]
    BY <1>1 DEF TypeOK
  <2> QED BY <2>1, <2>2, Zenon DEF AloneInv
<1>2. ASSUME NEW c \in Callers, pc[c] # "idle", raced' = raced,
             \E l : pc' = [pc EXCEPT ![c] = l]
      PROVE  AloneInv'
  <2>1. \A d \in Callers : d # c => pc'[d] = pc[d]
    BY <1>2 DEF TypeOK
  <2> QED BY <1>2, <2>1, Zenon DEF AloneInv
<1>3. ASSUME pc' = pc, Idle \/ raced' = raced PROVE AloneInv'
  BY <1>3, Zenon DEF AloneInv, Idle
<1>4. CASE UpdateServer
  BY <1>3, <1>4 DEF UpdateServer
<1>5. ASSUME NEW c \in Callers,
             \/ SelectNone(c) \/ SelectRandom(c) \/ SelectHash(c)
             \/ LoadIndex(c) \/ NextWeighted(c)
      PROVE  AloneInv'
  BY <1>1, <1>5, Zenon DEF SelectNone, SelectRandom, SelectHash, LoadIndex,
                           NextWeighted
<1>6. ASSUME NEW c \in Callers,
             \/ StoreIndex(c) \/ LoadWeight(c) \/ AddWeight(c) \/ LoadBest(c)
             \/ SubtractTotal(c) \/ Compare(c)
      PROVE  AloneInv'
  <2>1. pc[c] # "idle" /\ raced' = raced
    BY <1>6 DEF StoreIndex, LoadWeight, AddWeight, LoadBest, SubtractTotal,
                Compare, history
  <2>2. \E l : pc' = [pc EXCEPT ![c] = l]
    BY <1>6, Zenon DEF StoreIndex, LoadWeight, AddWeight, LoadBest,
                       SubtractTotal, Compare, Return
  <2> QED BY <1>2, <2>1, <2>2, Zenon
<1>7. CASE UNCHANGED vars
  BY <1>3, <1>7 DEF vars, history
<1> QED BY <1>4, <1>5, <1>6, <1>7 DEF Next

\* The place of a key is the one that Hash gave it.
LEMMA KeyNext ==
  ASSUME TypeOK, KeyInv, [Next]_vars
  PROVE  KeyInv'
<1>1. ASSUME NEW c \in Callers, SelectHash(c) PROVE KeyInv'
  <2>1. PICK key \in Keys :
           chosen' = [chosen EXCEPT ![key] =
                         [server |-> Hash(key, Size) + 1, of |-> Size]]
    BY <1>1, Zenon DEF SelectHash, Size
  <2>2. Size \in 1 .. MaxServers
    BY <1>1, SelectorAssumption DEF SelectHash, TypeOK, Size
  <2>3. chosen'[key] = [server |-> Hash(key, Size) + 1, of |-> Size]
    BY <2>1 DEF TypeOK
  <2>4. \A other \in Keys \ {key} : chosen'[other] = chosen[other]
    BY <2>1 DEF TypeOK
  <2>5. ASSUME NEW other \in Keys \ {key} PROVE KeyInv!(other)'
    BY <2>4, <2>5 DEF KeyInv
  <2>6. KeyInv!(key)'
    BY <2>2, <2>3
  <2> QED BY <2>5, <2>6 DEF KeyInv
<1>2. ASSUME chosen' = chosen PROVE KeyInv'
  BY <1>2 DEF KeyInv
<1>3. CASE ~ \E c \in Callers : SelectHash(c)
  <2>1. chosen' = chosen
    BY <1>3, Zenon DEF Next, UpdateServer, SelectNone, SelectRandom, LoadIndex,
                StoreIndex, NextWeighted, LoadWeight, AddWeight, Compare,
                LoadBest, SubtractTotal, history, vars
  <2> QED BY <1>2, <2>1
<1> QED BY <1>1, <1>3

\* Two lists give a key the same place unless the new place is beyond the old
\* list or the old place beyond the new one.
LEMMA HashConsistent ==
  ASSUME NEW key \in Keys, NEW n \in Nat, NEW m \in Nat, n > 0, m > 0,
         Hash(key, n) # Hash(key, m)
  PROVE  Hash(key, n) >= m \/ Hash(key, m) >= n
<1>1. Hash(key, n) \in key /\ Hash(key, n) \in 0 .. n - 1
  BY HashFacts
<1>2. Hash(key, m) \in key /\ Hash(key, m) \in 0 .. m - 1
  BY HashFacts
<1>3. Hash(key, n) < m => Hash(key, n) <= Hash(key, m)
  BY <1>1, HashFacts
<1>4. Hash(key, m) < n => Hash(key, m) <= Hash(key, n)
  BY <1>2, HashFacts
<1> QED BY <1>1, <1>2, <1>3, <1>4

\* A place that gets its turn is served, and none other; when the turn comes
\* back to where it began, all of them are.
LEMMA ServedNext ==
  ASSUME NEW n \in Nat, NEW p \in 0 .. n - 1, NEW at \in 0 .. n - 1,
         NEW x \in 0 .. n - 1, NEW next \in 0 .. n - 1,
         next = IF at + 1 = n THEN 0 ELSE at + 1
  PROVE  /\ ~Served(p, at, at)
         /\ next # p => (Served(p, next, x) <=> Served(p, at, x) \/ x = at)
         /\ next = p => (Served(p, at, x) \/ x = at) /\ ~Served(p, next, x)
BY DEF Served

\* Every step keeps the turns.
LEMMA TurnNext ==
  ASSUME TypeOK, ControlInv, AloneInv, TurnInv, [Next]_vars
  PROVE  TurnInv'
<1>0. Size \in Nat /\ i \in Nat
  BY DEF TypeOK, Size
<1>1. SUFFICES ASSUME mode' = "RoundRobin", ~raced', Size' > 0
               PROVE  /\ \A c \in Callers : pc'[c] = "store" => tmp'[c] = i' % Size'
                      /\ \E p \in 0 .. Size' - 1, n \in Nat : Turns(p, n)'
  BY DEF TurnInv
<1>2. CASE UpdateServer
  <2>1. Size' \in Nat /\ i' = i /\ \A s \in 1 .. Size' : count'[s] = 0
    BY <1>2, ListFacts DEF UpdateServer, Size
  <2>2. PICK p \in 0 .. Size' - 1 : p = i' % Size'
    BY <1>0, <1>1, <2>1, ModFacts, Zenon
  <2>3. Turns(p, 0)'
    BY <2>1, <2>2 DEF Turns, Served
  <2>4. \A c \in Callers : pc'[c] = "idle"
    BY <1>2 DEF UpdateServer, Idle
  <2> QED BY <2>2, <2>3, <2>4
<1>3. ASSUME NEW c \in Callers, LoadIndex(c)
      PROVE  /\ \A d \in Callers : pc'[d] = "store" => tmp'[d] = i' % Size'
             /\ \E p \in 0 .. Size' - 1, n \in Nat : Turns(p, n)'
  <2>1. /\ mode = "RoundRobin" /\ ~raced /\ Size > 0 /\ Size' = Size /\ i' = i
        /\ count' = count /\ tmp' = [tmp EXCEPT ![c] = i % Size]
        /\ pc' = [pc EXCEPT ![c] = "store"]
        /\ \A d \in Callers : pc[d] = "idle"
    BY <1>1, <1>3, Zenon DEF LoadIndex, Begin, Idle, Size, list
  <2>2. PICK p \in 0 .. Size - 1, n \in Nat : Turns(p, n)
    BY <2>1 DEF TurnInv
  <2>3. Turns(p, n)'
    BY <2>1, <2>2 DEF Turns
  <2>4. \A d \in Callers : pc'[d] = "store" => tmp'[d] = i' % Size'
    BY <2>1 DEF TypeOK
  <2> QED BY <2>1, <2>3, <2>4
<1>4. ASSUME NEW c \in Callers, StoreIndex(c)
      PROVE  /\ \A d \in Callers : pc'[d] = "store" => tmp'[d] = i' % Size'
             /\ \E p \in 0 .. Size' - 1, n \in Nat : Turns(p, n)'
  <2>1. /\ mode = "RoundRobin" /\ ~raced /\ Size > 0 /\ Size' = Size
        /\ pc[c] = "store" /\ pc' = [pc EXCEPT ![c] = "idle"]
    BY <1>1, <1>4 DEF StoreIndex, Return, Size, list
  <2>2. tmp[c] = i % Size /\ tmp[c] \in 0 .. Size - 1
    BY <2>1 DEF TurnInv, ControlInv
  <2>3. PICK p \in 0 .. Size - 1, n \in Nat : Turns(p, n)
    BY <2>1 DEF TurnInv
  <2>4. PICK at \in 0 .. Size - 1, next \in 0 .. Size - 1 :
           at = tmp[c] /\ next = IF at + 1 = Size THEN 0 ELSE at + 1
    BY <1>0, <2>1, <2>2
  <2>5. i' = at + 1 /\ i' % Size' = next
    <3>1. i' = at + 1
      BY <1>4, <2>4 DEF StoreIndex
    <3>2. (at + 1) % Size = next
      BY <1>0, <2>1, <2>4, ModFacts
    <3> QED BY <2>1, <3>1, <3>2
  <2>6. \A s \in 1 .. Size : count[s] = n + IF Served(p, at, s - 1) THEN 1 ELSE 0
    BY <2>2, <2>3, <2>4 DEF Turns
  <2>7. \A s \in 1 .. Size : count'[s] = IF s = at + 1 THEN count[s] + 1 ELSE count[s]
    <3>1. count' = [count EXCEPT ![at + 1] = @ + 1]
      BY <1>4, <2>4, Zenon DEF StoreIndex, Return, Selected
    <3>2. count \in Seq(Int) /\ Len(count) = Size
      BY <1>0, Zenon DEF TypeOK
    <3> QED BY <1>0, <3>1, <3>2
  <2>8. ASSUME NEW s \in 1 .. Size
        PROVE  count'[s] = (IF next = p THEN n + 1 ELSE n)
                           + IF Served(p, next, s - 1) THEN 1 ELSE 0
    <3>1. s - 1 \in 0 .. Size - 1 /\ (s = at + 1 <=> s - 1 = at)
      BY <1>0
    <3>2. /\ ~Served(p, at, at)
          /\ next # p => (Served(p, next, s - 1) <=> Served(p, at, s - 1) \/ s - 1 = at)
          /\ next = p => (Served(p, at, s - 1) \/ s - 1 = at) /\ ~Served(p, next, s - 1)
      <4>1. next = IF at + 1 = Size THEN 0 ELSE at + 1
        BY <2>4
      <4> HIDE <2>4
      <4> QED BY <1>0, <3>1, <4>1, ServedNext
    <3>3. count[s] = n + (IF Served(p, at, s - 1) THEN 1 ELSE 0)
      BY <2>6, Zenon
    <3>4. count'[s] = IF s - 1 = at THEN count[s] + 1 ELSE count[s]
      BY <2>7, <3>1
    <3>5. CASE s - 1 = at
      <4>1. ~Served(p, at, s - 1)
        BY <3>2, <3>5
      <4> QED BY <3>2, <3>3, <3>4, <3>5, <4>1
    <3>6. CASE s - 1 # at
      BY <3>2, <3>3, <3>4, <3>6
    <3> QED BY <3>5, <3>6
  <2>9. PICK n2 \in Nat : n2 = IF next = p THEN n + 1 ELSE n
    OBVIOUS
  <2>10. Turns(p, n2)'
    BY <2>1, <2>5, <2>8, <2>9 DEF Turns
  <2>11. \A d \in Callers : pc'[d] # "store"
    BY <2>1, Zenon DEF AloneInv, TypeOK
  <2> QED BY <2>1, <2>10, <2>11
<1>5. ASSUME pc' = pc, tmp' = tmp, i' = i, Size' = Size, count' = count,
             mode' = mode, raced' = raced
      PROVE  TurnInv'
  BY <1>5 DEF TurnInv, Turns
<1>6. CASE UNCHANGED vars
  <2>1. TurnInv'
    BY <1>5, <1>6 DEF vars, list, locals, history, Size
  <2> QED BY <1>1, <2>1 DEF TurnInv
<1>7. ASSUME NEW c \in Callers,
             \/ SelectNone(c) \/ SelectRandom(c) \/ SelectHash(c)
             \/ NextWeighted(c) \/ LoadWeight(c) \/ AddWeight(c) \/ Compare(c)
             \/ LoadBest(c) \/ SubtractTotal(c)
      PROVE  FALSE
  <2>1. mode' = mode /\ Size' = Size
    BY <1>7, SMTT(30) DEF SelectNone, SelectRandom, SelectHash, NextWeighted, LoadWeight,
                AddWeight, Compare, LoadBest, SubtractTotal, list, Size
  <2>2. Size = 0 \/ mode # "RoundRobin"
    BY <1>7 DEF SelectNone, SelectRandom, SelectHash, NextWeighted, LoadWeight,
                AddWeight, Compare, LoadBest, SubtractTotal, Size, ControlInv,
                Adding
  <2> QED BY <1>1, <2>1, <2>2, SMTT(30)
<1> QED BY <1>2, <1>3, <1>4, <1>6, <1>7, Zenon DEF Next, TurnInv

-----------------------------------------------------------------------------
(* The shares of the weights. *)

\* What is owed is a number.
LEMMA DueType ==
  ASSUME NEW w \in Int, NEW x \in Int, NEW sum \in Int, NEW n \in Int
  PROVE  Due(w, x, sum, n) \in Int
BY DEF Due

\* No Select owes anything.
LEMMA DueNone ==
  ASSUME NEW w \in Int, NEW sum \in Int
  PROVE  Due(w, 0, sum, 0) = 0
BY DEF Due

\* A Select more owes a server its weight more.
LEMMA DueMore ==
  ASSUME NEW w \in Int, NEW x \in Int, NEW sum \in Int, NEW n \in Int
  PROVE  Due(w, x, sum, n) = Due(w, x, sum, n - 1) + w
BY DEF Due

\* A server that is selected is owed all the weights less.
LEMMA DuePaid ==
  ASSUME NEW w \in Int, NEW x \in Int, NEW sum \in Int, NEW n \in Int
  PROVE  Due(w, x + 1, sum, n) = Due(w, x, sum, n) - sum
BY DEF Due

\* The elements of the lists are integers.
LEMMA Elements ==
  ASSUME TypeOK
  PROVE  /\ Size \in Nat /\ Sum(servers) \in Int /\ Sum(currentWeight) \in Int
         /\ \A s \in 1 .. Size : /\ servers[s] \in Int /\ count[s] \in Int
                                 /\ currentWeight[s] \in Int
<1>1. Sum(servers) \in Int /\ Sum(currentWeight) \in Int
  BY SumType DEF TypeOK
<1> QED BY <1>1 DEF TypeOK, Size

\* A new list owes nothing.
LEMMA ShareUpdate ==
  ASSUME TypeOK, UpdateServer, TypeOK'
  PROVE  RestInv' /\ LoopInv' /\ AheadInv'
<1>1. /\ \A s \in 1 .. Size' : currentWeight'[s] = 0 /\ count'[s] = 0
      /\ Sum(currentWeight') = 0 /\ started' = 0
      /\ \A c \in Callers : pc'[c] = "idle"
  BY ListFacts DEF UpdateServer, Idle, Size
<1>2. Size' \in Nat /\ Sum(servers') \in Int /\ \A s \in 1 .. Size' : servers'[s] \in Int
  BY SumType DEF TypeOK, Size
<1>3. \A s \in 1 .. Size' : Due(servers'[s], 0, Sum(servers'), 0) = 0
  BY <1>2, DueNone
<1>4. RestInv'
  BY <1>1, <1>3 DEF RestInv
<1>5. LoopInv'
  BY <1>1 DEF LoopInv, Adding
<1>6. AheadInv'
  BY <1>1, <1>2 DEF AheadInv
<1> QED BY <1>4, <1>5, <1>6

\* Steps of the other selectors, and the empty list, concern no weights.
LEMMA ShareOther ==
  ASSUME TypeOK, ControlInv, RestInv, NEW c \in Callers,
         \/ SelectNone(c) \/ SelectRandom(c) \/ SelectHash(c)
         \/ LoadIndex(c) \/ StoreIndex(c)
  PROVE  RestInv' /\ LoopInv' /\ AheadInv'
<1>1. CASE SelectNone(c)
  <2>1. /\ Size' = Size /\ Size = 0 /\ currentWeight' = currentWeight
        /\ servers' = servers /\ mode' = mode /\ pc' = pc
    BY <1>1 DEF SelectNone, list, Size
  <2>2. ~raced' => ~raced /\ Idle
    BY <1>1, Zenon DEF SelectNone, Begin
  <2>3. Fair' => Fair /\ Idle
    BY <2>1, <2>2 DEF Fair
  <2>4. RestInv'
    BY <2>1, <2>3 DEF RestInv
  <2>5. LoopInv'
    BY <2>1, <2>3 DEF LoopInv, Idle, Adding
  <2>6. AheadInv'
    BY <2>1 DEF AheadInv
  <2> QED BY <2>4, <2>5, <2>6
<1>2. CASE SelectRandom(c) \/ SelectHash(c) \/ LoadIndex(c) \/ StoreIndex(c)
  <2>1. mode' = mode /\ mode \notin {"Weighted", "Ping"}
    <3>1. mode' = mode
      BY <1>2, Zenon DEF SelectRandom, SelectHash, LoadIndex, StoreIndex, list
    <3>2. SelectRandom(c) \/ SelectHash(c) => mode \notin {"Weighted", "Ping"}
      BY Zenon DEF SelectRandom, SelectHash
    <3>3. LoadIndex(c) \/ StoreIndex(c) => mode \notin {"Weighted", "Ping"}
      BY Zenon DEF LoadIndex, StoreIndex, ControlInv
    <3> QED BY <1>2, <3>1, <3>2, <3>3, Zenon
  <2>2. ~Fair'
    BY <2>1 DEF Fair
  <2> QED BY <2>2, SMTT(30) DEF RestInv, LoopInv, AheadInv
<1> QED BY <1>1, <1>2

\* What the steps of one caller have to show.
LEMMA ShareAlone ==
  ASSUME AloneInv', AheadInv', NEW c \in Callers, pc'[c] \in Adding,
         Fair' => LoopAt(c)'
  PROVE  RestInv' /\ LoopInv' /\ AheadInv'
<1>1. pc'[c] # "idle"
  BY DEF Adding
<1>2. RestInv'
  BY <1>1 DEF RestInv, Idle
<1>3. ASSUME Fair', NEW d \in Callers, pc'[d] \in Adding PROVE LoopAt(d)'
  <2>1. pc'[d] # "idle"
    BY <1>3 DEF Adding
  <2>2. c = d
    BY <1>1, <1>3, <2>1 DEF AloneInv, Fair
  <2> QED BY <1>3, <2>2
<1>4. LoopInv'
  BY <1>3 DEF LoopInv
<1> QED BY <1>2, <1>4

\* nextWeighted begins with what the last Select has left.
LEMMA ShareBegin ==
  ASSUME TypeOK, ControlInv, RestInv, AheadInv, AloneInv',
         NEW c \in Callers, NextWeighted(c)
  PROVE  RestInv' /\ LoopInv' /\ AheadInv'
<1>1. /\ pc' = [pc EXCEPT ![c] = "load"] /\ pc[c] = "idle"
      /\ UNCHANGED <<mode, servers, currentWeight, k, best, total, tmp, count>>
      /\ started' = started + 1
  BY DEF NextWeighted, Begin, list, locals
<1>2. ~raced' => ~raced /\ Idle
  BY Zenon DEF NextWeighted, Begin
<1>3. Fair' => Fair /\ Idle
  BY <1>1, <1>2 DEF Fair, Size
<1>4. AheadInv'
  BY <1>1, <1>3 DEF AheadInv, Size
<1>5. pc'[c] = "load" /\ k'[c] = 1 /\ total'[c] = 0
  BY <1>1 DEF TypeOK, ControlInv
<1>6. Added(c)' = 0 /\ Seen(c)' = 0
  BY <1>5 DEF Added, Seen
<1>7. started' > 0 /\ started' - 1 = started
  BY <1>1 DEF TypeOK
<1>8. Sums(servers')[0] = 0
  BY <1>1, SumsFacts DEF TypeOK
<1>9. ASSUME Fair' PROVE LoopAt(c)'
  <2>1. /\ Sum(currentWeight) = 0
        /\ \A s \in 1 .. Size :
              currentWeight[s] = Due(servers[s], count[s], Sum(servers), started)
    BY <1>3, <1>9 DEF RestInv
  <2>2. Size' = Size /\ Size \in Nat
    BY <1>1 DEF TypeOK, Size
  <2> QED BY <1>1, <1>5, <1>6, <1>7, <1>8, <2>1, <2>2 DEF LoopAt
<1>10. pc'[c] \in Adding
  BY <1>5 DEF Adding
<1> QED BY <1>4, <1>9, <1>10, ShareAlone, Zenon

\* A load changes no weight.
LEMMA ShareLoad ==
  ASSUME TypeOK, ControlInv, LoopInv, AheadInv, AloneInv',
         NEW c \in Callers, LoadWeight(c) \/ LoadBest(c)
  PROVE  RestInv' /\ LoopInv' /\ AheadInv'
<1>1. UNCHANGED <<mode, servers, currentWeight, k, best, total, count, started,
                  raced>>
  BY DEF LoadWeight, LoadBest, list, history
<1>2. Size' = Size /\ (Fair' => Fair)
  BY <1>1 DEF Fair, Size
<1>3. AheadInv'
  BY <1>1, <1>2 DEF AheadInv
<1>4. \/ pc[c] = "load" /\ pc'[c] = "add" /\ tmp'[c] = currentWeight[k[c]]
      \/ pc[c] = "settle" /\ pc'[c] = "subtract" /\ tmp'[c] = currentWeight[best[c]]
  BY Zenon DEF LoadWeight, LoadBest, TypeOK
<1>5. Added(c)' = Added(c) /\ Seen(c)' = Seen(c)
  BY <1>1, <1>4, Zenon DEF Added, Seen
<1>6. ASSUME Fair' PROVE LoopAt(c)'
  <2>1. LoopAt(c)
    BY <1>2, <1>4, <1>6, Zenon DEF LoopInv, Adding
  <2> QED BY <1>1, <1>2, <1>4, <1>5, <2>1, Zenon DEF LoopAt
<1>7. pc'[c] \in Adding
  BY <1>4 DEF Adding
<1> QED BY <1>3, <1>6, <1>7, ShareAlone, Zenon

\* The server that gets its weight is owed for this Select from then on.
LEMMA ShareAdd ==
  ASSUME TypeOK, ControlInv, LoopInv, AheadInv, AloneInv, AloneInv',
         NEW c \in Callers, AddWeight(c)
  PROVE  RestInv' /\ LoopInv' /\ AheadInv'
<1>1. /\ pc[c] = "add" /\ pc' = [pc EXCEPT ![c] = "compare"]
      /\ currentWeight' = [currentWeight EXCEPT ![k[c]] = tmp[c] + servers[k[c]]]
      /\ total' = [total EXCEPT ![c] = total[c] + servers[k[c]]]
      /\ UNCHANGED <<mode, servers, k, best, count, started, raced>>
  BY Zenon DEF AddWeight, list, history
<1>2. Size' = Size /\ (Fair' => Fair)
  BY <1>1, Zenon DEF Fair, Size
<1>3. PICK j \in 1 .. Size : j = k[c]
  BY <1>1 DEF ControlInv, Adding
<1>4. /\ Size \in Nat /\ Sum(servers) \in Int /\ Sum(currentWeight) \in Int
      /\ \A s \in 1 .. Size : /\ servers[s] \in Int /\ count[s] \in Int
                              /\ currentWeight[s] \in Int
  BY Elements
<1>5. ASSUME Fair
      PROVE  /\ LoopAt(c) /\ servers[j] >= 0
             /\ currentWeight' =
                   [currentWeight EXCEPT ![j] = currentWeight[j] + servers[j]]
  <2>1. LoopAt(c)
    BY <1>1, <1>5, SMTT(30) DEF LoopInv, Adding
  <2>2. tmp[c] = currentWeight[j]
    BY <1>1, <1>3, <2>1, Zenon DEF LoopAt
  <2> QED BY <1>1, <1>3, <1>5, <2>1, <2>2, Zenon DEF Fair
<1>6. ASSUME Fair
      PROVE  /\ currentWeight'[j] = currentWeight[j] + servers[j]
             /\ \A s \in 1 .. Size : s # j => currentWeight'[s] = currentWeight[s]
             /\ \A s \in 1 .. Size : currentWeight'[s] >= currentWeight[s]
             /\ \A s \in 1 .. Size : currentWeight'[s] \in Int
  <2>1. /\ currentWeight'[j] = currentWeight[j] + servers[j]
        /\ \A s \in 1 .. Size : s # j => currentWeight'[s] = currentWeight[s]
    <3>1. currentWeight \in Seq(Int) /\ Len(currentWeight) = Size
      BY Zenon DEF TypeOK
    <3> QED BY <1>5, <1>6, <3>1, SMTT(30)
  <2> QED BY <1>4, <1>5, <1>6, <2>1
<1>7. AheadInv'
  <2>1. SUFFICES ASSUME Fair', Sum(servers) > 0, NEW s \in 1 .. Size
                 PROVE  currentWeight'[s] > -Sum(servers)
    BY <1>1, <1>2, Zenon DEF AheadInv
  <2>2. currentWeight[s] > -Sum(servers)
    BY <1>2, <2>1 DEF AheadInv
  <2> QED BY <1>2, <1>4, <1>6, <2>1, <2>2
<1>8. pc'[c] = "compare" /\ total'[c] = total[c] + servers[j] /\ k'[c] = j
  BY <1>1, <1>3 DEF TypeOK
<1>9. Added(c) = j - 1 /\ Added(c)' = j /\ Seen(c) = j - 1 /\ Seen(c)' = j - 1
  BY <1>1, <1>3, <1>8, Zenon DEF Added, Seen
<1>10. ASSUME Fair' PROVE LoopAt(c)'
  <2>1. LoopAt(c) /\ Fair
    BY <1>2, <1>5, <1>10
  <2>2. total'[c] = Sums(servers)[j]
    <3>1. j - 1 \in 0 .. Size - 1 /\ (j - 1) + 1 = j
      BY <1>4
    <3>2. Sums(servers)[(j - 1) + 1] = Sums(servers)[j - 1] + servers[(j - 1) + 1]
      BY <3>1, SumsStep, Zenon DEF TypeOK, Size
    <3>3. total[c] = Sums(servers)[j - 1]
      BY <1>9, <2>1, Zenon DEF LoopAt
    <3> QED BY <1>8, <3>1, <3>2, <3>3, Zenon
  <2>3. Sum(currentWeight') = total'[c]
    <3>1. Sum(currentWeight') = Sum(currentWeight) + servers[j]
      <4>1. /\ currentWeight \in Seq(Int) /\ j \in 1 .. Len(currentWeight)
            /\ servers[j] \in Int
        BY <1>4 DEF TypeOK
      <4>2. currentWeight' =
               [currentWeight EXCEPT ![j] = currentWeight[j] + servers[j]]
        BY <1>5, <2>1
      <4> QED BY <4>1, <4>2, SumOfChange, Zenon
    <3>2. Sum(currentWeight) = total[c]
      BY <2>1, Zenon DEF LoopAt
    <3> QED BY <1>8, <3>1, <3>2
  <2>4. ASSUME NEW s \in 1 .. Size, s <= j
        PROVE  currentWeight'[s] = Due(servers[s], count[s], Sum(servers), started)
    <3>1. CASE s = j
      <4>1. currentWeight[j] = Due(servers[j], count[j], Sum(servers), started - 1)
        BY <1>4, <1>9, <2>1 DEF LoopAt
      <4>2. Due(servers[j], count[j], Sum(servers), started)
              = Due(servers[j], count[j], Sum(servers), started - 1) + servers[j]
        <5>1. /\ servers[j] \in Int /\ count[j] \in Int /\ Sum(servers) \in Int
              /\ started \in Int
          BY <1>4 DEF TypeOK
        <5> QED BY <5>1, DueMore, ZenonT(30)
      <4> QED BY <1>6, <2>1, <3>1, <4>1, <4>2, SMTT(30)
    <3>2. CASE s # j
      <4>1. s <= j - 1
        BY <1>4, <2>4, <3>2, SMTT(30)
      <4> QED BY <1>6, <1>9, <2>1, <3>2, <4>1, Zenon DEF LoopAt
    <3> QED BY <3>1, <3>2
  <2>5. ASSUME NEW s \in 1 .. Size, s > j
        PROVE  currentWeight'[s] = Due(servers[s], count[s], Sum(servers), started - 1)
    <3>1. s # j /\ s > j - 1
      BY <1>4, <2>5
    <3> QED BY <1>6, <1>9, <2>1, <3>1, Zenon DEF LoopAt
  <2>6. ASSUME NEW s \in 1 .. j - 1
        PROVE  currentWeight'[s] <= currentWeight'[best[c]]
    <3>1. s \in 1 .. Size /\ s # j /\ best[c] \in 1 .. Size
      BY <1>1, <1>4, SMTT(30) DEF ControlInv, Adding
    <3>2. currentWeight[s] <= currentWeight[best[c]]
      BY <1>9, <2>1, Zenon DEF LoopAt
    <3> QED BY <1>4, <1>6, <2>1, <3>1, <3>2
  <2>7. started > 0
    BY <2>1, Zenon DEF LoopAt
  <2> QED BY <1>1, <1>2, <1>8, <1>9, <2>2, <2>3, <2>4, <2>5, <2>6, <2>7, Zenon DEF LoopAt
<1>11. pc'[c] \in Adding
  BY <1>8, Zenon DEF Adding
<1> QED BY <1>7, <1>10, <1>11, ShareAlone, ZenonT(30)

\* The best server so far is the better one of the two.
LEMMA ShareCompare ==
  ASSUME TypeOK, ControlInv, LoopInv, AheadInv, AloneInv',
         NEW c \in Callers, Compare(c)
  PROVE  RestInv' /\ LoopInv' /\ AheadInv'
<1>1. /\ pc[c] = "compare" /\ best' = [best EXCEPT ![c] = Better(c)]
      /\ UNCHANGED <<mode, servers, currentWeight, total, tmp, count, started,
                     raced>>
  BY DEF Compare, list, history
<1>2. Size' = Size /\ (Fair' => Fair)
  BY <1>1 DEF Fair, Size
<1>3. PICK j \in 1 .. Size : j = k[c]
  BY <1>1 DEF ControlInv, Adding
<1>4. /\ Size \in Nat
      /\ \A s \in 1 .. Size : currentWeight[s] \in Int
  BY Elements
<1>5. AheadInv'
  BY <1>1, <1>2 DEF AheadInv
<1>6. \/ j < Size /\ pc'[c] = "load" /\ k'[c] = j + 1
      \/ j = Size /\ pc'[c] = "settle" /\ k'[c] = j
  BY <1>3, <1>4 DEF Compare, TypeOK, Size
<1>7. Added(c) = j /\ Added(c)' = j /\ Seen(c) = j - 1 /\ Seen(c)' = j
  BY <1>1, <1>3, <1>6 DEF Added, Seen
<1>8. best'[c] = Better(c)
  BY <1>1, SMTT(30) DEF TypeOK
<1>9. ASSUME Fair' PROVE LoopAt(c)'
  <2>1. LoopAt(c)
    BY <1>1, <1>2, <1>9, SMTT(30) DEF LoopInv, Adding
  <2>2. ASSUME NEW s \in 1 .. j PROVE currentWeight[s] <= currentWeight[Better(c)]
    <3>1. best[c] \in 1 .. Size /\ s \in 1 .. Size
      <4>1. best[c] \in 1 .. Size
        BY <1>1, Zenon DEF ControlInv, Adding
      <4> QED BY <1>4, <4>1, SMT
    <3>2. s # j => currentWeight[s] <= currentWeight[best[c]]
      <4>1. \A x \in 1 .. Seen(c) : currentWeight[x] <= currentWeight[best[c]]
        BY <2>1, Zenon DEF LoopAt
      <4>2. s # j => s \in 1 .. Seen(c)
        BY <1>4, <1>7, SMT
      <4> QED BY <4>1, <4>2, Zenon
    <3>3. currentWeight[s] \in Int /\ currentWeight[best[c]] \in Int
          /\ currentWeight[j] \in Int
      BY <1>4, <3>1, Zenon
    <3>4. CASE currentWeight[j] > currentWeight[best[c]]
      <4>1. Better(c) = j
        BY <1>3, <3>4, Zenon DEF Better
      <4> QED BY <3>2, <3>3, <3>4, <4>1, SMT
    <3>5. CASE ~(currentWeight[j] > currentWeight[best[c]])
      <4>1. Better(c) = best[c]
        BY <1>3, <3>5, Zenon DEF Better
      <4> QED BY <3>2, <3>3, <3>5, <4>1, SMT
    <3> QED BY <3>4, <3>5, Zenon
  <2> QED BY <1>1, <1>2, <1>6, <1>7, <1>8, <2>1, <2>2, Zenon DEF LoopAt
<1>10. pc'[c] \in Adding
  BY <1>6 DEF Adding
<1> QED BY <1>5, <1>9, <1>10, ShareAlone, Zenon

\* The server that is selected has a positive weight, because the weights add
\* up to a positive one and it is the largest; it pays for the Select, after
\* which nobody is owed anything but its share.
LEMMA ShareSubtract ==
  ASSUME TypeOK, ControlInv, LoopInv, AheadInv, AloneInv,
         NEW c \in Callers, SubtractTotal(c)
  PROVE  RestInv' /\ LoopInv' /\ AheadInv'
<1>1. /\ pc[c] = "subtract" /\ pc' = [pc EXCEPT ![c] = "idle"]
      /\ currentWeight' = [currentWeight EXCEPT ![best[c]] = tmp[c] - total[c]]
      /\ count' = [count EXCEPT ![best[c]] = count[best[c]] + 1]
      /\ UNCHANGED <<mode, servers, started, raced>>
  BY DEF SubtractTotal, Return, Selected, list
<1>2. Size' = Size /\ (Fair' => Fair)
  BY <1>1 DEF Fair, Size
<1>3. PICK j \in 1 .. Size : j = best[c]
  BY <1>1, Zenon DEF ControlInv, Adding
<1>4. /\ Size \in Nat /\ Sum(servers) \in Int /\ Sum(currentWeight) \in Int
      /\ \A s \in 1 .. Size : /\ servers[s] \in Int /\ count[s] \in Int
                              /\ currentWeight[s] \in Int
  BY Elements
<1>5. k[c] = Size /\ Added(c) = Size /\ Seen(c) = Size
  <2>1. k[c] = Size
    BY <1>1, Zenon DEF ControlInv
  <2> QED BY <1>1, <2>1 DEF Added, Seen
<1>6. ASSUME Fair'
      PROVE  /\ Sum(currentWeight) = Sum(servers)
             /\ currentWeight' = [currentWeight EXCEPT ![j] =
                                     currentWeight[j] + (-Sum(servers))]
             /\ \A s \in 1 .. Size : currentWeight[s] =
                   Due(servers[s], count[s], Sum(servers), started)
             /\ \A s \in 1 .. Size : currentWeight[s] <= currentWeight[j]
             /\ \A d \in Callers : pc'[d] = "idle"
  <2>1. LoopAt(c) /\ Fair
    BY <1>1, <1>2, <1>6, ZenonT(30) DEF LoopInv, Adding
  <2>2. total[c] = Sum(servers) /\ Sum(currentWeight) = total[c]
    BY <1>5, <2>1, SMTT(30) DEF LoopAt, Sum, Size
  <2>3. tmp[c] = currentWeight[j]
    BY <1>1, <1>3, <2>1, Zenon DEF LoopAt
  <2>4. tmp[c] - total[c] = currentWeight[j] + (-Sum(servers))
    BY <1>4, <2>2, <2>3
  <2>5. currentWeight' = [currentWeight EXCEPT ![j] =
                             currentWeight[j] + (-Sum(servers))]
    BY <1>1, <1>3, <2>4, Zenon
  <2>6. \A s \in 1 .. Size :
           /\ currentWeight[s] = Due(servers[s], count[s], Sum(servers), started)
           /\ currentWeight[s] <= currentWeight[j]
    <3>1. /\ \A s \in 1 .. Size : s <= Added(c) =>
                currentWeight[s] = Due(servers[s], count[s], Sum(servers), started)
          /\ \A s \in 1 .. Seen(c) : currentWeight[s] <= currentWeight[best[c]]
      BY <2>1, Zenon DEF LoopAt
    <3> QED BY <1>3, <1>4, <1>5, <3>1
  <2>7. \A d \in Callers : pc'[d] = "idle"
    BY <1>1, <2>1, SMTT(30) DEF AloneInv, Fair, TypeOK
  <2> QED BY <2>2, <2>5, <2>6, <2>7, SMTT(30)
<1>7. ASSUME Fair'
      PROVE  /\ currentWeight'[j] = currentWeight[j] - Sum(servers)
             /\ \A s \in 1 .. Size : s # j => currentWeight'[s] = currentWeight[s]
             /\ count'[j] = count[j] + 1
             /\ \A s \in 1 .. Size : s # j => count'[s] = count[s]
  <2>1. DOMAIN currentWeight = 1 .. Size /\ DOMAIN count = 1 .. Size
    BY SMTT(30) DEF TypeOK, Size
  <2>2. currentWeight[j] + (-Sum(servers)) = currentWeight[j] - Sum(servers)
    BY <1>4
  <2>3. /\ currentWeight'[j] = currentWeight[j] + (-Sum(servers))
        /\ \A s \in 1 .. Size : s # j => currentWeight'[s] = currentWeight[s]
    BY <1>6, <1>7, <2>1, Zenon
  <2>4. count' = [count EXCEPT ![j] = count[j] + 1]
    BY <1>1, <1>3, Zenon
  <2>5. /\ count'[j] = count[j] + 1
        /\ \A s \in 1 .. Size : s # j => count'[s] = count[s]
    BY <2>1, <2>4, Zenon
  <2> QED BY <2>2, <2>3, <2>5, Zenon
<1>8. RestInv'
  <2>1. SUFFICES ASSUME Fair'
                 PROVE  /\ Sum(currentWeight') = 0
                        /\ \A s \in 1 .. Size : currentWeight'[s] =
                              Due(servers[s], count'[s], Sum(servers), started)
    BY <1>1, <1>2 DEF RestInv
  <2>2. Sum(currentWeight') = Sum(currentWeight) + (-Sum(servers))
    <3>1. /\ currentWeight \in Seq(Int) /\ j \in 1 .. Len(currentWeight)
          /\ -Sum(servers) \in Int
      BY <1>4 DEF TypeOK
    <3>2. currentWeight' = [currentWeight EXCEPT ![j] =
                               currentWeight[j] + (-Sum(servers))]
      BY <1>6, <2>1
    <3> QED BY <3>1, <3>2, SumOfChange, Zenon
  <2>3. Sum(currentWeight') = 0
    BY <1>4, <1>6, <2>1, <2>2
  <2>4. ASSUME NEW s \in 1 .. Size
        PROVE  currentWeight'[s] = Due(servers[s], count'[s], Sum(servers), started)
    <3>1. currentWeight[s] = Due(servers[s], count[s], Sum(servers), started)
      BY <1>6, <2>1
    <3>2. CASE s = j
      <4>1. /\ servers[j] \in Int /\ count[j] \in Int /\ Sum(servers) \in Int
            /\ started \in Int
        BY <1>4 DEF TypeOK
      <4>2. Due(servers[j], count[j] + 1, Sum(servers), started)
              = Due(servers[j], count[j], Sum(servers), started) - Sum(servers)
        <5>1. PICK w \in Int, x \in Int, sum \in Int, n \in Int :
                 w = servers[j] /\ x = count[j] /\ sum = Sum(servers) /\ n = started
          BY <4>1
        <5>2. Due(w, x + 1, sum, n) = Due(w, x, sum, n) - sum
          BY DuePaid
        <5> QED BY <5>1, <5>2
      <4> QED BY <1>7, <2>1, <3>1, <3>2, <4>2
    <3>3. CASE s # j
      BY <1>7, <2>1, <3>1, <3>3, SMTT(30)
    <3> QED BY <3>2, <3>3
  <2> QED BY <2>3, <2>4
<1>9. LoopInv'
  BY <1>6, Zenon DEF LoopInv, Adding
<1>10. AheadInv'
  <2>1. SUFFICES ASSUME Fair', Sum(servers) > 0, NEW s \in 1 .. Size
                 PROVE  currentWeight'[s] > -Sum(servers)
    BY <1>1, <1>2, Zenon DEF AheadInv
  <2>2. CASE s # j
    <3>1. currentWeight[s] > -Sum(servers)
      BY <1>2, <2>1 DEF AheadInv
    <3> QED BY <1>7, <2>1, <2>2, <3>1
  <2>3. CASE s = j
    <3>1. \E n \in 1 .. Len(currentWeight) : currentWeight[n] > 0
      BY <1>6, <2>1, PositiveElement, Zenon DEF TypeOK
    <3>2. PICK n \in 1 .. Size : currentWeight[n] > 0
      BY <3>1 DEF TypeOK
    <3>3. currentWeight[n] <= currentWeight[j]
      BY <1>6, <2>1
    <3>4. currentWeight[j] > 0
      BY <1>4, <3>2, <3>3
    <3> QED BY <1>4, <1>7, <2>1, <2>3, <3>4
  <2> QED BY <2>2, <2>3
<1> QED BY <1>8, <1>9, <1>10

\* Every step keeps the shares.
LEMMA ShareNext ==
  ASSUME TypeOK, ControlInv, AloneInv, RestInv, LoopInv, AheadInv, [Next]_vars,
         TypeOK', AloneInv'
  PROVE  RestInv' /\ LoopInv' /\ AheadInv'
<1>1. CASE UpdateServer
  BY <1>1, ShareUpdate
<1>2. ASSUME NEW c \in Callers,
             \/ SelectNone(c) \/ SelectRandom(c) \/ SelectHash(c)
             \/ LoadIndex(c) \/ StoreIndex(c)
      PROVE  RestInv' /\ LoopInv' /\ AheadInv'
  BY <1>2, ShareOther
<1>3. ASSUME NEW c \in Callers, NextWeighted(c)
      PROVE  RestInv' /\ LoopInv' /\ AheadInv'
  BY <1>3, ShareBegin
<1>4. ASSUME NEW c \in Callers, LoadWeight(c) \/ LoadBest(c)
      PROVE  RestInv' /\ LoopInv' /\ AheadInv'
  BY <1>4, ShareLoad
<1>5. ASSUME NEW c \in Callers, AddWeight(c)
      PROVE  RestInv' /\ LoopInv' /\ AheadInv'
  BY <1>5, ShareAdd
<1>6. ASSUME NEW c \in Callers, Compare(c)
      PROVE  RestInv' /\ LoopInv' /\ AheadInv'
  BY <1>6, ShareCompare
<1>7. ASSUME NEW c \in Callers, SubtractTotal(c)
      PROVE  RestInv' /\ LoopInv' /\ AheadInv'
  BY <1>7, ShareSubtract
<1>8. CASE UNCHANGED vars
  BY <1>8, ZenonT(30) DEF vars, list, locals, history, RestInv, LoopInv, LoopAt, AheadInv,
              Fair, Idle, Size, Added, Seen
<1> QED BY <1>1, <1>2, <1>3, <1>4, <1>5, <1>6, <1>7, <1>8 DEF Next

-----------------------------------------------------------------------------
(* The theorems. *)

\* The inductive invariant holds at the start.
LEMMA IndInit == Init => IndInv
<1> SUFFICES ASSUME Init PROVE IndInv
  OBVIOUS
<1>1. TypeOK /\ ControlInv
  BY TypeInit
<1>2. AloneInv
  BY DEF Init, AloneInv
<1>3. /\ Size \in Nat /\ i = 0 /\ started = 0 /\ Sum(currentWeight) = 0
      /\ \A s \in 1 .. Size : currentWeight[s] = 0 /\ count[s] = 0
      /\ \A c \in Callers : pc[c] = "idle"
  BY <1>1, ListFacts DEF Init, TypeOK, Size
<1>4. TurnInv
  <2>1. SUFFICES ASSUME Size > 0
                 PROVE  \E p \in 0 .. Size - 1, n \in Nat : Turns(p, n)
    BY <1>3 DEF TurnInv
  <2>2. i % Size = 0 /\ 0 \in 0 .. Size - 1
    BY <1>3, <2>1, ModFacts
  <2>3. Turns(0, 0)
    BY <1>3, <2>2 DEF Turns, Served
  <2> QED BY <2>2, <2>3
<1>5. \A s \in 1 .. Size : Due(servers[s], count[s], Sum(servers), started) = 0
  <2>1. \A s \in 1 .. Size : servers[s] \in Int /\ Sum(servers) \in Int
    BY <1>1, Elements
  <2>2. \A s \in 1 .. Size : Due(servers[s], 0, Sum(servers), 0) = 0
    BY <2>1, DueNone
  <2> QED BY <1>3, <2>2
<1>6. RestInv
  BY <1>3, <1>5 DEF RestInv
<1>7. LoopInv
  BY <1>3 DEF LoopInv, Adding
<1>8. AheadInv
  BY <1>1, <1>3, Elements DEF AheadInv
<1>9. KeyInv
  BY DEF Init, KeyInv, NotChosen
<1> QED BY <1>1, <1>2, <1>4, <1>6, <1>7, <1>8, <1>9 DEF IndInv

\* Every step keeps the inductive invariant.
LEMMA IndNext == IndInv /\ [Next]_vars => IndInv'
<1> SUFFICES ASSUME IndInv, [Next]_vars PROVE IndInv'
  OBVIOUS
<1>0. TypeOK /\ ControlInv /\ AloneInv /\ TurnInv /\ RestInv /\ LoopInv
      /\ AheadInv /\ KeyInv
  BY DEF IndInv
<1>1. TypeOK' /\ ControlInv'
  BY <1>0, TypeNext
<1>2. AloneInv'
  BY <1>0, AloneNext
<1>3. TurnInv'
  BY <1>0, TurnNext
<1>4. RestInv' /\ LoopInv' /\ AheadInv'
  BY <1>0, <1>1, <1>2, ShareNext
<1>5. KeyInv'
  BY <1>0, KeyNext
<1> QED BY <1>1, <1>2, <1>3, <1>4, <1>5 DEF IndInv

\* The inductive invariant holds throughout.
THEOREM Inductive == Spec => []IndInv
BY IndInit, IndNext, PTL DEF Spec

\* For lists of any length, any number of goroutines in Select at once and
\* any list set between two Selects, round robin uses an index of the list.
THEOREM IndexStays == Spec => []IndexInList
<1>1. IndInv => IndexInList
  BY SMTT(30) DEF IndInv, TypeOK, ControlInv, IndexInList, Size
<1> QED BY <1>1, Inductive, PTL

\* Selects that do not overlap give every server of a list of any length its
\* turn.
THEOREM TurnsTaken == Spec => []RoundRobinTurns
<1>1. ASSUME IndInv PROVE RoundRobinTurns
  <2>1. SUFFICES ASSUME mode = "RoundRobin", ~raced,
                        NEW s \in DOMAIN servers, NEW t \in DOMAIN servers
                 PROVE  count[s] <= count[t] + 1
    BY DEF RoundRobinTurns
  <2>2. Size \in Nat /\ s \in 1 .. Size /\ t \in 1 .. Size
    BY <1>1 DEF IndInv, TypeOK, Size
  <2>3. PICK p \in 0 .. Size - 1, n \in Nat : Turns(p, n)
    BY <1>1, <2>1, <2>2 DEF IndInv, TurnInv
  <2>4. count[s] \in {n, n + 1} /\ count[t] \in {n, n + 1}
    BY <2>2, <2>3 DEF Turns
  <2> QED BY <2>4
<1> QED BY <1>1, Inductive, PTL

\* The jump hash moves a key only to a place that was added, or from one that
\* is gone, whatever lists follow each other.
THEOREM KeysMoveIfTheyMust == Spec => KeyMovesIfItMust
<1> DEFINE Moves == \A key \in Keys :
                       LET old == chosen[key]
                           new == chosen'[key]
                       IN old.server \notin {0, new.server} =>
                             new.server > old.of \/ old.server > new.of
<1>1. ASSUME IndInv, [Next]_vars PROVE Moves
  <2>0. TypeOK /\ KeyInv
    BY <1>1 DEF IndInv
  <2>1. ASSUME NEW c \in Callers, SelectHash(c) PROVE Moves
    <3>1. PICK key \in Keys :
             chosen' = [chosen EXCEPT ![key] =
                           [server |-> Hash(key, Size) + 1, of |-> Size]]
      BY <2>1, Zenon DEF SelectHash, Size
    <3>2. Size \in Nat /\ Size > 0
      BY <2>0, <2>1 DEF SelectHash, TypeOK, Size
    <3>3. /\ chosen'[key].server = Hash(key, Size) + 1 /\ chosen'[key].of = Size
          /\ \A other \in Keys : other # key => chosen'[other] = chosen[other]
      BY <2>0, <3>1 DEF TypeOK
    <3>4. ASSUME chosen[key].server \notin {0, chosen'[key].server}
          PROVE  \/ chosen'[key].server > chosen[key].of
                 \/ chosen[key].server > chosen'[key].of
      <4>1. PICK n \in Nat : n = chosen[key].of /\ n > 0
        BY <2>0, <3>4, SelectorAssumption DEF KeyInv
      <4>2. chosen[key].server = Hash(key, n) + 1
        BY <2>0, <3>4, <4>1 DEF KeyInv
      <4>3. Hash(key, n) \in Int /\ Hash(key, Size) \in Int
        BY <3>2, <4>1, HashFacts
      <4>4. Hash(key, n) >= Size \/ Hash(key, Size) >= n
        BY <3>2, <3>3, <3>4, <4>1, <4>2, HashConsistent, Zenon
      <4> QED BY <3>2, <3>3, <4>1, <4>2, <4>3, <4>4, SMTT(30)
    <3> QED BY <3>3, <3>4
  <2>2. CASE ~ \E c \in Callers : SelectHash(c)
    <3>1. chosen' = chosen
      BY <1>1, <2>2, Zenon DEF Next, UpdateServer, SelectNone, SelectRandom, LoadIndex,
                        StoreIndex, NextWeighted, LoadWeight, AddWeight, Compare,
                        LoadBest, SubtractTotal, history, vars
    <3> QED BY <3>1, SMTT(30)
  <2> QED BY <2>1, <2>2, Zenon
<1>2. IndInv /\ [Next]_vars => [Moves]_vars
  BY <1>1
<1> QED BY <1>2, Inductive, PTL DEF Spec, KeyMovesIfItMust

\* A number that is a multiple of the weights, and is less than them below
\* zero, is not below zero.
LEMMA NotBehind ==
  ASSUME NEW sum \in Int, sum > 0, NEW x \in Int, NEW w \in Int, NEW n \in Nat,
         n % sum = 0, Due(w, x, sum, n) > -sum
  PROVE  Due(w, x, sum, n) >= 0
<1>1. PICK q \in Int : n = sum * q
  OBVIOUS
<1>2. Due(w, x, sum, n) = sum * (q * w - x)
  BY <1>1 DEF Due
<1>3. PICK d \in Int : d = q * w - x
  OBVIOUS
<1>4. sum * d > -sum
  BY <1>2, <1>3
<1>5. d >= 0
  BY <1>4
<1> QED BY <1>2, <1>3, <1>5

\* Selects that do not overlap give the servers of a list of any length the
\* shares of their weights, whatever these are.
THEOREM SharesKept == Spec => []WeightedShare
<1>1. ASSUME IndInv PROVE WeightedShare
  <2>1. SUFFICES ASSUME mode \in {"Weighted", "Ping"}, ~raced, Idle,
                        Sum(servers) > 0,
                        \A s \in DOMAIN servers : servers[s] >= 0,
                        NEW s \in DOMAIN servers
                 PROVE  LET ahead == count[s] * Sum(servers) - started * servers[s]
                        IN /\ ahead < Sum(servers)
                           /\ started % Sum(servers) = 0 => ahead = 0
    BY DEF WeightedShare
  <2>2. TypeOK /\ RestInv /\ AheadInv
    BY <1>1 DEF IndInv
  <2>3. /\ Size \in Nat /\ Sum(servers) \in Int /\ started \in Nat
        /\ \A t \in 1 .. Size : /\ servers[t] \in Int /\ count[t] \in Int
                                /\ currentWeight[t] \in Int
    BY <2>2, Elements, Zenon DEF TypeOK
  <2>4. DOMAIN servers = 1 .. Size
    BY <2>2 DEF TypeOK, Size
  <2>5. Fair
    BY <2>1, <2>4 DEF Fair
  <2>6. /\ Sum(currentWeight) = 0
        /\ \A t \in 1 .. Size : /\ currentWeight[t] > -Sum(servers)
                                /\ currentWeight[t] = Due(servers[t], count[t],
                                                         Sum(servers), started)
    BY <2>1, <2>2, <2>5 DEF RestInv, AheadInv
  <2>7. count[s] * Sum(servers) - started * servers[s] = -currentWeight[s]
    <3>1. currentWeight[s] = started * servers[s] - count[s] * Sum(servers)
      BY <2>4, <2>6 DEF Due
    <3> QED BY <2>3, <2>4, <3>1
  <2>8. -currentWeight[s] < Sum(servers)
    BY <2>3, <2>4, <2>6
  <2>9. ASSUME started % Sum(servers) = 0 PROVE currentWeight[s] = 0
    <3>1. ASSUME NEW t \in 1 .. Size PROVE currentWeight[t] >= 0
      BY <2>1, <2>3, <2>6, <2>9, NotBehind
    <3>2. currentWeight \in Seq(Int) /\ Len(currentWeight) = Size
      BY <2>2 DEF TypeOK
    <3>3. currentWeight[s] <= Sum(currentWeight)
      BY <2>4, <3>1, <3>2, ElementOfSum
    <3> QED BY <2>3, <2>4, <2>6, <3>1, <3>3
  <2>10. started % Sum(servers) = 0 => -currentWeight[s] = 0
    BY <2>9
  <2> QED BY <2>7, <2>8, <2>10
<1> QED BY <1>1, Inductive, PTL
=============================================================================
