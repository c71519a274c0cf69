-------------------------- MODULE ResourcesProofs --------------------------
(***************************************************************************)
(* Proofs about what a host has to give, for any containers and requests.  *)
(*                                                                         *)
(* ProjectLimits: what a request hands out adds up to its limit, and a     *)
(* request that met no other leaves the whole divided.                     *)
(* Ports, an instance P: containers made by requests that met no others    *)
(* share no port, and such a request does not fail for one.                *)
(* Capacity, an instance C: where deployments never overlapped, labs and   *)
(* hosts stay within what they have; the scheduler chooses labs that the   *)
(* checks accept, and keeps them level.                                    *)
(***************************************************************************)
EXTENDS Resources, Functions, FiniteSetTheorems, WellFoundedInduction, TLAPS

-----------------------------------------------------------------------------
(* Sums over finite sets. *)

\* The sum of f over S, as the model takes it.
SumOf(f, S) == MapThenSumSet(LAMBDA c : f[c], S)

\* The element a fold takes first, and the running totals of f in that order.
Chosen(s) == CHOOSE x \in s : TRUE

Totals(f, S, i) ==
    i = [s \in SUBSET S |-> IF s = {} THEN 0 ELSE f[Chosen(s)] + i[s \ {Chosen(s)}]]

\* A set of subsets of a finite set has one that no other of them is part of.
LEMMA Smallest ==
    ASSUME NEW S, IsFiniteSet(S), NEW D \in SUBSET SUBSET S, D # {}
    PROVE  \E s \in D : \A t \in D : t \subseteq s => t = s
<1>1. IsWellFoundedOn(StrictSubsetOrdering(S), SUBSET S)
  BY FS_StrictSubsetOrderingWellFounded, FS_FiniteSubsetsOfFinite
<1>2. PICK s \in D : \A t \in D : <<t, s>> \notin StrictSubsetOrdering(S)
  BY <1>1, WFMin
<1> QED BY <1>2 DEF StrictSubsetOrdering

\* There are running totals, taken in the order in which elements are chosen.
LEMMA TotalsExist ==
    ASSUME NEW S, IsFiniteSet(S), NEW f, \A c \in S : f[c] \in Int
    PROVE  \E i \in [SUBSET S -> Int] : Totals(f, S, i)
<1> DEFINE Pairs == (SUBSET S) \X Int
           Closed(Q) == /\ <<{}, 0>> \in Q
                        /\ \A s \in SUBSET S, v \in Int :
                              s # {} /\ <<s \ {Chosen(s)}, v>> \in Q => <<s, f[Chosen(s)] + v>> \in Q
           R == {p \in Pairs : \A Q \in SUBSET Pairs : Closed(Q) => p \in Q}
           One(s, v) == v \in Int /\ \A w \in Int : <<s, w>> \in R <=> w = v
           D == {s \in SUBSET S : ~\E v : One(s, v)}
<1>0. \A s \in SUBSET S : s # {} => Chosen(s) \in s /\ f[Chosen(s)] \in Int
  BY DEF Chosen
<1> HIDE DEF Chosen
<1>1. Closed(R)
  <2>1. <<{}, 0>> \in R
    OBVIOUS
  <2>2. ASSUME NEW s \in SUBSET S, NEW v \in Int, s # {}, <<s \ {Chosen(s)}, v>> \in R
        PROVE  <<s, f[Chosen(s)] + v>> \in R
    <3>1. <<s, f[Chosen(s)] + v>> \in Pairs
      BY <1>0, <2>2
    <3>2. ASSUME NEW Q \in SUBSET Pairs, Closed(Q)
          PROVE  <<s, f[Chosen(s)] + v>> \in Q
      <4>1. <<s \ {Chosen(s)}, v>> \in Q
        BY <2>2, <3>2
      <4> QED BY <2>2, <3>2, <4>1
    <3> HIDE DEF Closed, Pairs
    <3> QED BY <3>1, <3>2
  <2> QED BY <2>1, <2>2
<1>2. ASSUME NEW p \in Pairs, Closed(R \ {p})
      PROVE  p \notin R
  <2> HIDE DEF Closed
  <2>1. R \ {p} \in SUBSET Pairs
    OBVIOUS
  <2> QED BY <1>2, <2>1
<1> HIDE DEF R
<1>3. D = {}
  <2> SUFFICES ASSUME D # {} PROVE FALSE
    OBVIOUS
  <2>1. PICK s \in D : \A t \in D : t \subseteq s => t = s
    <3>1. D \in SUBSET SUBSET S
      OBVIOUS
    <3> HIDE DEF D
    <3> QED BY <3>1, Smallest
  <2>2. s \in SUBSET S /\ ~\E v : One(s, v)
    OBVIOUS
  <2>3. CASE s = {}
    <3>1. <<{}, 0>> \in R
      BY <1>1
    <3>2. ASSUME NEW w \in Int, w # 0 PROVE <<{}, w>> \notin R
      <4>1. Closed(R \ {<<{}, w>>})
        <5>1. <<{}, 0>> \in R \ {<<{}, w>>}
          BY <3>1, <3>2
        <5>2. ASSUME NEW t \in SUBSET S, NEW v \in Int, t # {},
                     <<t \ {Chosen(t)}, v>> \in R \ {<<{}, w>>}
              PROVE  <<t, f[Chosen(t)] + v>> \in R \ {<<{}, w>>}
          BY <1>1, <5>2
        <5> QED BY <5>1, <5>2
      <4>2. <<{}, w>> \in Pairs
        OBVIOUS
      <4> HIDE DEF Closed, Pairs
      <4> QED BY <1>2, <4>1, <4>2
    <3>3. \A w \in Int : <<s, w>> \in R <=> w = 0
      BY <2>3, <3>1, <3>2
    <3>4. One(s, 0)
      BY <3>3
    <3> HIDE DEF One
    <3> QED BY <2>2, <3>4
  <2>4. CASE s # {}
    <3> DEFINE c == Chosen(s)
               t == s \ {c}
    <3>1. c \in s /\ f[c] \in Int /\ t \in SUBSET S /\ t \subseteq s /\ t # s
      BY <1>0, <2>4
    <3>2. PICK v : One(t, v)
      <4>1. t \notin D
        BY <2>1, <3>1
      <4> QED BY <3>1, <4>1
    <3>3. v \in Int /\ <<t, v>> \in R /\ f[c] + v \in Int
      BY <3>1, <3>2
    <3>4. <<s, f[c] + v>> \in R
      BY <1>1, <2>2, <2>4, <3>3
    <3>5. ASSUME NEW w \in Int, w # f[c] + v PROVE <<s, w>> \notin R
      <4>1. Closed(R \ {<<s, w>>})
        <5>1. <<{}, 0>> \in R \ {<<s, w>>}
          BY <1>1, <2>4
        <5>2. ASSUME NEW u \in SUBSET S, NEW x \in Int, u # {},
                     <<u \ {Chosen(u)}, x>> \in R \ {<<s, w>>}
              PROVE  <<u, f[Chosen(u)] + x>> \in R \ {<<s, w>>}
          <6>1. <<u, f[Chosen(u)] + x>> \in R
            BY <1>1, <5>2
          <6>2. CASE u = s
            <7>1. x = v
              BY <3>2, <5>2, <6>2
            <7> QED BY <3>5, <6>1, <6>2, <7>1
          <6> QED BY <6>1, <6>2
        <5> QED BY <5>1, <5>2
      <4>2. <<s, w>> \in Pairs
        BY <2>2
      <4> HIDE DEF Closed, Pairs
      <4> QED BY <1>2, <4>1, <4>2
    <3>6. One(s, f[c] + v)
      BY <3>3, <3>4, <3>5
    <3> QED BY <2>2, <3>6
  <2> QED BY <2>3, <2>4
<1>4. \A s \in SUBSET S : \E v : One(s, v)
  BY <1>3
<1> DEFINE i == [s \in SUBSET S |-> CHOOSE v : One(s, v)]
<1>5. \A s \in SUBSET S : One(s, i[s])
  <2> HIDE DEF One
  <2> QED BY <1>4
<1>6. i \in [SUBSET S -> Int]
  BY <1>5
<1>7. ASSUME NEW s \in SUBSET S
      PROVE  i[s] = IF s = {} THEN 0 ELSE f[Chosen(s)] + i[s \ {Chosen(s)}]
  <2>1. \A w \in Int : <<s, w>> \in R => w = i[s]
    BY <1>5
  <2>2. CASE s = {}
    <3> HIDE DEF i
    <3> QED BY <1>1, <2>1, <2>2
  <2>3. CASE s # {}
    <3> HIDE DEF i
    <3>1. s \ {Chosen(s)} \in SUBSET S
      OBVIOUS
    <3>2. <<s \ {Chosen(s)}, i[s \ {Chosen(s)}]>> \in R /\ i[s \ {Chosen(s)}] \in Int
      BY <1>5, <3>1
    <3>3. <<s, f[Chosen(s)] + i[s \ {Chosen(s)}]>> \in R
      BY <1>1, <2>3, <3>2
    <3> QED BY <1>0, <2>1, <2>3, <3>2, <3>3
  <2> QED BY <2>2, <2>3
<1>8. Totals(f, S, i)
  <2> HIDE DEF i
  <2>1. i = [s \in SUBSET S |-> i[s]]
    BY <1>6
  <2> QED BY <1>7, <2>1 DEF Totals
<1> QED BY <1>6, <1>8

\* They are the same up to any set.
LEMMA TotalsAgree ==
    ASSUME NEW S, IsFiniteSet(S), NEW T \in SUBSET S, NEW f, NEW g,
           \A c \in T : f[c] = g[c],
           NEW i, Totals(f, S, i), NEW j, Totals(g, T, j)
    PROVE  i[T] = j[T]
<1> DEFINE D == {s \in SUBSET T : i[s] # j[s]}
<1> SUFFICES ASSUME D # {} PROVE FALSE
  OBVIOUS
<1>1. PICK s \in D : \A t \in D : t \subseteq s => t = s
  <2>1. D \in SUBSET SUBSET T /\ IsFiniteSet(T)
    BY FS_Subset
  <2> HIDE DEF D
  <2> QED BY <2>1, Smallest
<1>2. /\ i[s] = IF s = {} THEN 0 ELSE f[Chosen(s)] + i[s \ {Chosen(s)}]
      /\ j[s] = IF s = {} THEN 0 ELSE g[Chosen(s)] + j[s \ {Chosen(s)}]
  BY DEF Totals
<1>3. CASE s = {}
  BY <1>2, <1>3
<1>4. CASE s # {}
  <2>1. Chosen(s) \in s /\ Chosen(s) \in T
    BY <1>4 DEF Chosen
  <2>2. s \ {Chosen(s)} \notin D
    BY <1>1, <2>1
  <2>3. i[s \ {Chosen(s)}] = j[s \ {Chosen(s)}] /\ f[Chosen(s)] = g[Chosen(s)]
    BY <2>1, <2>2
  <2> QED BY <1>2, <1>4, <2>3
<1> QED BY <1>3, <1>4

\* Running totals that are the sums.
Tallies(f, S, i) ==
    /\ i \in [SUBSET S -> Int] /\ Totals(f, S, i)
    /\ \A T \in SUBSET S : SumOf(f, T) = i[T]

\* A sum is the last of its running totals.
LEMMA SumIsTotal ==
    ASSUME NEW S, IsFiniteSet(S), NEW f, \A c \in S : f[c] \in Int
    PROVE  \E i : Tallies(f, S, i)
<1>1. ASSUME NEW T \in SUBSET S
      PROVE  \E j : Totals(f, T, j) /\ SumOf(f, T) = j[T]
  <2> DEFINE j == CHOOSE j : Totals(f, T, j)
  <2>1. \E k : Totals(f, T, k)
    BY FS_Subset, TotalsExist
  <2>2. Totals(f, T, j)
    BY <2>1
  <2>3. SumOf(f, T) = j[T]
    BY DEF SumOf, MapThenSumSet, MapThenFoldSet, Totals, Chosen
  <2> QED BY <2>2, <2>3
<1>2. PICK i \in [SUBSET S -> Int] : Totals(f, S, i)
  BY TotalsExist
<1>3. ASSUME NEW T \in SUBSET S
      PROVE  SumOf(f, T) = i[T]
  <2>1. PICK j : Totals(f, T, j) /\ SumOf(f, T) = j[T]
    BY <1>1
  <2> QED BY <1>2, <2>1, TotalsAgree
<1>4. Tallies(f, S, i)
  BY <1>2, <1>3 DEF Tallies
<1> QED BY <1>4

\* Taking any element out takes its part out.
LEMMA SumSplits ==
    ASSUME NEW S, IsFiniteSet(S), NEW f, \A c \in S : f[c] \in Int
    PROVE  /\ SumOf(f, S) \in Int
           /\ SumOf(f, {}) = 0
           /\ \A c \in S : SumOf(f, S) = f[c] + SumOf(f, S \ {c})
<1>0. PICK i : Tallies(f, S, i)
  BY SumIsTotal
<1>1. /\ i \in [SUBSET S -> Int] /\ Totals(f, S, i)
      /\ \A T \in SUBSET S : SumOf(f, T) = i[T]
  BY <1>0 DEF Tallies
<1>2. \A s \in SUBSET S : i[s] = IF s = {} THEN 0 ELSE f[Chosen(s)] + i[s \ {Chosen(s)}]
  BY <1>1 DEF Totals
<1> DEFINE D == {s \in SUBSET S : \E c \in s : i[s] # f[c] + i[s \ {c}]}
<1>3. D = {}
  <2> SUFFICES ASSUME D # {} PROVE FALSE
    OBVIOUS
  <2>1. PICK s \in D : \A t \in D : t \subseteq s => t = s
    <3>1. D \in SUBSET SUBSET S
      OBVIOUS
    <3> HIDE DEF D
    <3> QED BY <3>1, Smallest
  <2>2. PICK c \in s : i[s] # f[c] + i[s \ {c}]
    BY <2>1
  <2> DEFINE d == Chosen(s)
  <2>3. s \in SUBSET S /\ d \in s /\ i[s] = f[d] + i[s \ {d}]
    BY <1>2, <2>2 DEF Chosen
  <2> HIDE DEF d
  <2>4. d # c
    BY <2>2, <2>3
  <2>5. s \ {d} \notin D /\ s \ {c} \notin D
    BY <2>1, <2>2, <2>3
  <2>6. /\ i[s \ {d}] = f[c] + i[(s \ {d}) \ {c}]
        /\ i[s \ {c}] = f[d] + i[(s \ {c}) \ {d}]
    BY <2>2, <2>3, <2>4, <2>5
  <2>7. (s \ {d}) \ {c} = (s \ {c}) \ {d}
    OBVIOUS
  <2>8. f[c] \in Int /\ f[d] \in Int /\ i[(s \ {c}) \ {d}] \in Int
    <3>1. (s \ {c}) \ {d} \in SUBSET S /\ c \in S /\ d \in S
      BY <2>2, <2>3
    <3> HIDE DEF D
    <3> QED BY <1>1, <3>1
  <2>9. i[s] = f[d] + (f[c] + i[(s \ {c}) \ {d}])
    BY <2>3, <2>6, <2>7
  <2> HIDE DEF D
  <2>10. i[s] = f[c] + (f[d] + i[(s \ {c}) \ {d}])
    BY <2>8, <2>9
  <2> QED BY <2>2, <2>6, <2>10
<1>4. SumOf(f, {}) = 0
  BY <1>1, <1>2
<1>5. ASSUME NEW c \in S
      PROVE  SumOf(f, S) = f[c] + SumOf(f, S \ {c})
  <2>1. i[S] = f[c] + i[S \ {c}]
    BY <1>3
  <2> HIDE DEF D
  <2> QED BY <1>1, <2>1
<1>6. SumOf(f, S) \in Int
  BY <1>1
<1> QED BY <1>4, <1>5, <1>6

\* A sum depends on nothing but its parts.
LEMMA SumSame ==
    ASSUME NEW S, IsFiniteSet(S), NEW f, NEW g, \A c \in S : f[c] \in Int /\ f[c] = g[c]
    PROVE  SumOf(f, S) = SumOf(g, S)
<1>1. PICK i : Tallies(f, S, i)
  BY SumIsTotal
<1>2. PICK j : Tallies(g, S, j)
  BY SumIsTotal
<1>3. i[S] = j[S]
  BY <1>1, <1>2, TotalsAgree DEF Tallies
<1> QED BY <1>1, <1>2, <1>3 DEF Tallies
-----------------------------------------------------------------------------
(* Arithmetic of the division.                                             *)

\* Quotient and remainder.
LEMMA DivMod ==
    ASSUME NEW t \in Nat, NEW n \in Nat \ {0}
    PROVE  /\ t \div n \in Nat /\ t % n \in 0..(n - 1)
           /\ t = n * (t \div n) + (t % n)
  BY SMT

\* A limit that is not too low leaves nobody with nothing.
LEMMA PartPositive ==
    ASSUME NEW t \in Nat, NEW n \in Nat \ {0}, n <= t, NEW i \in Nat
    PROVE  Part(t, n, i) \in Nat /\ Part(t, n, i) > 0
<1>1. t \div n \in Nat /\ t \div n > 0
  <2>1. t \div n \in Nat /\ t % n < n /\ t = n * (t \div n) + (t % n)
    BY DivMod
  <2>2. CASE t \div n = 0
    <3>1. t = t % n
      BY <2>1, <2>2
    <3> QED BY <2>1, <3>1
  <2> QED BY <2>1, <2>2
<1> QED BY <1>1 DEF Part

\* What the first k containers get.
Handed(t, n, k) == k * (t \div n) + (IF k <= t % n THEN k ELSE t % n)

\* The next container adds its part.
LEMMA HandedStep ==
    ASSUME NEW t \in Nat, NEW n \in Nat \ {0}, NEW k \in Nat
    PROVE  /\ Handed(t, n, k) \in Nat
           /\ Handed(t, n, k + 1) = Handed(t, n, k) + Part(t, n, k + 1)
<1> DEFINE q == t \div n
           m == t % n
<1>1. q \in Nat /\ m \in Nat
  BY DivMod
<1> HIDE DEF q, m
<1>2. k * q \in Nat /\ (k + 1) * q = k * q + q
  BY <1>1
<1>3. /\ Handed(t, n, k) = k * q + (IF k <= m THEN k ELSE m)
      /\ Handed(t, n, k + 1) = (k + 1) * q + (IF k + 1 <= m THEN k + 1 ELSE m)
      /\ Part(t, n, k + 1) = q + (IF k + 1 <= m THEN 1 ELSE 0)
  BY DEF Handed, Part, q, m
<1> QED BY <1>1, <1>2, <1>3

\* All containers together get the limit, none get nothing.
LEMMA HandedAll ==
    ASSUME NEW t \in Nat, NEW n \in Nat \ {0}
    PROVE  Handed(t, n, n) = t /\ Handed(t, n, 0) = 0
  BY DivMod DEF Handed

\* A list of a set has every element, once.
LEMMA OrderHasAll ==
    ASSUME NEW S, IsFiniteSet(S), NEW s \in Orders(S)
    PROVE  /\ Cardinality(S) \in Nat
           /\ s \in [1..Cardinality(S) -> S]
           /\ \A c \in S : \E i \in 1..Cardinality(S) : s[i] = c
           /\ \A i, j \in 1..Cardinality(S) : s[i] = s[j] => i = j
<1> DEFINE n == Cardinality(S)
<1>1. n \in Nat
  BY FS_CardinalityType
<1>2. s \in Injection(1..n, S)
  BY DEF Orders, Injection, IsInjective
<1>3. Cardinality(1..n) = n
  BY <1>1, FS_Interval
<1>4. s \in Surjection(1..n, S)
  BY <1>2, <1>3, FS_Injection
<1> QED BY <1>1, <1>4 DEF Orders, Surjection

\* The parts of a limit add up to it.
LEMMA PartsAddUp ==
    ASSUME NEW S, IsFiniteSet(S), NEW s \in Orders(S), NEW t \in Nat, NEW f,
           Cardinality(S) # 0, Cardinality(S) <= t,
           \A i \in 1..Cardinality(S) : f[s[i]] = Part(t, Cardinality(S), i)
    PROVE  SumOf(f, S) = t /\ \A c \in S : f[c] > 0
<1> DEFINE n == Cardinality(S)
           First(k) == {s[i] : i \in 1..k}
           D == {First(k) : k \in {k \in 0..n : SumOf(f, First(k)) # Handed(t, n, k)}}
<1>1. /\ n \in Nat \ {0} /\ n <= t /\ s \in [1..n -> S]
      /\ \A c \in S : \E i \in 1..n : s[i] = c
      /\ \A i, j \in 1..n : s[i] = s[j] => i = j
      /\ \A i \in 1..n : f[s[i]] = Part(t, n, i)
  BY OrderHasAll
<1> HIDE DEF n
<1>2. \A i \in 1..n : f[s[i]] \in Nat /\ f[s[i]] > 0
  <2> SUFFICES ASSUME NEW i \in 1..n PROVE Part(t, n, i) \in Nat /\ Part(t, n, i) > 0
    BY <1>1
  <2>1. i \in Nat
    BY <1>1
  <2> QED BY <1>1, <2>1, PartPositive
<1>3. \A c \in S : f[c] \in Int /\ f[c] > 0
  BY <1>1, <1>2
<1>7. \A m \in Nat : /\ Handed(t, n, m) \in Nat
                     /\ Handed(t, n, m + 1) = Handed(t, n, m) + Part(t, n, m + 1)
  BY <1>1, HandedStep
<1>0. \A k \in 0..n : First(k) \in SUBSET S
  BY <1>1
<1>4. D = {}
  <2> SUFFICES ASSUME D # {} PROVE FALSE
    OBVIOUS
  <2>1. PICK T \in D : \A U \in D : U \subseteq T => U = T
    <3>1. D \in SUBSET SUBSET S
      <4> HIDE DEF First
      <4> QED BY <1>0
    <3> HIDE DEF D
    <3> QED BY <3>1, Smallest
  <2>2. PICK k \in 0..n : T = First(k) /\ SumOf(f, First(k)) # Handed(t, n, k)
    OBVIOUS
  <2>3. First(k) \in SUBSET S /\ IsFiniteSet(First(k))
    <3> HIDE DEF First
    <3> QED BY <1>0, FS_Subset
  <2>4. CASE k = 0
    <3>1. First(k) = {}
      BY <2>4
    <3> HIDE DEF First
    <3>2. SumOf(f, {}) = 0
      BY <1>3, SumSplits
    <3> QED BY <1>1, <2>2, <2>4, <3>1, <3>2, HandedAll
  <2>5. CASE k # 0
    <3> DEFINE j == k - 1
    <3>1. j \in 0..n /\ j \in Nat /\ k = j + 1 /\ k \in 1..n
      BY <1>1, <2>5
    <3>2. /\ s[k] \in First(k) /\ s[k] \notin First(j)
          /\ First(k) \ {s[k]} = First(j)
      <4>1. 1..k = (1..j) \cup {k} /\ k \notin 1..j
        BY <3>1
      <4>2. s[k] \notin First(j)
        BY <1>1, <3>1
      <4>3. s[k] \in First(k)
        BY <4>1
      <4>4. First(k) = First(j) \cup {s[k]}
        <5> HIDE DEF j
        <5> QED BY <4>1
      <4> QED BY <4>2, <4>3, <4>4
    <3>3. SumOf(f, First(j)) = Handed(t, n, j)
      <4>1. First(j) \subseteq T /\ First(j) # T
        BY <2>2, <3>2
      <4>2. First(j) \notin D
        <5> HIDE DEF D, First
        <5> QED BY <2>1, <4>1
      <4> QED BY <3>1, <4>2
    <3> HIDE DEF First, j
    <3>4. SumOf(f, First(k)) = f[s[k]] + SumOf(f, First(k) \ {s[k]})
      BY <1>3, <2>3, <3>2, SumSplits
    <3>5. f[s[k]] = Part(t, n, k) /\ Part(t, n, k) \in Nat
      <4>1. k \in Nat
        BY <3>1
      <4> QED BY <1>1, <3>1, <4>1, PartPositive
    <3>6. /\ Handed(t, n, j) \in Nat
          /\ Handed(t, n, k) = Handed(t, n, j) + Part(t, n, k)
      <4>1. Handed(t, n, j) \in Nat /\ Handed(t, n, j + 1) = Handed(t, n, j) + Part(t, n, j + 1)
        BY <3>1, <1>7
      <4> QED BY <3>1, <4>1
    <3> QED BY <2>2, <3>2, <3>3, <3>4, <3>5, <3>6
  <2> QED BY <2>4, <2>5
<1>5. First(n) = S
  BY <1>1
<1>6. SumOf(f, First(n)) = Handed(t, n, n)
  <2>1. n \in 0..n
    BY <1>1
  <2>2. First(n) \notin D
    BY <1>4
  <2> HIDE DEF First
  <2> QED BY <2>1, <2>2
<1> HIDE DEF First, D
<1> QED BY <1>1, <1>3, <1>5, <1>6, HandedAll

-----------------------------------------------------------------------------
(* The inductive invariant.                                                *)

(* What a request has handed out is the sum of the parts of the containers *)
(* it has updated, of a limit that is not too low.                         *)
Shares(r) ==
    /\ pc[r] # "update" => given[r] = 0 /\ todo[r] = <<>>
    /\ pc[r] = "update" =>
        /\ total[r] \in Nat /\ Len(todo[r]) # 0 /\ Len(todo[r]) <= total[r]
        /\ given[r] = Handed(total[r], Len(todo[r]), idx[r])

IInv == TypeOK /\ \A r \in Request : Shares(r)

\* The invariant gives the property.
LEMMA SharesHandOutAll == IInv => HandsOutAll
<1> SUFFICES ASSUME IInv, NEW r \in Request, pc[r] = "update"
             PROVE  LET n == Len(todo[r])
                    IN  /\ Part(total[r], n, idx[r] + 1) > 0
                        /\ idx[r] = n - 1 => given[r] + Part(total[r], n, n) = total[r]
  BY DEF HandsOutAll
<1> DEFINE n == Len(todo[r])
<1>1. /\ total[r] \in Nat /\ n \in Nat \ {0} /\ n <= total[r] /\ idx[r] \in Nat
      /\ given[r] = Handed(total[r], n, idx[r])
  BY DEF IInv, TypeOK, Shares
<1> HIDE DEF n
<1>2. Part(total[r], n, idx[r] + 1) > 0
  <2>1. idx[r] + 1 \in Nat
    BY <1>1
  <2> QED BY <1>1, <2>1, PartPositive
<1>3. ASSUME idx[r] = n - 1
      PROVE  given[r] + Part(total[r], n, n) = total[r]
  <2>1. Handed(total[r], n, idx[r] + 1) = Handed(total[r], n, idx[r]) + Part(total[r], n, idx[r] + 1)
    BY <1>1, HandedStep
  <2>2. idx[r] + 1 = n
    BY <1>1, <1>3
  <2> QED BY <1>1, <2>1, <2>2, HandedAll
<1> QED BY <1>2, <1>3 DEF n

\* Nothing is handed out at first.
LEMMA InitIInv == Init => IInv
<1> SUFFICES ASSUME Init PROVE IInv
  OBVIOUS
<1>1. <<>> \in Seq(Container) /\ Len(<<>>) = 0
  OBVIOUS
<1>2. \A r \in Request : /\ pc[r] = "idle" /\ todo[r] = <<>> /\ idx[r] = 0 /\ given[r] = 0
  BY DEF Init
<1>3. TypeOK
  BY <1>1, <1>2, BoundAssumption DEF Init, TypeOK, Total
<1> QED BY <1>2, <1>3 DEF IInv, Shares

\* A request that ends, or has not begun to update, has handed out nothing.
LEMMA LeaveShares ==
    ASSUME IInv, NEW r \in Request, Leave(r)
    PROVE  /\ pc' \in [Request -> {"idle", "up", "list", "update"}]
           /\ job' \in [Request -> {"none", "deploy", "up"}]
           /\ total' \in [Request -> Total]
           /\ todo' \in [Request -> Seq(Container)]
           /\ idx' \in [Request -> Nat] /\ given' \in [Request -> Nat]
           /\ \A a \in Request : /\ idx'[a] <= Len(todo'[a])
                                 /\ pc'[a] = "update" <=> idx'[a] < Len(todo'[a])
                                 /\ Shares(a)'
<1>1. /\ pc' \in [Request -> {"idle", "up", "list", "update"}]
      /\ job' \in [Request -> {"none", "deploy", "up"}]
      /\ total' \in [Request -> Total]
      /\ todo' \in [Request -> Seq(Container)]
      /\ idx' \in [Request -> Nat] /\ given' \in [Request -> Nat]
  BY DEF IInv, TypeOK, Leave, Goto, Total
<1>2. ASSUME NEW a \in Request
      PROVE  /\ idx'[a] <= Len(todo'[a])
             /\ pc'[a] = "update" <=> idx'[a] < Len(todo'[a])
             /\ Shares(a)'
  <2>1. CASE a = r
    <3>1. pc'[r] = "idle" /\ todo'[r] = <<>> /\ idx'[r] = 0 /\ given'[r] = 0
      BY DEF IInv, TypeOK, Leave, Goto
    <3> QED BY <2>1, <3>1 DEF Shares
  <2>2. CASE a # r
    <3>1. /\ pc'[a] = pc[a] /\ todo'[a] = todo[a] /\ idx'[a] = idx[a]
          /\ given'[a] = given[a] /\ total'[a] = total[a]
      BY <2>2 DEF IInv, TypeOK, Leave, Goto
    <3> QED BY <3>1 DEF Shares, IInv, TypeOK
  <2> QED BY <2>1, <2>2
<1> QED BY <1>1, <1>2

\* A list of a finite set.
LEMMA OrderIsSeq ==
    ASSUME NEW S \in SUBSET Container, NEW s \in Orders(S)
    PROVE  s \in Seq(Container) /\ Len(s) = Cardinality(S) /\ Cardinality(S) \in Nat
<1>1. Cardinality(S) \in Nat
  BY ContainerAssumption, FS_Subset, FS_CardinalityType
<1> QED BY <1>1 DEF Orders

\* A step of one request keeps the others' shares.
LEMMA NextIInv == IInv /\ [Next]_vars => IInv'
<1> SUFFICES ASSUME IInv, [Next]_vars PROVE IInv'
  OBVIOUS
<1>1. ASSUME NEW r \in Request, BeginDeploy(r)
      PROVE  IInv'
  <2>1. TypeOK'
    BY <1>1, BoundAssumption, SMTT(30) DEF IInv, TypeOK, BeginDeploy, Begin, Goto, Busy
  <2>2. ASSUME NEW a \in Request
        PROVE  Shares(a)'
    BY <1>1 DEF IInv, TypeOK, Shares, BeginDeploy, Begin, Goto
  <2> QED BY <2>1, <2>2 DEF IInv
<1>2. ASSUME NEW r \in Request, BeginUp(r)
      PROVE  IInv'
  <2>1. TypeOK'
    BY <1>2, BoundAssumption, SMTT(30) DEF IInv, TypeOK, BeginUp, Begin, Goto, Busy
  <2>2. ASSUME NEW a \in Request
        PROVE  Shares(a)'
    BY <1>2 DEF IInv, TypeOK, Shares, BeginUp, Begin, Goto
  <2> QED BY <2>1, <2>2 DEF IInv
<1>3. ASSUME NEW r \in Request, Up(r)
      PROVE  IInv'
  <2>1. /\ here' \subseteq Container /\ quota' \in [Container -> Nat]
        /\ faults' \in 0..MaxFaults
    BY <1>3, BoundAssumption DEF IInv, TypeOK, Up, Fault
  <2>2. CASE Goto(r, "list") /\ UNCHANGED <<job, total, todo, idx, given, faults>>
    <3>1. pc' \in [Request -> {"idle", "up", "list", "update"}]
      BY <2>2 DEF IInv, TypeOK, Goto
    <3>2. \A a \in Request : pc'[a] = "update" <=> pc[a] = "update"
      BY <1>3, <2>2 DEF IInv, TypeOK, Up, Goto
    <3>3. TypeOK'
      BY <1>3, <2>1, <2>2, <3>1, <3>2 DEF IInv, TypeOK, Up
    <3> QED BY <2>2, <3>2, <3>3 DEF IInv, Shares
  <2>3. CASE Leave(r)
    BY <1>3, <2>1, <2>3, LeaveShares DEF IInv, TypeOK, Up
  <2> QED BY <1>3, <2>2, <2>3 DEF Up
<1>4. ASSUME NEW r \in Request, List(r)
      PROVE  IInv'
  <2> DEFINE limit == IF job[r] = "up" THEN meta ELSE total[r]
             n == Cardinality(Listed)
  <2>1. CASE Leave(r)
    BY <1>4, <2>1, LeaveShares DEF IInv, TypeOK, List
  <2>2. CASE ~Leave(r)
    <3>1. /\ limit # None /\ n # 0 /\ ~(limit < n)
          /\ total' = [total EXCEPT ![r] = limit]
          /\ pc[r] = "list" /\ pc' = [pc EXCEPT ![r] = "update"]
          /\ UNCHANGED <<job, idx, given, meta, services, here, quota, jobs, faults, met, whole>>
      BY <1>4, <2>2 DEF List, Goto, TooLow
    <3>2. PICK s \in Orders(Listed) : todo' = [todo EXCEPT ![r] = s]
      BY <1>4, <2>2 DEF List
    <3>3. s \in Seq(Container) /\ Len(s) = n /\ n \in Nat
      BY <3>2, OrderIsSeq DEF Listed, IInv, TypeOK
    <3>4. limit \in Limit /\ limit \in Nat /\ n <= limit
      <4>1. limit \in Total
        BY DEF IInv, TypeOK
      <4>2. limit \in Limit /\ limit \in Nat
        BY <3>1, <4>1, LimitAssumption DEF Total
      <4> QED BY <3>1, <3>3, <4>2
    <3> HIDE DEF limit, n
    <3>5. idx[r] = 0 /\ given[r] = 0
      <4>1. todo[r] = <<>> /\ given[r] = 0 /\ idx[r] <= Len(todo[r]) /\ idx[r] \in Nat
        BY <3>1 DEF IInv, TypeOK, Shares
      <4> QED BY <4>1
    <3>6. /\ pc'[r] = "update" /\ todo'[r] = s /\ total'[r] = limit
          /\ idx'[r] = 0 /\ given'[r] = 0
      BY <3>1, <3>2, <3>5 DEF IInv, TypeOK
    <3>7. \A a \in Request \ {r} :
            pc'[a] = pc[a] /\ todo'[a] = todo[a] /\ total'[a] = total[a]
      BY <3>1, <3>2 DEF IInv, TypeOK
    <3>8. Shares(r)'
      <4>1. Handed(limit, n, 0) = 0
        BY <3>1, <3>3, <3>4, HandedAll
      <4> QED BY <3>1, <3>3, <3>4, <3>6, <4>1 DEF Shares
    <3>9. \A a \in Request \ {r} : Shares(a)'
      BY <3>1, <3>7 DEF IInv, Shares
    <3>10. /\ pc' \in [Request -> {"idle", "up", "list", "update"}]
           /\ total' \in [Request -> Total]
           /\ todo' \in [Request -> Seq(Container)]
      BY <3>1, <3>2, <3>3, <3>4 DEF IInv, TypeOK, Total
    <3>11. \A a \in Request : /\ idx'[a] <= Len(todo'[a])
                              /\ pc'[a] = "update" <=> idx'[a] < Len(todo'[a])
      <4>1. idx'[r] < Len(todo'[r])
        BY <3>1, <3>3, <3>6
      <4> QED BY <3>1, <3>6, <3>7, <4>1 DEF IInv, TypeOK
    <3>12. /\ \A a \in Request : idx'[a] <= Len(todo'[a])
           /\ \A a \in Request : pc'[a] = "update" <=> idx'[a] < Len(todo'[a])
      BY <3>11
    <3>13. TypeOK'
      BY <3>1, <3>10, <3>12 DEF IInv, TypeOK
    <3> QED BY <3>8, <3>9, <3>13 DEF IInv
  <2> QED BY <2>1, <2>2
<1>5. ASSUME NEW r \in Request, Update(r)
      PROVE  IInv'
  <2> DEFINE n == Len(todo[r])
             i == idx[r] + 1
             part == Part(total[r], n, i)
  <2>1. /\ pc[r] = "update" /\ todo[r] \in Seq(Container)
        /\ total[r] \in Nat /\ n \in Nat \ {0} /\ n <= total[r]
        /\ idx[r] \in Nat /\ i \in 1..n
        /\ given[r] = Handed(total[r], n, idx[r])
    BY <1>5 DEF IInv, TypeOK, Shares, Update
  <2>2. part \in Nat
    <3>1. i \in Nat
      BY <2>1
    <3> QED BY <2>1, <3>1, PartPositive
  <2>3. quota' \in [Container -> Nat] /\ whole' \subseteq Request
    BY <1>5, <2>1, <2>2 DEF IInv, TypeOK, Update
  <2>4. CASE i = n
    <3>1. Leave(r)
      BY <1>5, <2>4 DEF Update
    <3> QED BY <1>5, <2>3, <3>1, LeaveShares DEF IInv, TypeOK, Update
  <2>5. CASE i # n
    <3>1. /\ idx' = [idx EXCEPT ![r] = i] /\ given' = [given EXCEPT ![r] = @ + part]
          /\ UNCHANGED <<pc, job, total, todo, whole>>
      BY <1>5, <2>5 DEF Update
    <3>2. idx'[r] = idx[r] + 1 /\ given'[r] = given[r] + part
      BY <3>1 DEF IInv, TypeOK
    <3>3. \A a \in Request \ {r} : idx'[a] = idx[a] /\ given'[a] = given[a]
      BY <3>1 DEF IInv, TypeOK
    <3>4. /\ Handed(total[r], n, idx[r]) + part = Handed(total[r], n, idx[r] + 1)
          /\ Handed(total[r], n, idx[r]) \in Nat
      BY <2>1, HandedStep
    <3> HIDE DEF n, part
    <3>5. Shares(r)'
      BY <2>1, <3>1, <3>2, <3>4 DEF Shares, n
    <3>6. \A a \in Request \ {r} : Shares(a)'
      BY <3>1, <3>3 DEF IInv, Shares
    <3>7. idx' \in [Request -> Nat] /\ given' \in [Request -> Nat]
      BY <2>1, <2>2, <3>1, <3>4 DEF IInv, TypeOK
    <3>8. \A a \in Request : /\ idx'[a] <= Len(todo'[a])
                             /\ pc'[a] = "update" <=> idx'[a] < Len(todo'[a])
      <4>1. idx'[r] < Len(todo[r]) /\ idx'[r] <= Len(todo[r])
        BY <2>1, <2>5, <3>2 DEF n
      <4> QED BY <2>1, <3>1, <3>3, <4>1 DEF IInv, TypeOK
    <3>9. /\ \A a \in Request : idx'[a] <= Len(todo'[a])
          /\ \A a \in Request : pc'[a] = "update" <=> idx'[a] < Len(todo'[a])
      BY <3>8
    <3>10. /\ UNCHANGED <<pc, job, total, todo>>
           /\ UNCHANGED <<meta, services, here, jobs, faults, met>>
      BY <1>5, <3>1 DEF Update
    <3>11. TypeOK'
      BY <2>3, <3>7, <3>9, <3>10 DEF IInv, TypeOK
    <3> QED BY <3>5, <3>6, <3>11 DEF IInv
  <2> QED BY <2>4, <2>5
<1>6. ASSUME NEW r \in Request, UpdateFails(r)
      PROVE  IInv'
  <2>1. faults' \in 0..MaxFaults /\ Leave(r)
    BY <1>6, BoundAssumption DEF IInv, TypeOK, UpdateFails, Fault
  <2> QED BY <1>6, <2>1, LeaveShares DEF IInv, TypeOK, UpdateFails
<1>7. CASE Down
  <2>1. TypeOK'
    BY <1>7, BoundAssumption, SMTT(30) DEF IInv, TypeOK, Down, local, Busy
  <2> QED BY <1>7, <2>1 DEF IInv, Shares, Down, local
<1>8. CASE UNCHANGED vars
  BY <1>8 DEF IInv, TypeOK, Shares, vars, local
<1> QED BY <1>1, <1>2, <1>3, <1>4, <1>5, <1>6, <1>7, <1>8 DEF Next, Serve

-----------------------------------------------------------------------------
(* Theorems.                                                               *)

(* The variables keep their types, and a request updates exactly while it  *)
(* has containers left (docker_interface.py:387).                          *)
THEOREM TypeCorrect == Spec => []TypeOK
<1>1. IInv => TypeOK
  BY DEF IInv
<1> QED BY InitIInv, NextIInv, <1>1, PTL DEF Spec

(* Whatever requests meet, a request that reaches the last container has   *)
(* handed out exactly its limit, and no container gets 0, for any number   *)
(* of containers and any limit (docker_interface.py:369, 385).             *)
THEOREM AllHandedOut == Spec => []HandsOutAll
BY InitIInv, NextIInv, SharesHandOutAll, PTL DEF Spec

-----------------------------------------------------------------------------
(* A request that meets no other divides the whole limit.                  *)

(* It is the only one under way. Until it has read a limit, that of a      *)
(* deployment is the one written; then it has listed all containers, and   *)
(* those updated have their parts.                                         *)
Alone(r) ==
    r \notin met /\ pc[r] # "idle" =>
        /\ Busy = {r}
        /\ pc[r] # "update" /\ job[r] # "up" => total[r] = meta
        /\ pc[r] = "update" =>
            /\ total[r] = meta /\ todo[r] \in Orders(here)
            /\ \A i \in 1..idx[r] : quota[todo[r][i]] = Part(total[r], Len(todo[r]), i)

\* What the last request has shared out, nobody has touched since.
AtRest == whole # {} => Busy = {}

WInv == IInv /\ (\A r \in Request : Alone(r)) /\ AtRest /\ WholeIsShared

LEMMA InitWInv == Init => WInv
  BY InitIInv DEF Init, WInv, Alone, AtRest, WholeIsShared, Busy

\* A request under way looks after its own part; if it has met nobody, there is
\* no other.
LEMMA OneServes ==
    ASSUME WInv, NEW r \in Request, pc[r] # "idle",
           met' = met, \A a \in Request \ {r} : pc'[a] = pc[a],
           pc'[r] = "idle" \/ whole' = whole,
           whole' = whole \/ r \notin met,
           whole' = whole \/ WholeIsShared',
           r \notin met /\ pc'[r] # "idle" =>
                /\ pc'[r] # "update" /\ job'[r] # "up" => total'[r] = meta'
                /\ pc'[r] = "update" =>
                    /\ total'[r] = meta' /\ todo'[r] \in Orders(here')
                    /\ \A i \in 1..idx'[r] : quota'[todo'[r][i]] = Part(total'[r], Len(todo'[r]), i)
    PROVE  (\A a \in Request : Alone(a)') /\ AtRest' /\ WholeIsShared'
<1>1. whole = {}
  BY DEF WInv, AtRest, Busy
<1>2. ASSUME NEW a \in Request, a # r
      PROVE  Alone(a)'
  <2>1. a \in met \/ pc[a] = "idle"
    BY <1>2 DEF WInv, Alone, Busy
  <2> QED BY <1>2, <2>1 DEF Alone
<1>3. r \notin met => Busy' \subseteq {r}
  BY DEF WInv, Alone, Busy
<1>4. Alone(r)'
  <2> SUFFICES ASSUME r \notin met, pc'[r] # "idle" PROVE Alone(r)'
    BY DEF Alone
  <2>1. Busy' = {r}
    BY <1>3 DEF Busy
  <2> QED BY <2>1 DEF Alone
<1>5. AtRest'
  <2> SUFFICES ASSUME whole' # {} PROVE Busy' = {}
    BY DEF AtRest
  <2>1. pc'[r] = "idle" /\ r \notin met
    BY <1>1
  <2>2. r \notin Busy'
    BY <2>1 DEF Busy
  <2> QED BY <1>3, <2>1, <2>2
<1>6. WholeIsShared'
  BY <1>1 DEF WholeIsShared
<1> QED BY <1>2, <1>4, <1>5, <1>6

\* A request that begins is met by all others, or there is none.
LEMMA OneBegins ==
    ASSUME WInv, NEW r \in Request, NEW op \in {"deploy", "up"}, Begin(r, op),
           op = "deploy" => total'[r] = meta'
    PROVE  (\A a \in Request : Alone(a)') /\ AtRest' /\ WholeIsShared'
<1>1. /\ whole' = {} /\ pc[r] = "idle" /\ pc' = [pc EXCEPT ![r] = "up"]
      /\ job' = [job EXCEPT ![r] = op]
      /\ met' = IF Busy = {} THEN met \ {r} ELSE met \cup Busy \cup {r}
  BY DEF Begin, Goto
<1>2. pc'[r] = "up" /\ job'[r] = op /\ \A a \in Request \ {r} : pc'[a] = pc[a]
  BY <1>1 DEF WInv, IInv, TypeOK
<1>3. AtRest' /\ WholeIsShared'
  BY <1>1 DEF AtRest, WholeIsShared
<1>4. ASSUME NEW a \in Request, a # r
      PROVE  Alone(a)'
  <2>1. pc[a] # "idle" => a \in met'
    BY <1>1 DEF Busy
  <2> QED BY <1>2, <1>4, <2>1 DEF Alone
<1>5. Alone(r)'
  <2> SUFFICES ASSUME r \notin met' PROVE Alone(r)'
    BY DEF Alone
  <2>1. Busy = {}
    BY <1>1
  <2>2. Busy' = {r}
    BY <1>2, <2>1 DEF Busy
  <2> QED BY <1>2, <2>2 DEF Alone
<1> QED BY <1>3, <1>4, <1>5

\* Nothing of the kind is lost on the way, and at the end the parts add up.
LEMMA NextWInv == WInv /\ [Next]_vars => WInv'
<1> SUFFICES ASSUME WInv, [Next]_vars PROVE WInv'
  OBVIOUS
<1>0. IInv'
  BY NextIInv DEF WInv
<1> SUFFICES (\A a \in Request : Alone(a)') /\ AtRest' /\ WholeIsShared'
  BY <1>0 DEF WInv
<1> USE DEF WInv, IInv
<1>1. ASSUME NEW r \in Request, BeginDeploy(r)
      PROVE  (\A a \in Request : Alone(a)') /\ AtRest' /\ WholeIsShared'
  <2>1. Begin(r, "deploy") /\ total'[r] = meta'
    BY <1>1 DEF BeginDeploy, TypeOK
  <2> QED BY <2>1, OneBegins
<1>2. ASSUME NEW r \in Request, BeginUp(r)
      PROVE  (\A a \in Request : Alone(a)') /\ AtRest' /\ WholeIsShared'
  BY <1>2, OneBegins DEF BeginUp
<1>3. ASSUME NEW r \in Request, Up(r)
      PROVE  (\A a \in Request : Alone(a)') /\ AtRest' /\ WholeIsShared'
  <2>1. /\ pc[r] = "up" /\ UNCHANGED <<meta, met, whole>>
        /\ \/ pc' = [pc EXCEPT ![r] = "list"] /\ UNCHANGED <<job, total>>
           \/ pc' = [pc EXCEPT ![r] = "idle"]
    BY <1>3 DEF Up, Leave, Goto
  <2>2. \A a \in Request \ {r} : pc'[a] = pc[a]
    BY <2>1 DEF TypeOK
  <2>3. r \notin met /\ pc'[r] # "idle" =>
            pc'[r] = "list" /\ (job'[r] # "up" => total'[r] = meta')
    BY <2>1 DEF Alone, TypeOK
  <2> QED BY <2>1, <2>2, <2>3, OneServes
<1>4. ASSUME NEW r \in Request, List(r)
      PROVE  (\A a \in Request : Alone(a)') /\ AtRest' /\ WholeIsShared'
  <2>1. /\ pc[r] = "list" /\ UNCHANGED <<meta, here, quota, met, whole>>
        /\ \/ pc' = [pc EXCEPT ![r] = "idle"]
           \/ /\ pc' = [pc EXCEPT ![r] = "update"] /\ UNCHANGED idx
              /\ total' = [total EXCEPT ![r] = IF job[r] = "up" THEN meta ELSE total[r]]
              /\ \E s \in Orders(here) : todo' = [todo EXCEPT ![r] = s]
    BY <1>4 DEF List, Leave, Goto, Listed
  <2>2. \A a \in Request \ {r} : pc'[a] = pc[a]
    BY <2>1 DEF TypeOK
  <2>3. idx[r] = 0
    <3>1. todo[r] = <<>> /\ idx[r] <= Len(todo[r]) /\ idx[r] \in Nat
      BY <2>1 DEF Shares, TypeOK
    <3> QED BY <3>1
  <2>4. ASSUME r \notin met, pc'[r] # "idle"
        PROVE  pc'[r] = "update" /\ total'[r] = meta' /\ todo'[r] \in Orders(here') /\ idx'[r] = 0
    <3>1. /\ pc' = [pc EXCEPT ![r] = "update"] /\ UNCHANGED idx
          /\ total' = [total EXCEPT ![r] = IF job[r] = "up" THEN meta ELSE total[r]]
          /\ \E s \in Orders(here) : todo' = [todo EXCEPT ![r] = s]
      BY <2>1, <2>4 DEF TypeOK
    <3>2. job[r] # "up" => total[r] = meta
      BY <2>1, <2>4 DEF Alone
    <3> QED BY <2>1, <2>3, <3>1, <3>2 DEF TypeOK
  <2>5. ASSUME r \notin met, pc'[r] # "idle", NEW i \in 1..idx'[r]
        PROVE  FALSE
    BY <2>4, <2>5
  <2> QED BY <2>1, <2>2, <2>4, <2>5, OneServes
<1>5. ASSUME NEW r \in Request, Update(r)
      PROVE  (\A a \in Request : Alone(a)') /\ AtRest' /\ WholeIsShared'
  <2> DEFINE n == Len(todo[r])
             i == idx[r] + 1
             part == Part(total[r], n, i)
  <2>1. /\ pc[r] = "update" /\ UNCHANGED <<meta, here, met>>
        /\ total[r] \in Nat /\ n \in Nat \ {0} /\ n <= total[r]
        /\ idx[r] \in Nat /\ i \in 1..n
        /\ quota' = [quota EXCEPT ![todo[r][i]] = part]
    BY <1>5 DEF TypeOK, Shares, Update
  <2>2. \A a \in Request \ {r} : pc'[a] = pc[a]
    BY <1>5 DEF TypeOK, Update, Leave, Goto
  <2>3. ASSUME r \notin met
        PROVE  /\ total[r] = meta /\ todo[r] \in Orders(here) /\ n = Cardinality(here)
               /\ IsFiniteSet(here)
               /\ \A j \in 1..i : quota'[todo[r][j]] = Part(total[r], n, j)
    <3>1. /\ total[r] = meta /\ todo[r] \in Orders(here)
          /\ \A j \in 1..idx[r] : quota[todo[r][j]] = Part(total[r], n, j)
      BY <2>1, <2>3 DEF Alone
    <3>2. IsFiniteSet(here)
      BY ContainerAssumption, FS_Subset DEF TypeOK
    <3>3. /\ Cardinality(here) \in Nat /\ todo[r] \in [1..Cardinality(here) -> here]
          /\ \A j, k \in 1..Cardinality(here) : todo[r][j] = todo[r][k] => j = k
      BY <3>1, <3>2, OrderHasAll
    <3>4. n = Cardinality(here)
      BY <3>3
    <3> HIDE DEF n, part
    <3>5. \A j \in 1..n : todo[r][j] \in Container
      BY <3>3, <3>4 DEF TypeOK
    <3>6. ASSUME NEW j \in 1..i
          PROVE  quota'[todo[r][j]] = Part(total[r], n, j)
      <4>1. j \in 1..n /\ (j = i \/ j \in 1..idx[r])
        BY <2>1
      <4>2. quota'[todo[r][i]] = part
        BY <2>1, <3>5 DEF TypeOK
      <4>3. CASE j = i
        BY <4>2, <4>3 DEF part
      <4>4. CASE j # i
        <5>1. todo[r][j] # todo[r][i]
          BY <2>1, <3>3, <3>4, <4>1, <4>4
        <5>2. quota'[todo[r][j]] = quota[todo[r][j]]
          BY <2>1, <3>5, <4>1, <5>1 DEF TypeOK
        <5> QED BY <3>1, <4>1, <4>4, <5>2
      <4> QED BY <4>3, <4>4
    <3> QED BY <3>1, <3>2, <3>4, <3>6
  <2> HIDE DEF part
  <2>4. CASE i = n
    <3>1. pc'[r] = "idle" /\ whole' = {r} \ met
      BY <1>5, <2>4 DEF Update, Leave, Goto, TypeOK
    <3>2. CASE r \in met
      <4>1. whole' = {} /\ whole = {}
        BY <2>1, <3>1, <3>2 DEF AtRest, Busy
      <4> QED BY <2>1, <2>2, <3>1, <4>1, OneServes
    <3>3. CASE r \notin met
      <4>1. SumOf(quota', here) = total[r] /\ \A c \in here : quota'[c] > 0
        <5>1. \A j \in 1..Cardinality(here) : quota'[todo[r][j]] = Part(total[r], Cardinality(here), j)
          BY <2>3, <2>4, <3>3
        <5>2. todo[r] \in Orders(here) /\ IsFiniteSet(here) /\ n = Cardinality(here)
          BY <2>3, <3>3
        <5>3. PICK S, s, t, f : S = here /\ s = todo[r] /\ t = total[r] /\ f = quota'
          OBVIOUS
        <5>4. Cardinality(S) # 0 /\ Cardinality(S) <= t /\ t \in Nat
          BY <2>1, <5>2, <5>3
        <5>5. /\ s \in Orders(S) /\ IsFiniteSet(S)
              /\ \A j \in 1..Cardinality(S) : f[s[j]] = Part(t, Cardinality(S), j)
          BY <5>1, <5>2, <5>3
        <5>6. SumOf(f, S) = t /\ \A c \in S : f[c] > 0
          BY <5>4, <5>5, PartsAddUp
        <5> QED BY <5>3, <5>6
      <4>2. Sum(here)' = SumOf(quota', here)
        <5>1. here' = here
          BY <2>1
        <5> QED BY <5>1 DEF Sum, SumOf, MapThenSumSet, MapThenFoldSet
      <4>3. WholeIsShared'
        BY <2>1, <2>3, <3>3, <4>1, <4>2 DEF WholeIsShared
      <4> QED BY <2>1, <2>2, <3>1, <3>3, <4>3, OneServes
    <3> QED BY <3>2, <3>3
  <2>5. CASE i # n
    <3>1. UNCHANGED <<pc, job, total, todo, whole>> /\ idx' = [idx EXCEPT ![r] = i]
      BY <1>5, <2>5 DEF Update
    <3>2. idx'[r] = i
      BY <3>1 DEF TypeOK
    <3> QED BY <2>1, <2>2, <2>3, <3>1, <3>2, OneServes
  <2> QED BY <2>4, <2>5
<1>6. ASSUME NEW r \in Request, UpdateFails(r)
      PROVE  (\A a \in Request : Alone(a)') /\ AtRest' /\ WholeIsShared'
  <2>1. pc[r] = "update" /\ pc' = [pc EXCEPT ![r] = "idle"] /\ UNCHANGED <<met, whole>>
    BY <1>6 DEF UpdateFails, Leave, Goto
  <2>2. pc'[r] = "idle" /\ \A a \in Request \ {r} : pc'[a] = pc[a]
    BY <2>1 DEF TypeOK
  <2> QED BY <2>1, <2>2, OneServes
<1>7. CASE Down
  <2>1. pc' = pc /\ whole' = {} /\ met' = met \cup Busy
    BY <1>7 DEF Down, local
  <2> QED BY <2>1 DEF Alone, AtRest, WholeIsShared, Busy
<1>8. CASE UNCHANGED vars
  <2>1. /\ UNCHANGED <<meta, here, quota, pc, job, total, todo, idx, met, whole>>
        /\ Busy' = Busy
    BY <1>8 DEF vars, local, Busy
  <2>2. \A a \in Request : Alone(a)'
    BY <2>1 DEF Alone
  <2>3. AtRest' /\ WholeIsShared'
    BY <2>1 DEF AtRest, WholeIsShared, Sum, MapThenSumSet, MapThenFoldSet
  <2> QED BY <2>2, <2>3
<1> QED BY <1>1, <1>2, <1>3, <1>4, <1>5, <1>6, <1>7, <1>8 DEF Next, Serve

(* After a deployment or an up that met no other, whatever failed before,  *)
(* no container is without limit, and together they have exactly the       *)
(* limit written for the project, for any number of containers and any     *)
(* limit (docker_interface.py:362).                                        *)
THEOREM WholeShared == Spec => []WholeIsShared
<1>1. WInv => WholeIsShared
  BY DEF WInv
<1> QED BY InitWInv, NextWInv, <1>1, PTL DEF Spec
\* The instance has operators of its own for the library's.
LEMMA Same ==
    /\ \A f : P!Range(f) = Range(f)
    /\ \A S : P!Cardinality(S) = Cardinality(S)
<1>1. \A f : P!Range(f) = Range(f)
  BY DEF P!Range, Range
<1>2. \A S : P!Cardinality(S) = Cardinality(S)
  BY DEF P!Cardinality, Cardinality
<1> QED BY <1>1, <1>2

\* A set of numbers has a least.
LEMMA Least ==
    ASSUME NEW M \in SUBSET Nat, M # {}
    PROVE  \E k \in M : \A j \in M : k <= j
<1>1. PICK m \in M : TRUE
  OBVIOUS
<1>2. PICK S : S = 0..m
  OBVIOUS
<1> DEFINE D == {0..k : k \in {k \in M : k <= m}}
<1>3. D \in SUBSET SUBSET S /\ D # {}
  BY <1>2
<1>4. IsFiniteSet(S)
  BY <1>2, FS_Interval
<1> HIDE DEF D
<1>5. PICK s \in D : \A t \in D : t \subseteq s => t = s
  BY <1>3, <1>4, Smallest
<1>6. PICK k \in M : s = 0..k /\ k <= m
  BY DEF D
<1>7. ASSUME NEW j \in M, j < k PROVE FALSE
  <2>1. 0..j \in D
    BY <1>6, <1>7 DEF D
  <2>2. 0..j \subseteq 0..k /\ k \in 0..k /\ k \notin 0..j
    BY <1>7
  <2> QED BY <1>5, <1>6, <2>1, <2>2
<1> QED BY <1>7

\* What Ports assumes of its constants.
Assumed == P!NameAssumption /\ P!PortAssumption /\ P!BoundAssumption

\* The next port, if one is free, is free.
LEMMA PlaceIsFree ==
    ASSUME NEW p \in Nat, NEW used, MaxPort \in Nat, P!Free(p, used) # {}
    PROVE  P!Place(p, used) \in p..MaxPort /\ P!Place(p, used) \notin used
<1>1. P!Free(p, used) \subseteq p..MaxPort /\ P!Free(p, used) \subseteq Nat
  BY DEF P!Free
<1>2. PICK q \in P!Free(p, used) : \A o \in P!Free(p, used) : q <= o
  BY <1>1, Least
<1>3. P!Place(p, used) \in P!Free(p, used)
  BY <1>2 DEF P!Place
<1> QED BY <1>3 DEF P!Free

\* One more port, unless one was missing or is now.
Grown(want, used, i, before) ==
    LET taken == used \cup Range(before)
    IN  IF Len(before) < i - 1 \/ P!Free(want[i], taken) = {} THEN before
        ELSE Append(before, P!Place(want[i], taken))

\* The function that Placed computes, written out.
Placing(want, used, n, g) ==
    g = [i \in 0..n |-> IF i = 0 THEN <<>> ELSE Grown(want, used, i, g[i - 1])]

\* The ports of a list can be gone through.
LEMMA PlacingExists ==
    ASSUME NEW want, NEW used, NEW n \in Nat
    PROVE  \E g : Placing(want, used, n, g)
<1> DEFINE M == {k \in 0..n : ~\E g : Placing(want, used, k, g)}
<1> SUFFICES ASSUME ~\E g : Placing(want, used, n, g) PROVE FALSE
  OBVIOUS
<1>1. M \in SUBSET Nat /\ M # {}
  OBVIOUS
<1>2. PICK k \in M : \A j \in M : k <= j
  <2> HIDE DEF M
  <2> QED BY <1>1, Least
<1>3. k \in 0..n /\ ~\E g : Placing(want, used, k, g)
  OBVIOUS
<1>4. CASE k = 0
  <2>1. Placing(want, used, 0, [i \in 0..0 |-> <<>>])
    BY DEF Placing
  <2> QED BY <1>3, <1>4, <2>1
<1>5. CASE k # 0
  <2> DEFINE j == k - 1
  <2>1. j \in 0..n /\ 0..k = (0..j) \cup {k} /\ k \notin 0..j /\ k - 1 = j
    BY <1>5
  <2>2. PICK g : Placing(want, used, j, g)
    <3>1. j \notin M
      BY <1>2, <1>3, <2>1
    <3> QED BY <2>1, <3>1
  <2> HIDE DEF j
  <2> DEFINE h == [i \in 0..k |-> IF i = k THEN Grown(want, used, k, g[j]) ELSE g[i]]
  <2>3. ASSUME NEW i \in 0..k
        PROVE  h[i] = IF i = 0 THEN <<>> ELSE Grown(want, used, i, h[i - 1])
    <3>1. CASE i = k
      <4>1. h[j] = g[j]
        BY <2>1
      <4> QED BY <1>5, <2>1, <3>1, <4>1
    <3>2. CASE i # k
      <4>1. i \in 0..j /\ (i # 0 => i - 1 \in 0..j)
        BY <2>1, <3>2
      <4>2. h[i] = g[i] /\ (i # 0 => h[i - 1] = g[i - 1])
        BY <2>1, <4>1
      <4>3. g[i] = IF i = 0 THEN <<>> ELSE Grown(want, used, i, g[i - 1])
        BY <2>2, <4>1 DEF Placing
      <4> QED BY <4>2, <4>3
    <3> QED BY <3>1, <3>2
  <2>4. h = [i \in 0..k |-> h[i]]
    OBVIOUS
  <2> HIDE DEF h
  <2>5. Placing(want, used, k, h)
    BY <2>3, <2>4 DEF Placing
  <2> QED BY <1>3, <2>5
<1> QED BY <1>4, <1>5

\* Ports in a list that are free and differ from each other.
Fresh(p, used) ==
    /\ p \in Seq(P!Port)
    /\ \A i \in 1..Len(p) : p[i] \notin used
    /\ \A i, j \in 1..Len(p) : p[i] = p[j] => i = j

\* One more port keeps them so.
LEMMA GrownIsFresh ==
    ASSUME P!PortAssumption, NEW want \in Seq(P!Port), NEW used, NEW i \in 1..Len(want),
           NEW p, Fresh(p, used)
    PROVE  Fresh(Grown(want, used, i, p), used)
<1> DEFINE taken == used \cup Range(p)
           q == P!Place(want[i], taken)
<1>1. CASE Len(p) < i - 1 \/ P!Free(want[i], taken) = {}
  BY <1>1 DEF Grown
<1>2. CASE ~(Len(p) < i - 1 \/ P!Free(want[i], taken) = {})
  <2>1. want[i] \in P!Port /\ want[i] \in Nat /\ MaxPort \in Nat
    BY DEF P!Port, P!PortAssumption
  <2>2. q \in want[i]..MaxPort /\ q \notin taken
    BY <1>2, <2>1, PlaceIsFree
  <2>3. q \in P!Port
    BY <2>1, <2>2 DEF P!Port
  <2>4. Grown(want, used, i, p) = Append(p, q)
    BY <1>2 DEF Grown
  <2>5. p \in Seq(P!Port) /\ \A k \in 1..Len(p) : p[k] # q
    <3>1. p \in Seq(P!Port) /\ \A k \in 1..Len(p) : p[k] \in Range(p)
      BY DEF Fresh, Range
    <3> HIDE DEF q
    <3> QED BY <2>2, <3>1
  <2> HIDE DEF q, taken
  <2>6. /\ Append(p, q) \in Seq(P!Port) /\ Len(Append(p, q)) = Len(p) + 1
        /\ \A k \in 1..Len(p) : Append(p, q)[k] = p[k]
        /\ Append(p, q)[Len(p) + 1] = q
    BY <2>3, <2>5
  <2>7. Len(p) \in Nat /\ \A k \in 1..(Len(p) + 1) : k \in 1..Len(p) \/ k = Len(p) + 1
    BY <2>5
  <2>8. q \notin used
    BY <2>2 DEF taken
  <2>9. Fresh(Append(p, q), used)
    <3>1. \A k \in 1..(Len(p) + 1) : Append(p, q)[k] \notin used
      BY <2>6, <2>7, <2>8 DEF Fresh
    <3>2. \A k, l \in 1..(Len(p) + 1) : Append(p, q)[k] = Append(p, q)[l] => k = l
      BY <2>5, <2>6, <2>7 DEF Fresh
    <3> QED BY <2>6, <3>1, <3>2 DEF Fresh
  <2> QED BY <2>4, <2>9
<1> QED BY <1>1, <1>2

\* The ports of a list are free, and none is given twice.
LEMMA PlacedIsFresh ==
    ASSUME P!PortAssumption, NEW want \in Seq(P!Port), NEW used
    PROVE  Fresh(P!Placed(want, used), used)
<1> DEFINE n == Len(want)
           g == CHOOSE g : Placing(want, used, n, g)
           M == {k \in 0..n : ~Fresh(g[k], used)}
<1>0. n \in Nat
  OBVIOUS
<1>1. Placing(want, used, n, g)
  BY <1>0, PlacingExists
<1>2. P!Placed(want, used) = g[n]
  BY Same DEF P!Placed, Placing, Grown
<1> HIDE DEF g, n
<1>3. \A i \in 0..n : g[i] = IF i = 0 THEN <<>> ELSE Grown(want, used, i, g[i - 1])
  BY <1>1 DEF Placing
<1>4. M = {}
  <2> SUFFICES ASSUME M # {} PROVE FALSE
    OBVIOUS
  <2>1. PICK k \in M : \A j \in M : k <= j
    <3>1. M \in SUBSET Nat
      BY <1>0
    <3> HIDE DEF M
    <3> QED BY <3>1, Least
  <2>2. k \in 0..n /\ ~Fresh(g[k], used)
    OBVIOUS
  <2>3. CASE k = 0
    <3>1. Fresh(<<>>, used)
      BY DEF Fresh
    <3> QED BY <1>0, <1>3, <2>2, <2>3, <3>1
  <2>4. CASE k # 0
    <3> DEFINE j == k - 1
    <3>1. j \in 0..n /\ ~(k <= j) /\ k - 1 = j /\ k \in 1..n
      BY <1>0, <2>2, <2>4
    <3>2. j \notin M
      BY <2>1, <3>1
    <3> HIDE DEF j
    <3>3. Fresh(g[j], used)
      BY <3>1, <3>2
    <3>4. Fresh(Grown(want, used, k, g[j]), used)
      BY <3>1, <3>3, GrownIsFresh DEF n
    <3> QED BY <1>3, <2>2, <2>4, <3>1, <3>4
  <2> QED BY <2>3, <2>4
<1>5. n \in 0..n /\ n \notin M
  BY <1>0, <1>4
<1> QED BY <1>2, <1>5

\* A list without the same port twice has as many ports as it is long.
LEMMA FreshHasNoTwice ==
    ASSUME NEW p, NEW used, Fresh(p, used)
    PROVE  Cardinality(Range(p)) = Len(p)
<1>1. Len(p) \in Nat /\ p \in [1..Len(p) -> Range(p)] /\ DOMAIN p = 1..Len(p)
  BY DEF Fresh, Range
<1>2. p \in Injection(1..Len(p), Range(p)) /\ p \in Surjection(1..Len(p), Range(p))
  BY <1>1 DEF Fresh, Injection, IsInjective, Surjection, Range
<1>3. Cardinality(1..Len(p)) = Len(p) /\ IsFiniteSet(1..Len(p))
  BY <1>1, FS_Interval
<1> QED BY <1>2, <1>3, FS_Surjection
-----------------------------------------------------------------------------
(* Ports: types.                                                           *)

\* The three kinds of container are distinct.
LEMMA Kinds ==
    ASSUME Assumed
    PROVE  /\ Project \notin Name /\ Proxy \notin Name /\ Project # Proxy
           /\ Project \in P!Box /\ Proxy \in P!Box /\ Name \subseteq P!Box
           /\ \A b \in P!Box : b \in Name \/ b = Project \/ b = Proxy
           /\ PortLists \subseteq Seq(P!Port) /\ <<>> \in Seq(P!Port) /\ Range(<<>>) = {}
  BY DEF Assumed, P!NameAssumption, P!PortAssumption, P!Box, P!Port, Range

\* Where a request stands, by what it does.
Staged(p, j, t) ==
    \/ j = P!NoJob /\ p = "idle" /\ t = 0
    \/ j \in P!Create /\ p \in {"read", "create", "start"}
    \/ j \in P!Deploy /\ p = "up" /\ t \in {0, 1}
    \/ j \in P!Deploy /\ p = "remap" /\ t = 0
    \/ j \in P!Ensure /\ p \in {"remove", "create", "start"} /\ t = 0
    \/ j \in P!Ensure /\ j.op = "host" /\ p = "read" /\ t = 0

Stage(r) == Staged(p_pc[r], p_job[r], tries[r])

\* The types of containers and of threads.
Boxes ==
    /\ box \in [P!Box -> P!BoxType] /\ ran \subseteq P!Box /\ raced \subseteq P!Box
    /\ \A b \in P!Box : ~box[b].here => box[b] = P!NoBox
    /\ \A b \in ran \cup raced : box[b].here
    /\ \A b \in P!Box : box[b].here /\ b # Proxy => box[b].listed

Threads ==
    /\ p_pc \in [Request -> {"idle", "read", "create", "start", "up", "remap", "remove"}]
    /\ p_job \in [Request -> P!Create \cup P!Deploy \cup P!Ensure \cup {P!NoJob}]
    /\ got \in [Request -> Seq(P!Port)] /\ tries \in [Request -> 0..Tries]
    /\ \A r \in Request : Stage(r)

TypeInv ==
    /\ Boxes /\ Threads /\ file \in Seq(P!Port) /\ p_jobs \in 0..MaxJobs
    /\ p_met \subseteq Request /\ lost \subseteq Request

\* What the jobs are.
LEMMA Jobs ==
    /\ \A j \in P!Create : j.op = "create" /\ j.name \in Name /\ j.want \in PortLists
    /\ \A j \in P!Deploy : j.op = "deploy" /\ j.name = Project /\ j.want \in PortLists
    /\ \A j \in P!Ensure : j.op \in {"host", "bridge"} /\ j.name = Proxy /\ j.want \in PortLists
    /\ P!NoJob.op = "none"
  BY DEF P!Create, P!Deploy, P!Ensure, P!NoJob

\* What containers are.
LEMMA NoBoxIs ==
    /\ P!NoBox.ports = {} /\ ~P!NoBox.listed /\ ~P!NoBox.up /\ ~P!NoBox.here /\ P!NoBox \in P!BoxType
    /\ \A ports \in SUBSET P!Port, listed \in BOOLEAN, up \in BOOLEAN :
        /\ P!Made(ports, listed, up) \in P!BoxType
        /\ P!Made(ports, listed, up).ports = ports /\ P!Made(ports, listed, up).listed = listed
        /\ P!Made(ports, listed, up).up = up /\ P!Made(ports, listed, up).here = TRUE
  BY DEF P!NoBox, P!BoxType, P!Made

\* These types are those the runs check, and hold at first.
LEMMA TypeInvIsType == Assumed /\ TypeInv => P!TypeOK
<1> SUFFICES ASSUME Assumed, TypeInv PROVE P!TypeOK
  OBVIOUS
<1>1. \A r \in Request : p_pc[r] = "idle" <=> p_job[r] = P!NoJob
  <2> SUFFICES ASSUME NEW r \in Request PROVE p_pc[r] = "idle" <=> p_job[r] = P!NoJob
    OBVIOUS
  <2>1. Stage(r)
    BY DEF TypeInv, Threads
  <2> QED BY <2>1, Jobs DEF Stage, Staged
<1> QED BY <1>1 DEF TypeInv, P!TypeOK, Boxes, Threads

LEMMA InitTypeInv == Assumed /\ P!Init => TypeInv
<1> SUFFICES ASSUME Assumed, P!Init PROVE TypeInv
  OBVIOUS
<1>1. Boxes
  BY NoBoxIs DEF P!Init, Boxes
<1>2. 0 \in 0..Tries /\ 0 \in 0..MaxJobs
  BY DEF Assumed, P!BoundAssumption
<1>3. Threads
  BY <1>2, Kinds DEF P!Init, Threads, Stage, Staged
<1> QED BY <1>1, <1>2, <1>3, Kinds DEF P!Init, TypeInv

\* A thread moves on, and the others stay where they are.
Goes(r, p, j, g, t) ==
    /\ p_pc' = [p_pc EXCEPT ![r] = p] /\ p_job' = [p_job EXCEPT ![r] = j]
    /\ got' = [got EXCEPT ![r] = g] /\ tries' = [tries EXCEPT ![r] = t]

\* The others stay where they are; one stands at p, at work on j.
Others(r) ==
    \A a \in Request \ {r} :
        p_pc'[a] = p_pc[a] /\ p_job'[a] = p_job[a] /\ got'[a] = got[a] /\ tries'[a] = tries[a]

Now(r, p, j, g, t) == p_pc'[r] = p /\ p_job'[r] = j /\ got'[r] = g /\ tries'[r] = t

\* Types of threads survive one that moves on.
LEMMA OneThread ==
    ASSUME Threads, NEW r \in Request, NEW p, NEW j, NEW g, NEW t,
           Goes(r, p, j, g, t), Staged(p, j, t), g \in Seq(P!Port), t \in 0..Tries
    PROVE  Threads' /\ Now(r, p, j, g, t) /\ Others(r)
<1>1. Now(r, p, j, g, t) /\ Others(r)
  BY DEF Threads, Goes, Now, Others
<1>2. ASSUME NEW a \in Request PROVE Stage(a)'
  <2>1. CASE a = r
    BY <1>1, <2>1 DEF Stage, Now
  <2>2. CASE a # r
    BY <1>1, <2>2 DEF Threads, Stage, Others
  <2> QED BY <2>1, <2>2
<1>3. /\ p \in {"idle", "read", "create", "start", "up", "remap", "remove"}
      /\ j \in P!Create \cup P!Deploy \cup P!Ensure \cup {P!NoJob}
  BY DEF Staged
<1>4. /\ p_pc' \in [Request -> {"idle", "read", "create", "start", "up", "remap", "remove"}]
      /\ p_job' \in [Request -> P!Create \cup P!Deploy \cup P!Ensure \cup {P!NoJob}]
      /\ got' \in [Request -> Seq(P!Port)] /\ tries' \in [Request -> 0..Tries]
  BY <1>3 DEF Threads, Goes
<1> QED BY <1>1, <1>2, <1>4 DEF Threads

\* What a thread has, and that leaving it as it is changes nothing.
LEMMA SameThread ==
    ASSUME Threads, NEW r \in Request
    PROVE  /\ got[r] \in Seq(P!Port) /\ tries[r] \in 0..Tries /\ Stage(r)
           /\ p_pc = [p_pc EXCEPT ![r] = p_pc[r]] /\ p_job = [p_job EXCEPT ![r] = p_job[r]]
           /\ got = [got EXCEPT ![r] = got[r]] /\ tries = [tries EXCEPT ![r] = tries[r]]
  BY DEF Threads

\* A request that ends.
LEMMA LeaveThread ==
    ASSUME Assumed, Threads, NEW r \in Request, P!Leave(r)
    PROVE  Threads' /\ Now(r, "idle", P!NoJob, <<>>, 0) /\ Others(r)
<1>1. 0 \in 0..Tries /\ <<>> \in Seq(P!Port)
  BY Kinds DEF Assumed, P!BoundAssumption
<1>2. Goes(r, "idle", P!NoJob, <<>>, 0)
  BY DEF P!Leave, Goes
<1>3. Staged("idle", P!NoJob, 0)
  BY DEF Staged
<1> QED BY <1>1, <1>2, <1>3, OneThread

\* One container that changes.
LEMMA OneBox ==
    ASSUME Boxes, NEW b \in P!Box, NEW new \in P!BoxType,
           box' = [box EXCEPT ![b] = new],
           new = P!NoBox \/ (new.here /\ (b # Proxy => new.listed)),
           ran' \subseteq P!Box, raced' \subseteq P!Box,
           \A c \in ran' \cup raced' : IF c = b THEN new.here ELSE c \in ran \cup raced
    PROVE  Boxes' /\ box'[b] = new /\ \A c \in P!Box \ {b} : box'[c] = box[c]
<1>1. box'[b] = new /\ \A c \in P!Box \ {b} : box'[c] = box[c]
  BY DEF Boxes
<1>2. box' \in [P!Box -> P!BoxType]
  BY DEF Boxes
<1>3. \A c \in P!Box : ~box'[c].here => box'[c] = P!NoBox
  BY <1>1 DEF Boxes
<1>4. \A c \in P!Box : box'[c].here /\ c # Proxy => box'[c].listed
  BY <1>1, NoBoxIs DEF Boxes
<1>5. \A c \in ran' \cup raced' : box'[c].here
  BY <1>1 DEF Boxes
<1> QED BY <1>1, <1>2, <1>3, <1>4, <1>5 DEF Boxes
-----------------------------------------------------------------------------
(* Ports: the invariant. Its parts are proved together: that a request     *)
(* alone goes for free ports rests on what its predecessors left behind.   *)

\* Requests at work together have met.
Crossed == \A q, r \in P!Busy : q # r => q \in p_met

\* What a request that met others has made is known to be made so.
Marked ==
    \A r \in p_met : \A b \in P!Box :
        p_pc[r] = "start" /\ p_job[r].name = b /\ box[b].here => b \in raced

\* A proxy of the host's network that does not run is being started.
Owned ==
    box[Proxy].here /\ ~box[Proxy].listed /\ ~box[Proxy].up
        => \E r \in Request : p_pc[r] = "start" /\ p_job[r].op = "host"

\* Ports that no container has which Docker lists, but for the one itself.
Clear(b, ports) == \A c \in P!Box \ {b} : box[c].listed => ports \cap box[c].ports = {}

\* A request that met no other goes for ports that are free.
Lone(r) ==
    /\ p_job[r].op = "create" => tries[r] = 0
    /\ p_pc[r] = "create" /\ p_job[r].op \in {"create", "host"}
           => \A g \in Seq(P!Port) : g = got[r] => Range(g) \cap P!Used = {}
    /\ p_pc[r] = "start" /\ p_job[r].op = "create"
           => \A b \in Name, ports \in SUBSET P!Port :
                  p_job[r].name = b /\ box[b].here /\ ports = box[b].ports => Clear(b, ports)
    /\ p_pc[r] = "remap" => box[Project].listed /\ box[Project].ports = Range(file) /\ file # <<>>
    /\ p_pc[r] = "up" /\ tries[r] = 1 => ~P!Twice /\ Clear(Project, Range(file))

Lones == \A r \in P!Busy \ p_met : Lone(r)

\* Ports a request goes for, and those of containers made by who met nobody.
Away ==
    \A r \in Request : p_pc[r] = "create" /\ p_job[r].op \in {"create", "host"} =>
        \A b \in Name \ raced, g \in Seq(P!Port) : g = got[r] => Range(g) \cap box[b].ports = {}

\* Containers that have not run keep apart too.
Apart ==
    /\ \A b, c \in Name : b # c =>
           {b, c} \subseteq raced \/ box[b].ports \cap box[c].ports = {}
    /\ \A b \in Name : ~box[Proxy].listed =>
           \/ {b, Proxy} \subseteq raced
           \/ box[b].ports \cap box[Proxy].ports = {}
           \/ box[Proxy].up /\ b \notin ran

\* The inductive invariant.
PortInv == TypeInv /\ Crossed /\ Marked /\ Owned /\ Lones /\ Away /\ Apart /\ lost \subseteq p_met

LEMMA InitPortInv == Assumed /\ P!Init => PortInv
<1> SUFFICES ASSUME Assumed, P!Init PROVE PortInv
  OBVIOUS
<1>1. TypeInv
  BY InitTypeInv
<1>2. P!Busy = {} /\ p_met = {} /\ lost = {} /\ \A r \in Request : p_pc[r] = "idle"
  BY DEF P!Init, P!Busy
<1>3. \A b \in P!Box : box[b] = P!NoBox
  BY DEF P!Init
<1>4. Crossed /\ Marked /\ Lones /\ Away
  BY <1>2 DEF Crossed, Marked, Lones, Away
<1>5. Owned /\ Apart
  BY <1>3, NoBoxIs, Kinds DEF Owned, Apart
<1> QED BY <1>1, <1>2, <1>4, <1>5 DEF PortInv

\* What the invariant says shows what the runs check.
LEMMA PortInvShows == Assumed /\ PortInv => P!PortsApart /\ P!LoneSucceeds
<1> SUFFICES ASSUME Assumed, PortInv PROVE P!PortsApart /\ P!LoneSucceeds
  OBVIOUS
<1>1. ran \subseteq P!Box
  BY DEF PortInv, TypeInv, Boxes
<1>2. ASSUME NEW b \in ran \ {Project}, NEW c \in ran \ {Project}
      PROVE  \/ b = c \/ {b, c} \subseteq raced
             \/ \E d \in {b, c} : d = Proxy /\ box[d].listed
             \/ box[b].ports \cap box[c].ports = {}
  <2>1. b \in Name \cup {Proxy} /\ c \in Name \cup {Proxy}
    BY <1>1, Kinds
  <2>2. CASE b \in Name /\ c \in Name
    BY <2>2 DEF PortInv, Apart
  <2>3. CASE b \in Name /\ c = Proxy
    BY <2>3 DEF PortInv, Apart
  <2>4. CASE b = Proxy /\ c \in Name
    BY <2>4 DEF PortInv, Apart
  <2> QED BY <2>1, <2>2, <2>3, <2>4
<1> QED BY <1>2 DEF PortInv, P!PortsApart, P!LoneSucceeds

\* A request that met no other is alone.
LEMMA Solitude ==
    ASSUME Crossed, NEW r \in P!Busy, NEW q \in P!Busy, q \notin p_met \/ r \notin p_met
    PROVE  q = r
  BY DEF Crossed

\* Requests that go on are no more than were at work.
LEMMA Served ==
    ASSUME Crossed, Lones, NEW r \in P!Busy, Others(r), p_met' = p_met,
           r \in P!Busy' /\ r \notin p_met => Lone(r)'
    PROVE  P!Busy' \subseteq P!Busy /\ Crossed' /\ Lones'
<1>1. P!Busy' \subseteq P!Busy
  BY DEF P!Busy, Others
<1>2. Crossed'
  BY <1>1 DEF Crossed
<1>3. ASSUME NEW a \in P!Busy', a \notin p_met' PROVE Lone(a)'
  <2>1. a = r
    BY <1>1, <1>3, Solitude
  <2> QED BY <1>3, <2>1
<1> QED BY <1>1, <1>2, <1>3 DEF Lones

\* A request that goes on, or ends, and changes no container.
LEMMA Quiet ==
    ASSUME Assumed, PortInv, NEW r \in P!Busy, Threads', Others(r),
           UNCHANGED <<box, p_jobs, p_met, raced, ran>>, file' \in Seq(P!Port), lost' \subseteq p_met,
           p_pc'[r] # "start", p_pc[r] = "start" /\ p_job[r].op = "host" => ~box[Proxy].here,
           p_pc'[r] = "create" => Range(got'[r]) \cap P!Used = {},
           r \in P!Busy' /\ r \notin p_met => Lone(r)'
    PROVE  PortInv'
<1>1. Crossed' /\ Lones'
  BY Served DEF PortInv
<1>2. TypeInv'
  BY DEF PortInv, TypeInv, Boxes
<1>3. \A a \in Request \ {r} : p_pc'[a] = p_pc[a] /\ p_job'[a] = p_job[a] /\ got'[a] = got[a]
  BY DEF Others
<1>4. Marked'
  BY <1>3 DEF PortInv, Marked, TypeInv
<1>5. Owned'
  BY <1>3 DEF PortInv, Owned
<1>6. Away'
  <2> SUFFICES ASSUME NEW a \in Request, p_pc'[a] = "create", p_job'[a].op \in {"create", "host"},
                      NEW b \in Name \ raced, NEW g \in Seq(P!Port), g = got'[a]
               PROVE  Range(g) \cap box[b].ports = {}
    BY DEF Away
  <2>1. CASE a # r
    BY <1>3, <2>1 DEF PortInv, Away
  <2>2. CASE a = r
    <3>1. Range(g) \cap P!Used = {}
      BY <2>2
    <3>2. b \in P!Box /\ b # Proxy
      BY Kinds
    <3>3. box[b].listed \/ box[b].ports = {}
      BY <3>2, NoBoxIs DEF PortInv, TypeInv, Boxes
    <3> QED BY <3>1, <3>2, <3>3 DEF P!Used
  <2> QED BY <2>1, <2>2
<1>7. Apart'
  BY DEF PortInv, Apart
<1> QED BY <1>1, <1>2, <1>4, <1>5, <1>6, <1>7 DEF PortInv

\* Ports that are free are none that Docker lists.
LEMMA FreeIsClear ==
    ASSUME NEW b \in P!Box, NEW ports, ports \cap P!Used = {}
    PROVE  Clear(b, ports)
  BY DEF P!Used, Clear

\* What a thread at work has.
LEMMA AtWork ==
    ASSUME PortInv, NEW r \in Request
    PROVE  /\ Threads /\ Boxes /\ Stage(r) /\ (p_pc[r] # "idle" => r \in P!Busy)
           /\ got[r] \in Seq(P!Port) /\ tries[r] \in 0..Tries
           /\ p_job[r] \in P!Create \cup P!Deploy \cup P!Ensure \cup {P!NoJob}
           /\ p_pc = [p_pc EXCEPT ![r] = p_pc[r]] /\ p_job = [p_job EXCEPT ![r] = p_job[r]]
           /\ got = [got EXCEPT ![r] = got[r]] /\ tries = [tries EXCEPT ![r] = tries[r]]
  BY SameThread DEF PortInv, TypeInv, P!Busy, Threads

\* A request that ends and changes nothing else.
LEMMA LeaveKeeps ==
    ASSUME Assumed, PortInv, NEW r \in P!Busy, P!Leave(r),
           UNCHANGED <<box, file, p_jobs, p_met, raced, ran>>, lost' \subseteq p_met,
           p_pc[r] = "start" /\ p_job[r].op = "host" => ~box[Proxy].here
    PROVE  PortInv'
<1>1. Threads' /\ Now(r, "idle", P!NoJob, <<>>, 0) /\ Others(r)
  BY LeaveThread DEF PortInv, TypeInv, P!Busy
<1>2. p_pc'[r] = "idle" /\ r \notin P!Busy' /\ file' \in Seq(P!Port)
  BY <1>1 DEF Now, P!Busy, PortInv, TypeInv
<1> QED BY <1>1, <1>2, Quiet

\* Every step keeps the invariant: those of requests first.
LEMMA ReadKeeps == ASSUME Assumed, PortInv, NEW r \in Request, P!Read(r) PROVE PortInv'
<1>1. r \in P!Busy /\ p_pc[r] = "read"
  BY DEF P!Read, P!Busy
<1>2. CASE ~P!Fits(got[r], P!Used)
  <2>1. P!Leave(r) /\ UNCHANGED <<box, file, p_jobs, p_met, raced, ran>> /\ lost' \subseteq p_met
    BY <1>2 DEF P!Read, P!history, PortInv
  <2> QED BY <1>1, <2>1, LeaveKeeps
<1>3. CASE P!Fits(got[r], P!Used)
  <2>1. PICK g : g = P!Placed(got[r], P!Used)
    OBVIOUS
  <2>2. g \in Seq(P!Port) /\ Range(g) \cap P!Used = {}
    <3>1. Fresh(g, P!Used)
      BY <2>1, AtWork, PlacedIsFresh DEF Assumed
    <3> QED BY <3>1 DEF Fresh, Range
  <2>3. /\ got' = [got EXCEPT ![r] = g] /\ p_pc' = [p_pc EXCEPT ![r] = "create"]
        /\ UNCHANGED <<p_job, tries, box, file, p_jobs, p_met, raced, ran, lost>>
    BY <1>3, <2>1 DEF P!Read, P!Goto, P!history
  <2>4. PICK j, t : j = p_job[r] /\ t = tries[r]
    OBVIOUS
  <2>5. Goes(r, "create", j, g, t)
    BY <2>3, <2>4, AtWork DEF Goes
  <2>6. Staged("create", j, t) /\ t \in 0..Tries
    BY <1>1, <2>4, AtWork DEF Stage, Staged
  <2>7. Threads' /\ Now(r, "create", j, g, t) /\ Others(r)
    BY <2>2, <2>5, <2>6, AtWork, OneThread
  <2>8. r \notin p_met => Lone(r)'
    <3> SUFFICES ASSUME r \notin p_met PROVE Lone(r)'
      OBVIOUS
    <3>1. Lone(r)
      BY <1>1 DEF PortInv, Lones
    <3>2. P!Used' = P!Used
      BY <2>3 DEF P!Used
    <3> QED BY <2>2, <2>3, <2>4, <2>7, <3>1, <3>2 DEF Lone, Now
  <2>9. p_pc'[r] = "create" /\ got'[r] = g /\ file' \in Seq(P!Port) /\ lost' \subseteq p_met
    BY <2>3, <2>7 DEF Now, PortInv, TypeInv
  <2> QED BY <1>1, <2>2, <2>3, <2>7, <2>8, <2>9, Quiet
<1> QED BY <1>2, <1>3

LEMMA StartFailsKeeps == ASSUME Assumed, PortInv, NEW r \in Request, P!StartFails(r) PROVE PortInv'
<1>1. /\ r \in P!Busy /\ P!Leave(r) /\ ~box[p_job[r].name].here
      /\ UNCHANGED <<box, file, p_jobs, p_met, raced, ran>> /\ lost' \subseteq p_met
  BY DEF P!StartFails, P!Busy, P!history, PortInv
<1>2. p_job[r].op = "host" => p_job[r].name = Proxy
  BY AtWork, Jobs
<1> QED BY <1>1, <1>2, LeaveKeeps

LEMMA RemapKeeps == ASSUME Assumed, PortInv, NEW r \in Request, P!Remap(r) PROVE PortInv'
<1>1. /\ r \in P!Busy /\ p_pc[r] = "remap" /\ file \in Seq(P!Port)
      /\ UNCHANGED <<box, p_jobs, p_met, raced, ran>>
  BY DEF P!Remap, P!Busy, PortInv, TypeInv
<1>2. p_job[r] \in P!Deploy /\ tries[r] = 0 /\ p_job[r].op = "deploy"
  BY <1>1, AtWork, Jobs DEF Stage, Staged
<1>3. CASE ~P!Fits(file, P!Used)
  <2>1. P!Leave(r) /\ UNCHANGED file /\ lost' \subseteq p_met
    BY <1>3 DEF P!Remap, PortInv
  <2> QED BY <1>1, <2>1, LeaveKeeps
<1>4. CASE P!Fits(file, P!Used)
  <2>1. PICK f : f = P!Placed(file, P!Used)
    OBVIOUS
  <2>2. Fresh(f, P!Used)
    BY <1>1, <2>1, PlacedIsFresh DEF Assumed
  <2>3. f \in Seq(P!Port) /\ Range(f) \cap P!Used = {} /\ Cardinality(Range(f)) = Len(f)
    <3>1. Cardinality(Range(f)) = Len(f)
      BY <2>2, FreshHasNoTwice
    <3> QED BY <2>2, <3>1 DEF Fresh, Range
  <2>4. file' = f
    BY <1>4, <2>1 DEF P!Remap
  <2>5. r \notin p_met => Lone(r)
    BY <1>1 DEF PortInv, Lones
  <2>6. CASE f = file
    <3>1. P!Lose(r)
      BY <1>4, <2>4, <2>6 DEF P!Remap
    <3>2. r \in p_met
      <4> SUFFICES ASSUME r \notin p_met PROVE FALSE
        OBVIOUS
      <4>1. box[Project].listed /\ box[Project].ports = Range(file) /\ file # <<>>
        BY <1>1, <2>5 DEF Lone
      <4>2. Range(file) \subseteq P!Used
        BY <4>1, Kinds DEF P!Used
      <4>3. Range(file) # {}
        BY <1>1, <4>1 DEF Range
      <4> QED BY <2>3, <2>6, <4>2, <4>3
    <3>3. P!Leave(r) /\ lost' \subseteq p_met /\ UNCHANGED file
      BY <2>4, <2>6, <3>1, <3>2 DEF P!Lose, PortInv
    <3> QED BY <1>1, <3>3, LeaveKeeps
  <2>7. CASE f # file
    <3>1. /\ tries' = [tries EXCEPT ![r] = 1] /\ p_pc' = [p_pc EXCEPT ![r] = "up"]
          /\ UNCHANGED <<p_job, got, lost>>
      BY <1>4, <2>4, <2>7 DEF P!Remap, P!Goto
    <3>2. PICK j, g : j = p_job[r] /\ g = got[r]
      OBVIOUS
    <3>3. Goes(r, "up", j, g, 1)
      BY <3>1, <3>2, AtWork DEF Goes
    <3>4. Staged("up", j, 1) /\ 1 \in 0..Tries /\ g \in Seq(P!Port)
      BY <1>2, <3>2, AtWork DEF Staged, Assumed, P!BoundAssumption
    <3>5. Threads' /\ Now(r, "up", j, g, 1) /\ Others(r)
      BY <3>3, <3>4, AtWork, OneThread
    <3>6. r \notin p_met => Lone(r)'
      <4> SUFFICES ASSUME r \notin p_met PROVE Lone(r)'
        OBVIOUS
      <4>1. ~P!Twice'
        BY <2>3, <2>4, Same DEF P!Twice
      <4>2. Clear(Project, Range(file))'
        <5>1. Range(f) \cap P!Used = {} /\ file' = f /\ box' = box
          BY <1>1, <2>3, <2>4
        <5>2. Clear(Project, Range(f))
          BY <5>1, Kinds, FreeIsClear
        <5> QED BY <5>1, <5>2 DEF Clear
      <4> QED BY <1>2, <3>2, <3>5, <4>1, <4>2 DEF Lone, Now
    <3>7. p_pc'[r] = "up" /\ file' \in Seq(P!Port) /\ lost' \subseteq p_met
      BY <2>3, <2>4, <3>1, <3>5 DEF Now, PortInv
    <3> QED BY <1>1, <3>5, <3>6, <3>7, Quiet
  <2> QED BY <2>6, <2>7
<1> QED BY <1>3, <1>4

\* A request that begins.
First(j, label) ==
    \/ j \in P!Create /\ label = "read"
    \/ j \in P!Deploy /\ label = "up"
    \/ j \in P!Ensure /\ label = "remove"

LEMMA BeginKeeps ==
    ASSUME Assumed, PortInv, NEW r \in Request, NEW j, NEW label, P!Begin(r, j, label),
           First(j, label),
           UNCHANGED <<box, tries, ran>>, file' \in Seq(P!Port)
    PROVE  PortInv'
<1>1. /\ p_pc[r] = "idle" /\ p_pc' = [p_pc EXCEPT ![r] = label] /\ p_job' = [p_job EXCEPT ![r] = j]
      /\ got' = [got EXCEPT ![r] = j.want] /\ p_jobs < MaxJobs /\ p_jobs' = p_jobs + 1
      /\ UNCHANGED <<box, tries, ran>>
  BY DEF P!Begin
<1>2. j.want \in Seq(P!Port) /\ j.name \in P!Box
  BY Jobs, Kinds DEF First
<1>3. PICK g, t : g = j.want /\ t = tries[r]
  OBVIOUS
<1>4. t = 0
  BY <1>1, <1>3, AtWork, Jobs DEF Stage, Staged
<1>5. Goes(r, label, j, g, t)
  BY <1>1, <1>3, AtWork DEF Goes
<1>6. Staged(label, j, t) /\ g \in Seq(P!Port) /\ t \in 0..Tries
  BY <1>2, <1>3, <1>4, AtWork DEF Staged, First
<1>7. Threads' /\ Now(r, label, j, g, t) /\ Others(r)
  BY <1>5, <1>6, AtWork, OneThread
<1>8. /\ p_pc'[r] = label /\ label \in {"read", "up", "remove"} /\ tries'[r] = 0
      /\ \A a \in Request \ {r} : p_pc'[a] = p_pc[a] /\ p_job'[a] = p_job[a] /\ got'[a] = got[a]
  BY <1>4, <1>7 DEF Now, Others, First
<1>9. r \notin P!Busy /\ P!Busy' = P!Busy \cup {r}
  BY <1>1, <1>8 DEF P!Busy
<1>10. CASE P!Busy = {}
  <2>1. p_met' = p_met \ {r} /\ raced' = raced /\ lost' = lost \ {r}
    BY <1>10 DEF P!Begin
  <2>2. \A a \in Request : p_pc'[a] = "idle" \/ a = r
    BY <1>8, <1>10 DEF P!Busy
  <2>3. TypeInv'
    BY <1>1, <1>7, <2>1 DEF PortInv, TypeInv, Boxes, Assumed, P!BoundAssumption
  <2>4. Crossed' /\ Marked' /\ Away'
    BY <1>8, <1>9, <1>10, <2>1, <2>2 DEF Crossed, Marked, Away, PortInv, TypeInv
  <2>5. Lone(r)'
    BY <1>8 DEF Lone
  <2>6. Lones' /\ lost' \subseteq p_met'
    BY <1>9, <1>10, <2>1, <2>5 DEF Lones, PortInv
  <2>7. Owned' /\ Apart'
    BY <1>1, <1>8, <2>1 DEF PortInv, Owned, Apart
  <2> QED BY <2>3, <2>4, <2>6, <2>7 DEF PortInv
<1>11. CASE P!Busy # {}
  <2>1. /\ p_met' = p_met \cup P!Busy \cup {r} /\ lost' = lost \ {r}
        /\ raced' = raced \cup {b \in {j.name} \cup {p_job[a].name : a \in P!Busy} : box[b].here}
    BY <1>11 DEF P!Begin
  <2>2. \A a \in P!Busy : p_job[a].name \in P!Box
    <3> SUFFICES ASSUME NEW a \in P!Busy PROVE p_job[a].name \in P!Box
      OBVIOUS
    <3>1. a \in Request /\ p_pc[a] # "idle" /\ Stage(a)
      BY AtWork DEF P!Busy
    <3> QED BY <3>1, Jobs, Kinds DEF Stage, Staged
  <2>3. raced' \subseteq P!Box /\ (\A b \in raced' : box[b].here) /\ raced \subseteq raced'
    BY <1>2, <2>1, <2>2 DEF PortInv, TypeInv, Boxes
  <2>4. TypeInv'
    BY <1>1, <1>7, <2>1, <2>3 DEF PortInv, TypeInv, Boxes, P!Busy, Assumed, P!BoundAssumption
  <2>5. Crossed' /\ Lones'
    BY <1>9, <2>1 DEF Crossed, Lones
  <2>6. Marked'
    <3> SUFFICES ASSUME NEW a \in p_met', NEW b \in P!Box, p_pc'[a] = "start", p_job'[a].name = b, box'[b].here
                 PROVE  b \in raced'
      BY DEF Marked
    <3>1. a \in Request /\ a # r
      BY <1>8, <2>1 DEF PortInv, TypeInv, P!Busy
    <3>2. a \in P!Busy /\ p_job[a].name = b
      BY <1>8, <3>1 DEF P!Busy
    <3> QED BY <1>1, <2>1, <3>2
  <2>7. Away'
    BY <1>1, <1>8, <2>3 DEF PortInv, Away
  <2>8. Owned' /\ Apart' /\ lost' \subseteq p_met'
    BY <1>1, <1>8, <2>1, <2>3 DEF PortInv, Owned, Apart
  <2> QED BY <2>4, <2>5, <2>6, <2>7, <2>8 DEF PortInv
<1> QED BY <1>10, <1>11

LEMMA BeginsKeep ==
    ASSUME Assumed, PortInv, NEW r \in Request, P!BeginCreate(r) \/ P!BeginDeploy(r) \/ P!BeginEnsure(r)
    PROVE  PortInv'
<1>1. file \in Seq(P!Port)
  BY DEF PortInv, TypeInv
<1>2. CASE P!BeginCreate(r)
  <2>1. PICK j \in P!Create : P!Begin(r, j, "read") /\ UNCHANGED <<box, file, tries, ran>>
    BY <1>2 DEF P!BeginCreate
  <2>2. First(j, "read")
    BY DEF First
  <2> QED BY <1>1, <2>1, <2>2, BeginKeeps
<1>3. CASE P!BeginDeploy(r)
  <2>1. PICK j \in P!Deploy : P!Begin(r, j, "up") /\ file' = j.want /\ UNCHANGED <<box, tries, ran>>
    BY <1>3 DEF P!BeginDeploy
  <2>2. file' \in Seq(P!Port) /\ First(j, "up")
    BY <2>1, Jobs, Kinds DEF First
  <2> QED BY <2>1, <2>2, BeginKeeps
<1>4. CASE P!BeginEnsure(r)
  <2>1. PICK j \in P!Ensure : P!Begin(r, j, "remove") /\ UNCHANGED <<box, file, tries, ran>>
    BY <1>4 DEF P!BeginEnsure
  <2>2. First(j, "remove")
    BY DEF First
  <2> QED BY <1>1, <2>1, <2>2, BeginKeeps
<1> QED BY <1>2, <1>3, <1>4

LEMMA CreateKeeps == ASSUME Assumed, PortInv, NEW r \in Request, P!CreateBox(r) PROVE PortInv'
<1>1. /\ p_pc[r] = "create" /\ r \in P!Busy /\ UNCHANGED <<file, p_jobs, p_met>>
      /\ (p_job[r] \in P!Create \/ p_job[r] \in P!Ensure)
  BY AtWork, Jobs DEF P!CreateBox, P!Busy, Stage, Staged
<1>2. PICK b : b = p_job[r].name
  OBVIOUS
<1>3. b \in P!Box /\ b # Project /\ (p_job[r] \in P!Create <=> b \in Name) /\ (p_job[r] \in P!Ensure <=> b = Proxy)
  BY <1>1, <1>2, Jobs, Kinds
<1>4. r \notin p_met => Lone(r)
  BY <1>1 DEF PortInv, Lones
<1>5. CASE box[b].here
  <2>1. /\ UNCHANGED <<box, raced, ran>>
        /\ IF tries[r] > 0 THEN P!Lose(r) ELSE P!Leave(r) /\ UNCHANGED lost
    BY <1>2, <1>5 DEF P!CreateBox
  <2>2. tries[r] > 0 => r \in p_met
    <3> SUFFICES ASSUME r \notin p_met PROVE tries[r] = 0
      BY AtWork
    <3>1. CASE p_job[r] \in P!Create
      BY <1>4, <3>1, Jobs DEF Lone
    <3>2. CASE p_job[r] \in P!Ensure
      BY <1>1, <3>2, AtWork, Jobs DEF Stage, Staged
    <3> QED BY <1>1, <3>1, <3>2
  <2>3. P!Leave(r) /\ lost' \subseteq p_met
    BY <2>1, <2>2 DEF P!Lose, PortInv
  <2> QED BY <1>1, <2>1, <2>3, LeaveKeeps
<1>6. CASE ~box[b].here
  <2>1. PICK new, j, g, t : /\ new = P!Made(Range(got[r]), p_job[r].op # "host", FALSE)
                            /\ j = p_job[r] /\ g = got[r] /\ t = tries[r]
    OBVIOUS
  <2>2. /\ box' = [box EXCEPT ![b] = new] /\ ran' = ran \ {b}
        /\ raced' = IF r \in p_met THEN raced \cup {b} ELSE raced \ {b}
        /\ p_pc' = [p_pc EXCEPT ![r] = "start"] /\ UNCHANGED <<p_job, got, tries, lost>>
    BY <1>2, <1>6, <2>1, Same DEF P!CreateBox, P!Put, P!Goto
  <2>3. g \in Seq(P!Port) /\ t \in 0..Tries /\ Range(g) \in SUBSET P!Port
    BY <2>1, AtWork DEF Range
  <2>4. /\ new \in P!BoxType /\ new.ports = Range(g) /\ new.here /\ ~new.up
        /\ new.listed = (j.op # "host")
    BY <2>1, <2>3, NoBoxIs
  <2>5. Goes(r, "start", j, g, t)
    BY <2>1, <2>2, AtWork DEF Goes
  <2>6. Staged("start", j, t)
    BY <1>1, <2>1, AtWork, Jobs DEF Stage, Staged
  <2>7. Threads' /\ Now(r, "start", j, g, t) /\ Others(r)
    BY <2>3, <2>5, <2>6, AtWork, OneThread
  <2>8. /\ p_pc'[r] = "start" /\ p_job'[r] = j
        /\ \A a \in Request \ {r} : p_pc'[a] = p_pc[a] /\ p_job'[a] = p_job[a] /\ got'[a] = got[a]
    BY <2>7 DEF Now, Others
  <2>9. /\ b # Proxy => new.listed
        /\ \A c \in ran' \cup raced' : IF c = b THEN new.here ELSE c \in ran \cup raced
        /\ ran' \subseteq P!Box /\ raced' \subseteq P!Box
    BY <1>1, <1>3, <2>1, <2>2, <2>4, Jobs DEF PortInv, TypeInv, Boxes
  <2>10. Boxes' /\ box'[b] = new /\ \A c \in P!Box \ {b} : box'[c] = box[c]
    BY <1>3, <2>2, <2>4, <2>9, AtWork, OneBox
  <2>11. TypeInv'
    BY <1>1, <2>2, <2>7, <2>10 DEF PortInv, TypeInv
  <2>12. r \notin p_met /\ j.op \in {"create", "host"} => Range(g) \cap P!Used = {}
    BY <1>1, <1>4, <2>1, <2>3 DEF Lone
  <2>13. Crossed' /\ Lones'
    <3>1. r \notin p_met => Lone(r)'
      <4> SUFFICES ASSUME r \notin p_met PROVE Lone(r)'
        OBVIOUS
      <4>1. j.op = "create" => tries'[r] = 0
        BY <1>4, <2>1, <2>2 DEF Lone
      <4>2. ASSUME NEW c \in Name, NEW ports \in SUBSET P!Port, j.op = "create",
                   j.name = c, box'[c].here, ports = box'[c].ports
            PROVE  Clear(c, ports)'
        <5>1. c = b /\ ports = Range(g) /\ ports \cap P!Used = {}
          BY <1>2, <2>1, <2>4, <2>10, <2>12, <4>2
        <5>2. Clear(b, ports)
          BY <1>3, <5>1, FreeIsClear
        <5> QED BY <2>10, <5>1, <5>2 DEF Clear
      <4> QED BY <2>8, <4>1, <4>2 DEF Lone
    <3> QED BY <1>1, <2>7, <3>1, Served DEF PortInv
  <2>14. Marked'
    <3> SUFFICES ASSUME NEW a \in p_met, NEW c \in P!Box, p_pc'[a] = "start", p_job'[a].name = c, box'[c].here
                 PROVE  c \in raced'
      BY <1>1 DEF Marked
    <3>1. a \in Request
      BY DEF PortInv, TypeInv
    <3>2. CASE a = r
      BY <1>2, <2>1, <2>2, <2>8, <3>2
    <3>3. CASE a # r
      <4>1. p_pc[a] = "start" /\ p_job[a].name = c /\ a \in P!Busy
        BY <2>8, <3>1, <3>3 DEF P!Busy
      <4>2. r \in p_met
        BY <1>1, <3>3, <4>1 DEF PortInv, Crossed
      <4>3. c # b => c \in raced
        BY <2>10, <4>1 DEF PortInv, Marked
      <4> QED BY <2>2, <4>2, <4>3
    <3> QED BY <3>2, <3>3
  <2>15. Owned'
    <3>1. CASE b = Proxy
      <4>1. new.listed \/ j.op = "host"
        BY <2>4
      <4> QED BY <2>8, <2>10, <3>1, <4>1 DEF Owned
    <3>2. CASE b # Proxy
      <4>1. box'[Proxy] = box[Proxy]
        BY <2>10, <3>2, Kinds
      <4> QED BY <1>1, <2>8, <4>1 DEF PortInv, Owned
    <3> QED BY <3>1, <3>2
  <2>16. Away'
    <3> SUFFICES ASSUME NEW a \in Request, p_pc'[a] = "create", p_job'[a].op \in {"create", "host"},
                        NEW c \in Name \ raced', NEW h \in Seq(P!Port), h = got'[a]
                 PROVE  Range(h) \cap box'[c].ports = {}
      BY DEF Away
    <3>1. a # r /\ p_pc[a] = "create" /\ p_job[a].op \in {"create", "host"} /\ h = got[a] /\ a \in P!Busy
      BY <2>8 DEF P!Busy
    <3>2. r \in p_met
      BY <1>1, <3>1 DEF PortInv, Crossed
    <3>3. c # b /\ c \notin raced /\ box'[c] = box[c]
      BY <2>2, <2>10, <3>2, Kinds
    <3> QED BY <3>1, <3>3 DEF PortInv, Away
  <2>17. \A c \in Name : c # b /\ j.op \in {"create", "host"} =>
            {b, c} \subseteq raced' \/ Range(g) \cap box[c].ports = {}
    <3> SUFFICES ASSUME NEW c \in Name, c # b, j.op \in {"create", "host"}
                 PROVE  {b, c} \subseteq raced' \/ Range(g) \cap box[c].ports = {}
      OBVIOUS
    <3>1. CASE r \in p_met
      <4>1. c \in raced \/ Range(g) \cap box[c].ports = {}
        BY <1>1, <2>1, <2>3 DEF PortInv, Away
      <4> QED BY <2>2, <3>1, <4>1
    <3>2. CASE r \notin p_met
      <4>1. Range(g) \cap P!Used = {} /\ c \in P!Box /\ c # Proxy
        BY <2>12, <3>2, Kinds
      <4>2. box[c].listed \/ box[c].ports = {}
        BY <4>1, NoBoxIs DEF PortInv, TypeInv, Boxes
      <4> QED BY <4>1, <4>2 DEF P!Used
    <3> QED BY <3>1, <3>2
  <2>18. \A c \in Name \ {b} : box'[c] = box[c] /\ (c \in raced => c \in raced') /\ (c \in ran' => c \in ran)
    BY <2>2, <2>10, Kinds
  <2>19. CASE b \in Name
    <3>1. j.op = "create" /\ b # Proxy /\ box'[Proxy] = box[Proxy] /\ b \notin ran'
          /\ (Proxy \in raced => Proxy \in raced')
      BY <1>3, <2>1, <2>2, <2>10, <2>19, Kinds, Jobs
    <3>2. \A c, d \in Name : c # d =>
              {c, d} \subseteq raced' \/ box'[c].ports \cap box'[d].ports = {}
      BY <2>4, <2>10, <2>17, <2>18, <3>1 DEF PortInv, Apart
    <3>3. ASSUME ~box[Proxy].listed
          PROVE  \/ {b, Proxy} \subseteq raced'
                 \/ Range(g) \cap box[Proxy].ports = {}
                 \/ box[Proxy].up
      <4>1. CASE ~box[Proxy].here
        BY <4>1, Kinds, NoBoxIs DEF PortInv, TypeInv, Boxes
      <4>2. CASE box[Proxy].here /\ ~box[Proxy].up
        <5>1. PICK q \in Request : p_pc[q] = "start" /\ p_job[q].op = "host"
          BY <3>3, <4>2 DEF PortInv, Owned
        <5>2. q \in P!Busy /\ q # r /\ p_job[q].name = Proxy
          BY <1>1, <5>1, AtWork, Jobs DEF P!Busy
        <5>3. r \in p_met /\ q \in p_met
          BY <1>1, <5>2 DEF PortInv, Crossed
        <5>4. Proxy \in raced
          BY <4>2, <5>1, <5>2, <5>3, Kinds DEF PortInv, Marked
        <5> QED BY <2>2, <3>1, <5>3, <5>4
      <4> QED BY <4>1, <4>2
    <3>4. \A c \in Name : ~box'[Proxy].listed =>
           \/ {c, Proxy} \subseteq raced'
           \/ box'[c].ports \cap box'[Proxy].ports = {}
           \/ box'[Proxy].up /\ c \notin ran'
      BY <2>4, <2>10, <2>18, <3>1, <3>3 DEF PortInv, Apart
    <3>5. Apart'
      BY <3>2, <3>4 DEF Apart
    <3> QED BY <1>1, <2>2, <2>11, <2>13, <2>14, <2>15, <2>16, <3>5 DEF PortInv
  <2>20. CASE b = Proxy
    <3>1. \A c, d \in Name : c # d =>
              {c, d} \subseteq raced' \/ box'[c].ports \cap box'[d].ports = {}
      BY <2>18, <2>20, Kinds DEF PortInv, Apart
    <3>2. \A c \in Name : ~box'[Proxy].listed =>
           \/ {c, Proxy} \subseteq raced'
           \/ box'[c].ports \cap box'[Proxy].ports = {}
           \/ box'[Proxy].up /\ c \notin ran'
      BY <2>4, <2>10, <2>17, <2>18, <2>20, Kinds
    <3>3. Apart'
      BY <3>1, <3>2 DEF Apart
    <3> QED BY <1>1, <2>2, <2>11, <2>13, <2>14, <2>15, <2>16, <3>3 DEF PortInv
  <2> QED BY <1>3, <2>19, <2>20, Kinds
<1> QED BY <1>5, <1>6

\* Containers other than a project's come from requests only, and nothing
\* forgets how.
Fewer ==
    /\ \A c \in P!Box \ {Project} : box'[c].here => box[c].here /\ box'[c].ports = box[c].ports
    /\ \A c \in raced \ {Project} : box'[c].here => c \in raced'

\* A request at a container knows which.
LEMMA AtContainer ==
    ASSUME Assumed, PortInv, NEW a \in Request, p_pc[a] \in {"create", "start"}
    PROVE  p_job[a].name \in P!Box \ {Project} /\ a \in P!Busy
  BY AtWork, Jobs, Kinds DEF Stage, Staged

\* A request that goes on, or ends, and changes containers.
LEMMA Acts ==
    ASSUME Assumed, PortInv, NEW r \in P!Busy, Threads', Others(r), Boxes', Apart', Owned', Fewer,
           UNCHANGED <<p_jobs, p_met>>, file' \in Seq(P!Port), lost' \subseteq p_met,
           p_pc'[r] # "start", p_pc'[r] = "create" => p_job'[r].op \notin {"create", "host"},
           r \in P!Busy' /\ r \notin p_met => Lone(r)'
    PROVE  PortInv'
<1>1. Crossed' /\ Lones'
  BY Served DEF PortInv
<1>2. TypeInv'
  BY DEF PortInv, TypeInv
<1>3. \A a \in Request \ {r} : p_pc'[a] = p_pc[a] /\ p_job'[a] = p_job[a] /\ got'[a] = got[a]
  BY DEF Others
<1>4. Marked'
  <2> SUFFICES ASSUME NEW a \in p_met, NEW b \in P!Box, p_pc'[a] = "start", p_job'[a].name = b, box'[b].here
               PROVE  b \in raced'
    BY DEF Marked
  <2>1. a \in Request \ {r} /\ p_pc[a] = "start" /\ p_job[a].name = b
    BY <1>3 DEF PortInv, TypeInv
  <2>2. b # Project
    BY <2>1, AtContainer
  <2>3. b \in raced
    BY <2>1, <2>2 DEF PortInv, Marked, Fewer
  <2> QED BY <2>2, <2>3 DEF Fewer
<1>5. Away'
  <2> SUFFICES ASSUME NEW a \in Request, p_pc'[a] = "create", p_job'[a].op \in {"create", "host"},
                      NEW b \in Name \ raced', NEW g \in Seq(P!Port), g = got'[a]
               PROVE  Range(g) \cap box'[b].ports = {}
    BY DEF Away
  <2>1. a # r /\ p_pc[a] = "create" /\ p_job[a].op \in {"create", "host"} /\ g = got[a]
    BY <1>3
  <2>2. CASE ~box'[b].here
    BY <2>2, Kinds, NoBoxIs DEF Boxes
  <2>3. CASE box'[b].here
    <3>1. box'[b].ports = box[b].ports /\ b \notin raced
      BY <2>3, Kinds DEF Fewer
    <3> QED BY <2>1, <3>1 DEF PortInv, Away
  <2> QED BY <2>2, <2>3
<1> QED BY <1>1, <1>2, <1>4, <1>5 DEF PortInv

\* A container that goes up, and whose ports no other has that runs.
LEMMA GoesUp ==
    ASSUME Assumed, PortInv, NEW b \in P!Box, box[b].here,
           b \in Name => P!Holders(b, box[b].ports) = {},
           box' = [box EXCEPT ![b].up = TRUE], ran' = ran \cup {b}, raced' = raced
    PROVE  /\ Boxes' /\ Apart' /\ Fewer
           /\ \A c \in P!Box : box'[c].ports = box[c].ports /\ box'[c].listed = box[c].listed
                             /\ box'[c].here = box[c].here /\ (c # b => box'[c].up = box[c].up)
           /\ box'[b].up
<1>1. PICK new : new = [box[b] EXCEPT !.up = TRUE]
  OBVIOUS
<1>2. Boxes /\ box[b] \in P!BoxType
  BY DEF PortInv, TypeInv, Boxes
<1>3. /\ new \in P!BoxType /\ new.ports = box[b].ports /\ new.listed = box[b].listed
      /\ new.here = box[b].here /\ new.here /\ new.up
  BY <1>1, <1>2 DEF P!BoxType
<1>4. box' = [box EXCEPT ![b] = new] /\ (b # Proxy => new.listed)
  BY <1>1, <1>2, <1>3 DEF Boxes
<1>5. /\ \A c \in ran' \cup raced' : IF c = b THEN new.here ELSE c \in ran \cup raced
      /\ ran' \subseteq P!Box /\ raced' \subseteq P!Box
  BY <1>2, <1>3 DEF Boxes
<1>6. Boxes' /\ box'[b] = new /\ \A c \in P!Box \ {b} : box'[c] = box[c]
  BY <1>2, <1>3, <1>4, <1>5, OneBox
<1>7. /\ \A c \in P!Box : box'[c].ports = box[c].ports /\ box'[c].listed = box[c].listed
                        /\ box'[c].here = box[c].here /\ (c # b => box'[c].up = box[c].up)
      /\ box'[b].up
  <2>1. ASSUME NEW c \in P!Box
        PROVE  /\ box'[c].ports = box[c].ports /\ box'[c].listed = box[c].listed
               /\ box'[c].here = box[c].here /\ (c # b => box'[c].up = box[c].up)
    <3>1. CASE c = b
      BY <1>3, <1>6, <3>1
    <3>2. CASE c # b
      BY <1>6, <3>2
    <3> QED BY <3>1, <3>2
  <2> QED BY <1>3, <1>6, <2>1
<1>8. ASSUME NEW c \in Name, ~box[Proxy].listed
      PROVE  \/ {c, Proxy} \subseteq raced
             \/ box[c].ports \cap box[Proxy].ports = {}
             \/ box'[Proxy].up /\ c \notin ran'
  <2>1. \/ {c, Proxy} \subseteq raced
        \/ box[c].ports \cap box[Proxy].ports = {}
        \/ box[Proxy].up /\ c \notin ran
    BY <1>8 DEF PortInv, Apart
  <2>2. CASE b = c /\ box[Proxy].up
    <3>1. Proxy \notin P!Holders(b, box[b].ports) /\ Proxy \in P!Box \ {b}
      BY <2>2, Kinds
    <3> QED BY <2>2, <3>1 DEF P!Holders
  <2>3. CASE b # c
    BY <1>7, <2>1, <2>3, Kinds
  <2> QED BY <2>1, <2>2, <2>3
<1>9. Apart'
  BY <1>7, <1>8, Kinds DEF PortInv, Apart
<1> QED BY <1>6, <1>7, <1>9 DEF Fewer

\* A container that goes.
LEMMA GoesAway ==
    ASSUME Assumed, PortInv, NEW b \in P!Box, box' = [box EXCEPT ![b] = P!NoBox],
           raced' = raced \ {b}, ran' = ran \ {b}
    PROVE  Boxes' /\ Apart' /\ Fewer /\ box'[b] = P!NoBox /\ \A c \in P!Box \ {b} : box'[c] = box[c]
<1>1. Boxes
  BY DEF PortInv, TypeInv
<1>2. /\ \A c \in ran' \cup raced' : IF c = b THEN P!NoBox.here ELSE c \in ran \cup raced
      /\ ran' \subseteq P!Box /\ raced' \subseteq P!Box
  BY <1>1 DEF Boxes
<1>3. PICK new : new = P!NoBox
  OBVIOUS
<1>4. Boxes' /\ box'[b] = new /\ \A c \in P!Box \ {b} : box'[c] = box[c]
  BY <1>1, <1>2, <1>3, NoBoxIs, OneBox
<1>5. \A c \in P!Box :
          IF c = b THEN box'[c].ports = {} /\ ~box'[c].here ELSE box'[c] = box[c]
  BY <1>3, <1>4, NoBoxIs
<1>6. Apart'
  <2>1. \A c, d \in Name : c # d =>
            {c, d} \subseteq raced' \/ box'[c].ports \cap box'[d].ports = {}
    BY <1>5, Kinds DEF PortInv, Apart
  <2>2. \A c \in Name : ~box'[Proxy].listed =>
           \/ {c, Proxy} \subseteq raced'
           \/ box'[c].ports \cap box'[Proxy].ports = {}
           \/ box'[Proxy].up /\ c \notin ran'
    BY <1>5, Kinds DEF PortInv, Apart
  <2> QED BY <2>1, <2>2 DEF Apart
<1>7. Fewer
  BY <1>5 DEF Fewer
<1> QED BY <1>3, <1>4, <1>6, <1>7

LEMMA StartKeeps == ASSUME Assumed, PortInv, NEW r \in Request, P!StartBox(r) PROVE PortInv'
<1>1. PICK b : b = p_job[r].name
  OBVIOUS
<1>2. /\ p_pc[r] = "start" /\ box[b].here /\ UNCHANGED <<file, p_jobs, p_met, raced>>
      /\ r \in P!Busy /\ b \in P!Box \ {Project}
  BY <1>1, AtContainer DEF P!StartBox
<1>3. file' \in Seq(P!Port) /\ p_job[r] \in P!Create \cup P!Ensure
  BY <1>2, AtWork DEF PortInv, TypeInv, Stage, Staged
<1>4. (p_job[r].op = "create" <=> b \in Name) /\ (p_job[r].op # "create" <=> b = Proxy)
  BY <1>1, <1>3, Jobs, Kinds
<1>5. lost \subseteq p_met
  BY DEF PortInv
<1>6. CASE ~(p_job[r].op # "host" /\ P!Holders(b, box[b].ports) # {})
  <2>1. /\ box' = [box EXCEPT ![b].up = TRUE] /\ ran' = ran \cup {b} /\ raced' = raced
        /\ P!Leave(r) /\ UNCHANGED lost
    BY <1>1, <1>2, <1>6 DEF P!StartBox
  <2>2. b \in Name => P!Holders(b, box[b].ports) = {}
    BY <1>4, <1>6, Jobs
  <2>3. /\ Boxes' /\ Apart' /\ Fewer /\ box'[b].up
        /\ \A c \in P!Box : box'[c].ports = box[c].ports /\ box'[c].listed = box[c].listed
                          /\ box'[c].here = box[c].here /\ (c # b => box'[c].up = box[c].up)
    BY <1>2, <2>1, <2>2, GoesUp
  <2>4. Threads' /\ Now(r, "idle", P!NoJob, <<>>, 0) /\ Others(r)
    BY <2>1, LeaveThread, AtWork
  <2>5. p_pc'[r] = "idle" /\ r \notin P!Busy'
    BY <2>4 DEF Now, P!Busy
  <2>6. Owned'
    <3> SUFFICES ASSUME box'[Proxy].here, ~box'[Proxy].listed, ~box'[Proxy].up
                 PROVE  \E q \in Request : p_pc'[q] = "start" /\ p_job'[q].op = "host"
      BY DEF Owned
    <3>1. box[Proxy].here /\ ~box[Proxy].listed /\ ~box[Proxy].up /\ b # Proxy
      BY <2>3, Kinds
    <3>2. PICK q \in Request : p_pc[q] = "start" /\ p_job[q].op = "host"
      BY <3>1 DEF PortInv, Owned
    <3>3. q # r
      BY <1>4, <3>1, <3>2
    <3> QED BY <2>4, <3>2, <3>3 DEF Others
  <2>7. lost' \subseteq p_met
    BY <1>5, <2>1
  <2> QED BY <1>2, <1>3, <2>3, <2>4, <2>5, <2>6, <2>7, Acts
<1>7. CASE p_job[r].op # "host" /\ P!Holders(b, box[b].ports) # {}
  <2>1. UNCHANGED <<box, ran>>
    BY <1>1, <1>7 DEF P!StartBox
  <2>2. p_job[r].op = "create" /\ P!Allocated(b, box[b].ports) => r \in p_met
    <3> SUFFICES ASSUME p_job[r].op = "create", P!Allocated(b, box[b].ports), r \notin p_met PROVE FALSE
      OBVIOUS
    <3>1. PICK ports \in SUBSET P!Port : ports = box[b].ports
      BY <1>2 DEF PortInv, TypeInv, Boxes, P!BoxType
    <3>2. Clear(b, ports)
      BY <1>1, <1>2, <1>4, <3>1 DEF PortInv, Lones, Lone
    <3> QED BY <3>1, <3>2 DEF P!Allocated, P!Holders, Clear
  <2>3. CASE p_job[r].op = "create" /\ P!Allocated(b, box[b].ports) /\ tries[r] + 1 < Tries
    <3>1. /\ tries' = [tries EXCEPT ![r] = tries[r] + 1] /\ p_pc' = [p_pc EXCEPT ![r] = "read"]
          /\ UNCHANGED <<p_job, got, lost>>
      BY <1>1, <1>7, <2>3 DEF P!StartBox, P!Goto
    <3>2. PICK j, g, t : j = p_job[r] /\ g = got[r] /\ t = tries[r] + 1
      OBVIOUS
    <3>3. Goes(r, "read", j, g, t)
      BY <3>1, <3>2, AtWork DEF Goes
    <3>4. Staged("read", j, t)
      BY <1>3, <2>3, <3>2, Jobs DEF Staged
    <3>5. g \in Seq(P!Port) /\ t \in 0..Tries
      BY <2>3, <3>2, AtWork DEF Assumed, P!BoundAssumption
    <3>6. Threads' /\ Now(r, "read", j, g, t) /\ Others(r)
      BY <3>3, <3>4, <3>5, AtWork, OneThread
    <3>7. p_pc'[r] = "read" /\ lost' \subseteq p_met
      BY <1>5, <3>1, <3>6 DEF Now
    <3> QED BY <1>2, <1>3, <1>7, <2>1, <2>2, <2>3, <3>6, <3>7, Quiet
  <2>4. CASE ~(p_job[r].op = "create" /\ P!Allocated(b, box[b].ports) /\ tries[r] + 1 < Tries)
    <3>1. P!Leave(r) /\ lost' \subseteq p_met
      BY <1>1, <1>5, <1>7, <2>2, <2>4 DEF P!StartBox, P!Lose
    <3> QED BY <1>2, <1>7, <2>1, <3>1, LeaveKeeps
  <2> QED BY <2>3, <2>4
<1> QED BY <1>6, <1>7

LEMMA RemoveKeeps == ASSUME Assumed, PortInv, NEW r \in Request, P!RemoveProxy(r) PROVE PortInv'
<1>1. PICK p, j, g, t : /\ p = IF p_job[r].op = "host" THEN "read" ELSE "create"
                        /\ j = p_job[r] /\ g = got[r] /\ t = tries[r]
  OBVIOUS
<1>2. /\ p_pc[r] = "remove" /\ r \in P!Busy /\ UNCHANGED <<file, p_jobs, p_met, lost>>
      /\ box' = [box EXCEPT ![Proxy] = P!NoBox] /\ raced' = raced \ {Proxy} /\ ran' = ran \ {Proxy}
      /\ p_pc' = [p_pc EXCEPT ![r] = p] /\ UNCHANGED <<p_job, got, tries>>
  BY <1>1 DEF P!RemoveProxy, P!Goto, P!Busy
<1>3. Goes(r, p, j, g, t)
  BY <1>1, <1>2, AtWork DEF Goes
<1>4. j \in P!Ensure /\ t = 0 /\ t \in 0..Tries /\ g \in Seq(P!Port)
  BY <1>1, <1>2, AtWork DEF Stage, Staged
<1>5. Staged(p, j, t)
  BY <1>1, <1>4 DEF Staged
<1>6. Threads' /\ Now(r, p, j, g, t) /\ Others(r)
  BY <1>3, <1>4, <1>5, AtWork, OneThread
<1>7. /\ Boxes' /\ Apart' /\ Fewer /\ box'[Proxy] = P!NoBox
      /\ \A c \in P!Box \ {Proxy} : box'[c] = box[c]
  BY <1>2, Kinds, GoesAway
<1>8. Owned'
  BY <1>7, NoBoxIs DEF Owned
<1>9. /\ p \in {"read", "create"} /\ p_pc'[r] = p /\ p_job'[r] = j /\ tries'[r] = 0
      /\ (p = "create" => j.op = "bridge") /\ j.op # "create"
  BY <1>1, <1>4, <1>6, Jobs DEF Now
<1>10. Lone(r)'
  BY <1>9 DEF Lone
<1>11. file' \in Seq(P!Port) /\ lost' \subseteq p_met
  BY <1>2 DEF PortInv, TypeInv
<1> QED BY <1>2, <1>6, <1>7, <1>8, <1>9, <1>10, <1>11, Acts

\* The project's container, made anew or as it was.
LEMMA ComposeMakes ==
    ASSUME Assumed, PortInv, P!Compose(P!Clash), UNCHANGED file,
           raced' \subseteq raced \cup P!Box, \A b \in raced' : b # Project => box[b].here,
           \A b \in raced : b # Project => b \in raced'
    PROVE  /\ Boxes' /\ Apart' /\ Fewer
           /\ box'[Project].listed /\ box'[Project].ports = Range(file)
           /\ \A c \in P!Box \ {Project} : box'[c] = box[c]
<1>1. PICK new : new = P!Made(Range(file), TRUE, ~P!Clash)
  OBVIOUS
<1>2. Range(file) \in SUBSET P!Port /\ (~P!Clash) \in BOOLEAN
  <2>1. Range(file) \in SUBSET P!Port
    BY DEF PortInv, TypeInv, Range
  <2>2. (~P!Clash) \in BOOLEAN
    OBVIOUS
  <2> QED BY <2>1, <2>2
<1>3. new \in P!BoxType /\ new.listed /\ new.here /\ new.ports = Range(file)
  BY <1>1, <1>2, NoBoxIs
<1>4. /\ box' = [box EXCEPT ![Project] = new]
      /\ ran' = ran \ {Project} \/ ran' = ran \cup {Project}
  BY <1>1, Same DEF P!Compose
<1>5. Boxes /\ Project \in P!Box
  BY Kinds DEF PortInv, TypeInv
<1>6. ran' \subseteq P!Box /\ raced' \subseteq P!Box
  BY <1>4, <1>5 DEF Boxes
<1>7. \A c \in ran' \cup raced' : IF c = Project THEN new.here ELSE c \in ran \cup raced \/ box[c].here
  BY <1>3, <1>4
<1>8. box'[Project] = new /\ \A c \in P!Box \ {Project} : box'[c] = box[c]
  BY <1>4, <1>5 DEF Boxes
<1>9. Boxes'
  <2>1. box' \in [P!Box -> P!BoxType]
    BY <1>3, <1>4, <1>5 DEF Boxes
  <2>2. /\ \A c \in P!Box : ~box'[c].here => box'[c] = P!NoBox
        /\ \A c \in P!Box : box'[c].here /\ c # Proxy => box'[c].listed
    BY <1>3, <1>5, <1>8 DEF Boxes
  <2>3. \A c \in ran' \cup raced' : box'[c].here
    BY <1>3, <1>5, <1>6, <1>7, <1>8 DEF Boxes
  <2> QED BY <1>6, <2>1, <2>2, <2>3 DEF Boxes
<1>10. \A c \in Name \cup {Proxy} :
           box'[c] = box[c] /\ (c \in raced => c \in raced') /\ (c \in ran' => c \in ran)
  BY <1>4, <1>8, Kinds
<1>11. Apart'
  <2>1. \A c, d \in Name : c # d =>
            {c, d} \subseteq raced' \/ box'[c].ports \cap box'[d].ports = {}
    BY <1>10 DEF PortInv, Apart
  <2>2. \A c \in Name : ~box'[Proxy].listed =>
           \/ {c, Proxy} \subseteq raced'
           \/ box'[c].ports \cap box'[Proxy].ports = {}
           \/ box'[Proxy].up /\ c \notin ran'
    BY <1>10 DEF PortInv, Apart
  <2> QED BY <2>1, <2>2 DEF Apart
<1>12. Fewer
  BY <1>8 DEF Fewer
<1> QED BY <1>3, <1>8, <1>9, <1>11, <1>12

\* Nothing that Docker lists has a project's ports, so that it can have them.
LEMMA ClearMoves ==
    ASSUME ~P!Twice, Clear(Project, Range(file))
    PROVE  ~P!Moves
  BY Same DEF P!Moves, P!Allocated, P!Holders, Clear

LEMMA UpKeeps == ASSUME Assumed, PortInv, NEW r \in Request, P!Up(r) PROVE PortInv'
<1>1. /\ p_pc[r] = "up" /\ r \in P!Busy /\ P!Compose(P!Clash) /\ UNCHANGED <<file, p_jobs, p_met>>
      /\ raced' = IF r \in p_met THEN raced \cup {Project} ELSE raced \ {Project}
  BY DEF P!Up, P!Busy
<1>2. /\ raced' \subseteq raced \cup P!Box /\ \A b \in raced' : b # Project => box[b].here
      /\ \A b \in raced : b # Project => b \in raced'
  BY <1>1, Kinds DEF PortInv, TypeInv, Boxes
<1>3. /\ Boxes' /\ Apart' /\ Fewer
      /\ box'[Project].listed /\ box'[Project].ports = Range(file)
      /\ \A c \in P!Box \ {Project} : box'[c] = box[c]
  BY <1>1, <1>2, ComposeMakes
<1>4. file \in Seq(P!Port) /\ file' = file /\ lost \subseteq p_met
  BY <1>1 DEF PortInv, TypeInv
<1>5. p_job[r] \in P!Deploy /\ p_job[r].op = "deploy" /\ tries[r] \in {0, 1}
  BY <1>1, AtWork, Jobs DEF Stage, Staged
<1>6. tries[r] = 1 /\ P!Moves => r \in p_met
  <2> SUFFICES ASSUME tries[r] = 1, P!Moves, r \notin p_met PROVE FALSE
    OBVIOUS
  <2>1. ~P!Twice /\ Clear(Project, Range(file))
    BY <1>1 DEF PortInv, Lones, Lone
  <2> QED BY <2>1, ClearMoves
<1>8. ASSUME Others(r) PROVE Owned'
  <2> SUFFICES ASSUME box'[Proxy].here, ~box'[Proxy].listed, ~box'[Proxy].up
               PROVE  \E q \in Request : p_pc'[q] = "start" /\ p_job'[q].op = "host"
    BY DEF Owned
  <2>1. box'[Proxy] = box[Proxy]
    BY <1>3, Kinds
  <2>2. PICK q \in Request : p_pc[q] = "start" /\ p_job[q].op = "host"
    BY <2>1 DEF PortInv, Owned
  <2> QED BY <1>1, <1>8, <2>2 DEF Others
<1>9. CASE P!Moves /\ tries[r] = 0
  <2>1. p_pc' = [p_pc EXCEPT ![r] = "remap"] /\ UNCHANGED <<p_job, got, tries, lost>>
    BY <1>9 DEF P!Up, P!Goto
  <2>2. PICK j, g, t : j = p_job[r] /\ g = got[r] /\ t = tries[r]
    OBVIOUS
  <2>3. Goes(r, "remap", j, g, t)
    BY <2>1, <2>2, AtWork DEF Goes
  <2>4. Staged("remap", j, t) /\ g \in Seq(P!Port) /\ t \in 0..Tries
    BY <1>5, <1>9, <2>2, AtWork DEF Staged
  <2>5. Threads' /\ Now(r, "remap", j, g, t) /\ Others(r)
    BY <2>3, <2>4, AtWork, OneThread
  <2>6. file # <<>>
    <3> SUFFICES ASSUME file = <<>> PROVE FALSE
      OBVIOUS
    <3>1. Range(file) = {} /\ Len(file) = 0
      BY Kinds
    <3>2. ~P!Twice
      <4>1. Cardinality({}) = 0
        BY FS_EmptySet
      <4>2. Cardinality(Range(file)) = 0
        BY <3>1, <4>1
      <4> QED BY <3>1, <4>2, Same DEF P!Twice
    <3>3. ~P!Allocated(Project, Range(file))
      BY <3>1 DEF P!Allocated, P!Holders
    <3> QED BY <1>9, <3>2, <3>3, Same DEF P!Moves
  <2>7. p_pc'[r] = "remap" /\ p_job'[r].op = "deploy" /\ lost' \subseteq p_met
    BY <1>4, <1>5, <2>1, <2>2, <2>5 DEF Now
  <2>8. Lone(r)'
    BY <1>3, <1>4, <2>6, <2>7 DEF Lone
  <2> QED BY <1>1, <1>3, <1>4, <1>8, <2>5, <2>7, <2>8, Acts
<1>10. CASE ~(P!Moves /\ tries[r] = 0)
  <2>1. P!Leave(r) /\ lost' \subseteq p_met
    BY <1>4, <1>5, <1>6, <1>10 DEF P!Up, P!Lose
  <2>2. Threads' /\ Now(r, "idle", P!NoJob, <<>>, 0) /\ Others(r)
    BY <2>1, LeaveThread, AtWork
  <2>3. p_pc'[r] = "idle" /\ r \notin P!Busy'
    BY <2>2 DEF Now, P!Busy
  <2> QED BY <1>1, <1>3, <1>4, <1>8, <2>1, <2>2, <2>3, Acts
<1> QED BY <1>9, <1>10

\* A container that changes while no request goes on.
LEMMA Bystanders ==
    ASSUME Assumed, PortInv, UNCHANGED <<file, p_pc, p_job, got, tries, p_jobs, lost>>,
           p_met' \subseteq Request, p_met \subseteq p_met', Boxes', Apart', Fewer,
           box'[Proxy] = box[Proxy],
           \A r \in p_met' \ p_met : p_pc[r] = "start" /\ box[p_job[r].name].here => p_job[r].name \in raced',
           \A r \in P!Busy \ p_met' :
               /\ \A c \in P!Box : box'[c].listed => box[c].listed /\ box'[c].ports = box[c].ports
               /\ p_pc[r] = "remap" => box'[Project] = box[Project]
    PROVE  PortInv'
<1>1. P!Busy' = P!Busy
  BY DEF P!Busy
<1>2. TypeInv'
  BY DEF PortInv, TypeInv, Threads, Stage
<1>3. Crossed'
  BY <1>1 DEF PortInv, Crossed
<1>4. Owned'
  BY DEF PortInv, Owned
<1>5. Marked'
  <2> SUFFICES ASSUME NEW a \in p_met', NEW b \in P!Box, p_pc[a] = "start", p_job[a].name = b, box'[b].here
               PROVE  b \in raced'
    BY DEF Marked
  <2>1. b # Project /\ a \in Request
    BY AtContainer
  <2>2. box[b].here
    BY <2>1 DEF Fewer
  <2>3. CASE a \in p_met
    <3>1. b \in raced
      BY <2>2, <2>3 DEF PortInv, Marked
    <3> QED BY <2>1, <3>1 DEF Fewer
  <2>4. CASE a \notin p_met
    BY <2>2, <2>4
  <2> QED BY <2>3, <2>4
<1>6. Away'
  <2> SUFFICES ASSUME NEW a \in Request, p_pc[a] = "create", p_job[a].op \in {"create", "host"},
                      NEW b \in Name \ raced', NEW g \in Seq(P!Port), g = got[a]
               PROVE  Range(g) \cap box'[b].ports = {}
    BY DEF Away
  <2>1. CASE ~box'[b].here
    BY <2>1, Kinds, NoBoxIs DEF Boxes
  <2>2. CASE box'[b].here
    <3>1. box'[b].ports = box[b].ports /\ b \notin raced
      BY <2>2, Kinds DEF Fewer
    <3> QED BY <3>1 DEF PortInv, Away
  <2> QED BY <2>1, <2>2
<1>7. ASSUME NEW a \in P!Busy, a \notin p_met' PROVE Lone(a)'
  <2>1. Lone(a) /\ a \in Request
    BY <1>7 DEF PortInv, Lones, P!Busy
  <2>2. \A c \in P!Box : box'[c].listed => box[c].listed /\ box'[c].ports = box[c].ports
    BY <1>7
  <2>3. P!Used' \subseteq P!Used
    BY <2>2 DEF P!Used
  <2>4. \A b \in P!Box : \A ports : Clear(b, ports) => Clear(b, ports)'
    BY <2>2 DEF Clear
  <2>5. p_job[a].op = "create" => tries[a] = 0
    BY <2>1 DEF Lone
  <2>6. p_pc[a] = "create" /\ p_job[a].op \in {"create", "host"}
           => \A g \in Seq(P!Port) : g = got[a] => Range(g) \cap P!Used' = {}
    BY <2>1, <2>3 DEF Lone
  <2>7. ASSUME p_pc[a] = "start", p_job[a].op = "create", NEW b \in Name, NEW ports \in SUBSET P!Port,
               p_job[a].name = b, box'[b].here, ports = box'[b].ports
        PROVE  Clear(b, ports)'
    <3>1. b \in P!Box \ {Project}
      BY Kinds
    <3>2. box[b].here /\ ports = box[b].ports
      BY <2>7, <3>1 DEF Fewer
    <3> QED BY <2>1, <2>4, <2>7, <3>1, <3>2 DEF Lone
  <2>8. p_pc[a] = "remap"
            => box'[Project].listed /\ box'[Project].ports = Range(file) /\ file # <<>>
    BY <1>7, <2>1 DEF Lone
  <2>9. p_pc[a] = "up" /\ tries[a] = 1 => ~P!Twice' /\ Clear(Project, Range(file))'
    <3> SUFFICES ASSUME p_pc[a] = "up", tries[a] = 1 PROVE ~P!Twice' /\ Clear(Project, Range(file))'
      OBVIOUS
    <3>1. ~P!Twice /\ Clear(Project, Range(file))
      BY <2>1 DEF Lone
    <3> QED BY <2>2, <3>1 DEF P!Twice, Clear
  <2> QED BY <2>5, <2>6, <2>7, <2>8, <2>9 DEF Lone
<1>8. Lones'
  BY <1>1, <1>7 DEF Lones
<1>9. lost' \subseteq p_met'
  BY DEF PortInv
<1> QED BY <1>2, <1>3, <1>4, <1>5, <1>6, <1>8, <1>9 DEF PortInv

\* The steps that no request is behind.
LEMMA UpAgainKeeps == ASSUME Assumed, PortInv, P!UpAgain PROVE PortInv'
<1>1. /\ P!Compose(P!Clash) /\ UNCHANGED <<file, p_pc, p_job, got, tries, p_jobs, lost>>
      /\ p_met' = p_met \cup P!Busy
      /\ raced' = raced \cup {Project} \cup {b \in {p_job[a].name : a \in P!Busy} : box[b].here}
  BY DEF P!UpAgain
<1>2. \A a \in P!Busy : p_job[a].name \in P!Box
  <2> SUFFICES ASSUME NEW a \in P!Busy PROVE p_job[a].name \in P!Box
    OBVIOUS
  <2>1. a \in Request /\ p_pc[a] # "idle" /\ Stage(a)
    BY AtWork DEF P!Busy
  <2> QED BY <2>1, Jobs, Kinds DEF Stage, Staged
<1>3. /\ raced' \subseteq raced \cup P!Box /\ \A b \in raced' : b # Project => box[b].here
      /\ \A b \in raced : b # Project => b \in raced'
  BY <1>1, <1>2, Kinds DEF PortInv, TypeInv, Boxes
<1>4. /\ Boxes' /\ Apart' /\ Fewer /\ \A c \in P!Box \ {Project} : box'[c] = box[c]
  BY <1>1, <1>3, ComposeMakes
<1>5. box'[Proxy] = box[Proxy]
  BY <1>4, Kinds
<1>6. p_met \subseteq p_met' /\ p_met' \subseteq Request /\ P!Busy \ p_met' = {}
  BY <1>1 DEF PortInv, TypeInv, P!Busy
<1>7. \A a \in p_met' \ p_met : p_pc[a] = "start" /\ box[p_job[a].name].here => p_job[a].name \in raced'
  BY <1>1
<1> QED BY <1>1, <1>4, <1>5, <1>6, <1>7, Bystanders

LEMMA DownKeeps == ASSUME Assumed, PortInv, P!Down PROVE PortInv'
<1>1. /\ box' = [box EXCEPT ![Project] = P!NoBox]
      /\ raced' = raced \ {Project} /\ ran' = ran \ {Project}
      /\ p_met' = p_met \cup {r \in P!Busy : p_job[r].op = "deploy"}
      /\ UNCHANGED <<file, p_pc, p_job, got, tries, p_jobs, lost>>
  BY DEF P!Down
<1>2. Boxes' /\ Apart' /\ Fewer /\ box'[Project] = P!NoBox /\ \A c \in P!Box \ {Project} : box'[c] = box[c]
  BY <1>1, Kinds, GoesAway
<1>3. box'[Proxy] = box[Proxy]
  BY <1>2, Kinds
<1>4. p_met \subseteq p_met' /\ p_met' \subseteq Request
  BY <1>1 DEF PortInv, TypeInv, P!Busy
<1>5. ASSUME NEW r \in p_met' \ p_met PROVE p_pc[r] # "start"
  <2>1. r \in Request /\ p_job[r].op = "deploy" /\ Stage(r)
    BY <1>1, <1>5, AtWork DEF P!Busy
  <2> QED BY <2>1, Jobs DEF Stage, Staged
<1>6. ASSUME NEW r \in P!Busy \ p_met'
      PROVE  /\ \A c \in P!Box : box'[c].listed => box[c].listed /\ box'[c].ports = box[c].ports
             /\ p_pc[r] = "remap" => box'[Project] = box[Project]
  <2>1. r \in Request /\ p_job[r].op # "deploy" /\ Stage(r)
    BY <1>1, AtWork DEF P!Busy
  <2>2. p_pc[r] # "remap"
    BY <2>1, Jobs DEF Stage, Staged
  <2>3. \A c \in P!Box : box'[c].listed => box[c].listed /\ box'[c].ports = box[c].ports
    BY <1>2, NoBoxIs
  <2> QED BY <2>2, <2>3
<1> QED BY <1>1, <1>2, <1>3, <1>4, <1>5, <1>6, Bystanders

LEMMA StopKeeps == ASSUME Assumed, PortInv, NEW b \in Name, P!Stop(b) PROVE PortInv'
<1>1. /\ box[b].up /\ box' = [box EXCEPT ![b].up = FALSE]
      /\ UNCHANGED <<file, p_pc, p_job, got, tries, p_jobs, p_met, raced, ran, lost>>
  BY DEF P!Stop, P!history
<1>2. b \in P!Box /\ b # Proxy /\ b # Project /\ Boxes /\ box[b] \in P!BoxType
  BY Kinds DEF PortInv, TypeInv, Boxes
<1>3. box[b].here
  BY <1>1, <1>2, NoBoxIs DEF Boxes
<1>4. PICK new : new = [box[b] EXCEPT !.up = FALSE]
  OBVIOUS
<1>5. /\ new \in P!BoxType /\ new.ports = box[b].ports /\ new.listed = box[b].listed
      /\ new.here = box[b].here
  BY <1>2, <1>4 DEF P!BoxType
<1>6. box' = [box EXCEPT ![b] = new] /\ new.here /\ new.listed
  BY <1>1, <1>2, <1>3, <1>4, <1>5 DEF Boxes
<1>7. /\ \A c \in ran' \cup raced' : IF c = b THEN new.here ELSE c \in ran \cup raced
      /\ ran' \subseteq P!Box /\ raced' \subseteq P!Box
  BY <1>1, <1>2, <1>6 DEF Boxes
<1>8. Boxes' /\ box'[b] = new /\ \A c \in P!Box \ {b} : box'[c] = box[c]
  BY <1>2, <1>5, <1>6, <1>7, OneBox
<1>9. \A c \in P!Box : /\ box'[c].ports = box[c].ports /\ box'[c].listed = box[c].listed
                     /\ box'[c].here = box[c].here
  BY <1>5, <1>8
<1>10. box'[Proxy] = box[Proxy] /\ box'[Project] = box[Project]
  BY <1>2, <1>8, Kinds
<1>11. Apart' /\ Fewer
  BY <1>1, <1>9, <1>10, Kinds DEF PortInv, Apart, Fewer
<1>12. p_met' \subseteq Request /\ p_met' = p_met
  BY <1>1 DEF PortInv, TypeInv
<1> QED BY <1>1, <1>8, <1>9, <1>10, <1>11, <1>12, Bystanders

LEMMA StartAgainKeeps == ASSUME Assumed, PortInv, NEW b \in Name, P!Start(b) PROVE PortInv'
<1>1. /\ box[b].here /\ P!Holders(b, box[b].ports) = {}
      /\ box' = [box EXCEPT ![b].up = TRUE] /\ ran' = ran \cup {b} /\ raced' = raced
      /\ UNCHANGED <<file, p_pc, p_job, got, tries, p_jobs, p_met, lost>>
  BY DEF P!Start
<1>2. b \in P!Box /\ b # Proxy /\ b # Project
  BY Kinds
<1>3. /\ Boxes' /\ Apart' /\ Fewer
      /\ \A c \in P!Box : box'[c].ports = box[c].ports /\ box'[c].listed = box[c].listed
                        /\ box'[c].here = box[c].here /\ (c # b => box'[c].up = box[c].up)
  BY <1>1, <1>2, GoesUp
<1>4. box'[Proxy] = box[Proxy] /\ box'[Project] = box[Project]
  BY <1>1, <1>2 DEF PortInv, TypeInv, Boxes
<1>5. p_met' \subseteq Request /\ p_met' = p_met
  BY <1>1 DEF PortInv, TypeInv
<1> QED BY <1>1, <1>3, <1>4, <1>5, Bystanders

LEMMA DestroyKeeps == ASSUME Assumed, PortInv, NEW b \in Name, P!Destroy(b) PROVE PortInv'
<1>1. /\ box' = [box EXCEPT ![b] = P!NoBox] /\ raced' = raced \ {b} /\ ran' = ran \ {b}
      /\ UNCHANGED <<file, p_pc, p_job, got, tries, p_jobs, p_met, lost>>
  BY DEF P!Destroy
<1>2. b \in P!Box /\ b # Proxy /\ b # Project
  BY Kinds
<1>3. Boxes' /\ Apart' /\ Fewer /\ box'[b] = P!NoBox /\ \A c \in P!Box \ {b} : box'[c] = box[c]
  BY <1>1, <1>2, GoesAway
<1>4. box'[Proxy] = box[Proxy] /\ box'[Project] = box[Project]
  BY <1>2, <1>3, Kinds
<1>5. p_met' \subseteq Request /\ p_met' = p_met
  BY <1>1 DEF PortInv, TypeInv
<1>6. \A c \in P!Box : box'[c].listed => box[c].listed /\ box'[c].ports = box[c].ports
  BY <1>3, NoBoxIs
<1> QED BY <1>1, <1>3, <1>4, <1>5, <1>6, Bystanders

\* The invariant is inductive.
LEMMA NextPortInv == Assumed /\ PortInv /\ [P!Next]_(P!vars) => PortInv'
<1> SUFFICES ASSUME Assumed, PortInv, [P!Next]_(P!vars) PROVE PortInv'
  OBVIOUS
<1>1. CASE UNCHANGED P!vars
  <2>1. UNCHANGED <<box, file, p_pc, p_job, got, tries, p_jobs, p_met, raced, ran, lost>>
    BY <1>1 DEF P!vars, P!history
  <2>2. TypeInv'
    BY <2>1 DEF PortInv, TypeInv, Boxes, Threads, Stage
  <2>3. Crossed' /\ Marked' /\ Owned' /\ Away' /\ Apart' /\ lost' \subseteq p_met'
    BY <2>1 DEF PortInv, Crossed, Marked, Owned, Away, Apart, P!Busy
  <2>4. Lones'
    BY <2>1 DEF PortInv, Lones, Lone, P!Busy, Clear, P!Used, P!Twice
  <2> QED BY <2>2, <2>3, <2>4 DEF PortInv
<1>2. ASSUME NEW r \in Request, P!BeginCreate(r) \/ P!BeginDeploy(r) \/ P!BeginEnsure(r) PROVE PortInv'
  BY <1>2, BeginsKeep
<1>3. ASSUME NEW r \in Request, P!Serve(r) PROVE PortInv'
  BY <1>3, ReadKeeps, CreateKeeps, StartKeeps, StartFailsKeeps, RemoveKeeps, UpKeeps, RemapKeeps
     DEF P!Serve
<1>4. ASSUME NEW b \in Name, P!Stop(b) \/ P!Start(b) \/ P!Destroy(b) PROVE PortInv'
  BY <1>4, StopKeeps, StartAgainKeeps, DestroyKeeps
<1>5. CASE P!UpAgain \/ P!Down
  BY <1>5, UpAgainKeeps, DownKeeps
<1> QED BY <1>1, <1>2, <1>3, <1>4, <1>5 DEF P!Next

LEMMA PortsHold == ASSUME Assumed PROVE P!Spec => []PortInv
<1>1. P!Init => PortInv
  BY InitPortInv
<1>2. PortInv /\ [P!Next]_(P!vars) => PortInv'
  BY NextPortInv
<1> QED BY <1>1, <1>2, PTL DEF P!Spec

(* Ports' variables keep their types; a request is idle exactly when it has *)
(* no job (docker_interface.py:104, 690).                                   *)
THEOREM PortsTyped == ASSUME Assumed PROVE P!Spec => []P!TypeOK
<1>1. PortInv => P!TypeOK
  BY TypeInvIsType DEF PortInv
<1> QED BY <1>1, PortsHold, PTL

(* Two containers that have run share no port unless the requests that made *)
(* both met others (docker_interface.py:70, 1104).                          *)
THEOREM PortsStayApart == ASSUME Assumed PROVE P!Spec => []PortsApart
<1>1. PortInv => PortsApart
  BY PortInvShows DEF PortsApart
<1> QED BY <1>1, PortsHold, PTL

(* A request that met no other never fails for a port that Docker has given *)
(* to another container (docker_interface.py:104, 172, 690).                *)
THEOREM NobodyAloneFails == ASSUME Assumed PROVE P!Spec => []LoneSucceeds
<1>1. PortInv => LoneSucceeds
  BY PortInvShows DEF LoneSucceeds
<1> QED BY <1>1, PortsHold, PTL

-----------------------------------------------------------------------------
(* Capacity: sums of what rows record.                                      *)

\* What rows record, and the memory that containers are given.
Amounts(S) == \A w \in S : w.cpu \in Nat /\ w.mb \in Nat /\ w.mem \in Nat
MemOf(S) == C!MapThenSumSet(LAMBDA w : w.mem, S)

\* The sums of the instance are sums of functions.
LEMMA SumsAre ==
    ASSUME NEW S, IsFiniteSet(S), Amounts(S)
    PROVE  /\ C!Sum(S).cpu = SumOf([w \in S |-> w.cpu], S)
           /\ C!Sum(S).mb = SumOf([w \in S |-> w.mb], S)
           /\ MemOf(S) = SumOf([w \in S |-> w.mem], S)
<1>1. ASSUME NEW f, f = [w \in S |-> w.cpu]
      PROVE  C!MapThenSumSet(LAMBDA w : w.cpu, S) = SumOf(f, S)
  <2> DEFINE By(i) == i = [s \in SUBSET S |-> IF s = {} THEN 0 ELSE Chosen(s).cpu + i[s \ {Chosen(s)}]]
             j == CHOOSE i : By(i)
  <2>0. \A c \in S : f[c] \in Int
    BY <1>1 DEF Amounts
  <2>1. \E k : Totals(f, S, k)
    BY <2>0, TotalsExist
  <2>2. \A s \in SUBSET S : s # {} => f[Chosen(s)] = Chosen(s).cpu
    BY <1>1 DEF Chosen
  <2>3. \A i : By(i) <=> Totals(f, S, i)
    BY <2>2 DEF Totals
  <2>4. By(j)
    BY <2>1, <2>3
  <2>5. C!MapThenSumSet(LAMBDA w : w.cpu, S) = j[S]
    BY DEF C!MapThenSumSet, C!MapThenFoldSet, Chosen
  <2>6. PICK i : Tallies(f, S, i)
    BY <2>0, SumIsTotal
  <2>7. Totals(f, S, i) /\ SumOf(f, S) = i[S]
    BY <2>6 DEF Tallies
  <2>8. Totals(f, S, j)
    BY <2>3, <2>4
  <2> HIDE DEF j
  <2>9. j[S] = i[S]
    BY <2>7, <2>8, TotalsAgree
  <2> QED BY <2>5, <2>7, <2>9
<1>2. ASSUME NEW f, f = [w \in S |-> w.mb]
      PROVE  C!MapThenSumSet(LAMBDA w : w.mb, S) = SumOf(f, S)
  <2> DEFINE By(i) == i = [s \in SUBSET S |-> IF s = {} THEN 0 ELSE Chosen(s).mb + i[s \ {Chosen(s)}]]
             j == CHOOSE i : By(i)
  <2>0. \A c \in S : f[c] \in Int
    BY <1>2 DEF Amounts
  <2>1. \E k : Totals(f, S, k)
    BY <2>0, TotalsExist
  <2>2. \A s \in SUBSET S : s # {} => f[Chosen(s)] = Chosen(s).mb
    BY <1>2 DEF Chosen
  <2>3. \A i : By(i) <=> Totals(f, S, i)
    BY <2>2 DEF Totals
  <2>4. By(j)
    BY <2>1, <2>3
  <2>5. C!MapThenSumSet(LAMBDA w : w.mb, S) = j[S]
    BY DEF C!MapThenSumSet, C!MapThenFoldSet, Chosen
  <2>6. PICK i : Tallies(f, S, i)
    BY <2>0, SumIsTotal
  <2>7. Totals(f, S, i) /\ SumOf(f, S) = i[S]
    BY <2>6 DEF Tallies
  <2>8. Totals(f, S, j)
    BY <2>3, <2>4
  <2> HIDE DEF j
  <2>9. j[S] = i[S]
    BY <2>7, <2>8, TotalsAgree
  <2> QED BY <2>5, <2>7, <2>9
<1>3. ASSUME NEW f, f = [w \in S |-> w.mem]
      PROVE  C!MapThenSumSet(LAMBDA w : w.mem, S) = SumOf(f, S)
  <2> DEFINE By(i) == i = [s \in SUBSET S |-> IF s = {} THEN 0 ELSE Chosen(s).mem + i[s \ {Chosen(s)}]]
             j == CHOOSE i : By(i)
  <2>0. \A c \in S : f[c] \in Int
    BY <1>3 DEF Amounts
  <2>1. \E k : Totals(f, S, k)
    BY <2>0, TotalsExist
  <2>2. \A s \in SUBSET S : s # {} => f[Chosen(s)] = Chosen(s).mem
    BY <1>3 DEF Chosen
  <2>3. \A i : By(i) <=> Totals(f, S, i)
    BY <2>2 DEF Totals
  <2>4. By(j)
    BY <2>1, <2>3
  <2>5. C!MapThenSumSet(LAMBDA w : w.mem, S) = j[S]
    BY DEF C!MapThenSumSet, C!MapThenFoldSet, Chosen
  <2>6. PICK i : Tallies(f, S, i)
    BY <2>0, SumIsTotal
  <2>7. Totals(f, S, i) /\ SumOf(f, S) = i[S]
    BY <2>6 DEF Tallies
  <2>8. Totals(f, S, j)
    BY <2>3, <2>4
  <2> HIDE DEF j
  <2>9. j[S] = i[S]
    BY <2>7, <2>8, TotalsAgree
  <2> QED BY <2>5, <2>7, <2>9
<1> QED BY <1>1, <1>2, <1>3 DEF C!Sum, MemOf

\* A sum of numbers that are not negative is not negative.
LEMMA SumNat ==
    ASSUME NEW S, IsFiniteSet(S), NEW f, \A c \in S : f[c] \in Nat
    PROVE  SumOf(f, S) \in Nat
<1> DEFINE D == {s \in SUBSET S : SumOf(f, s) \notin Nat}
<1> SUFFICES ASSUME D # {} PROVE FALSE
  OBVIOUS
<1>1. PICK s \in D : \A t \in D : t \subseteq s => t = s
  <2>1. D \in SUBSET SUBSET S
    OBVIOUS
  <2> HIDE DEF D
  <2> QED BY <2>1, Smallest
<1>2. IsFiniteSet(s) /\ \A c \in s : f[c] \in Int
  BY <1>1, FS_Subset
<1>3. SumOf(f, {}) = 0 /\ \A c \in s : SumOf(f, s) = f[c] + SumOf(f, s \ {c})
  BY <1>2, SumSplits
<1>4. PICK c \in s : TRUE
  <2>1. SumOf(f, s) \notin Nat
    BY <1>1
  <2> HIDE DEF D
  <2>2. s # {}
    BY <1>3, <2>1
  <2> QED BY <2>2
<1>5. s \ {c} \notin D
  BY <1>1, <1>4
<1>6. f[c] \in Nat /\ SumOf(f, s \ {c}) \in Nat
  BY <1>1, <1>4, <1>5
<1> QED BY <1>1, <1>3, <1>4, <1>6

\* What it takes to sum rows one by one.
LEMMA RowsSum ==
    ASSUME NEW S, IsFiniteSet(S), Amounts(S)
    PROVE  /\ C!Sum(S) \in [cpu : Nat, mb : Nat] /\ MemOf(S) \in Nat
           /\ \A c \in S : /\ C!Sum(S) = C!Plus(C!Sum(S \ {c}), c)
                           /\ MemOf(S) = MemOf(S \ {c}) + c.mem
<1> DEFINE f == [w \in S |-> w.cpu]
           g == [w \in S |-> w.mb]
           h == [w \in S |-> w.mem]
<1>1. /\ C!Sum(S).cpu = SumOf(f, S) /\ C!Sum(S).mb = SumOf(g, S) /\ MemOf(S) = SumOf(h, S)
  BY SumsAre
<1>2. C!Sum(S) = [cpu |-> C!Sum(S).cpu, mb |-> C!Sum(S).mb]
  BY DEF C!Sum
<1>3. \A c \in S : f[c] \in Nat /\ g[c] \in Nat /\ h[c] \in Nat
  BY DEF Amounts
<1>4. SumOf(f, S) \in Nat /\ SumOf(g, S) \in Nat /\ SumOf(h, S) \in Nat
  <2> HIDE DEF f, g, h
  <2> QED BY <1>3, SumNat
<1>5. ASSUME NEW c \in S
      PROVE  /\ C!Sum(S) = C!Plus(C!Sum(S \ {c}), c)
             /\ MemOf(S) = MemOf(S \ {c}) + c.mem
  <2> DEFINE R == S \ {c}
             fr == [w \in R |-> w.cpu]
             gr == [w \in R |-> w.mb]
             hr == [w \in R |-> w.mem]
  <2>1. IsFiniteSet(R) /\ Amounts(R)
    BY FS_Subset DEF Amounts
  <2>2. /\ C!Sum(R).cpu = SumOf(fr, R) /\ C!Sum(R).mb = SumOf(gr, R) /\ MemOf(R) = SumOf(hr, R)
    <3> HIDE DEF R
    <3> QED BY <2>1, SumsAre
  <2>3. \A w \in R : /\ fr[w] \in Int /\ gr[w] \in Int /\ hr[w] \in Int
                     /\ fr[w] = f[w] /\ gr[w] = g[w] /\ hr[w] = h[w]
    BY <1>3
  <2>4. f[c] = c.cpu /\ g[c] = c.mb /\ h[c] = c.mem /\ c.cpu \in Int /\ c.mb \in Int /\ c.mem \in Int
    BY <1>3
  <2>5. \A w \in S : f[w] \in Int /\ g[w] \in Int /\ h[w] \in Int
    BY <1>3
  <2> HIDE DEF f, g, h, fr, gr, hr
  <2>6. /\ SumOf(fr, R) = SumOf(f, R) /\ SumOf(gr, R) = SumOf(g, R) /\ SumOf(hr, R) = SumOf(h, R)
    <3> HIDE DEF R
    <3> QED BY <2>1, <2>3, SumSame
  <2>7. /\ SumOf(f, S) = f[c] + SumOf(f, R) /\ SumOf(g, S) = g[c] + SumOf(g, R)
        /\ SumOf(h, S) = h[c] + SumOf(h, R)
    BY <2>5, SumSplits
  <2>8. SumOf(f, R) \in Int /\ SumOf(g, R) \in Int /\ SumOf(h, R) \in Int
    <3>1. \A w \in R : f[w] \in Int /\ g[w] \in Int /\ h[w] \in Int
      BY <2>5
    <3> HIDE DEF R
    <3> QED BY <2>1, <3>1, SumSplits
  <2> HIDE DEF R
  <2>9. /\ C!Sum(S).cpu = C!Sum(R).cpu + c.cpu /\ C!Sum(S).mb = C!Sum(R).mb + c.mb
        /\ MemOf(S) = MemOf(R) + c.mem
    BY <1>1, <2>2, <2>4, <2>6, <2>7, <2>8
  <2>10. C!Sum(S) = C!Plus(C!Sum(R), c)
    BY <1>2, <2>9 DEF C!Plus
  <2> QED BY <2>9, <2>10 DEF R
<1> HIDE DEF f, g, h
<1>6. MemOf(S) \in Nat /\ C!Sum(S) \in [cpu : Nat, mb : Nat]
  BY <1>1, <1>2, <1>4
<1> QED BY <1>5, <1>6

\* Nothing sums up to nothing.
LEMMA NoRowsSum == C!Sum({}) = C!Nothing /\ MemOf({}) = 0
<1> DEFINE e == {}
<1>1. IsFiniteSet(e) /\ Amounts(e)
  BY FS_EmptySet DEF Amounts
<1>2. /\ C!Sum(e).cpu = SumOf([w \in e |-> w.cpu], e) /\ C!Sum(e).mb = SumOf([w \in e |-> w.mb], e)
      /\ MemOf(e) = SumOf([w \in e |-> w.mem], e)
  BY <1>1, SumsAre
<1>3. \A f : SumOf(f, e) = 0
  BY <1>1, SumSplits
<1>4. C!Sum(e) = [cpu |-> C!Sum(e).cpu, mb |-> C!Sum(e).mb]
  BY DEF C!Sum
<1> QED BY <1>2, <1>3, <1>4 DEF C!Nothing

\* Fewer rows record no more.
LEMMA SumLess ==
    ASSUME NEW S, IsFiniteSet(S), Amounts(S), NEW T \in SUBSET S
    PROVE  C!Sum(T).cpu <= C!Sum(S).cpu /\ C!Sum(T).mb <= C!Sum(S).mb
<1> DEFINE Less(s) == C!Sum(T).cpu <= C!Sum(s).cpu /\ C!Sum(T).mb <= C!Sum(s).mb
           D == {s \in SUBSET S : T \subseteq s /\ ~Less(s)}
<1> SUFFICES ASSUME D # {} PROVE FALSE
  OBVIOUS
<1>1. PICK s \in D : \A t \in D : t \subseteq s => t = s
  <2>1. D \in SUBSET SUBSET S
    OBVIOUS
  <2> HIDE DEF D
  <2> QED BY <2>1, Smallest
<1>2. /\ IsFiniteSet(s) /\ Amounts(s) /\ T \subseteq s /\ ~Less(s)
      /\ \A c \in s : IsFiniteSet(s \ {c}) /\ Amounts(s \ {c})
      /\ IsFiniteSet(T) /\ Amounts(T)
  BY <1>1, FS_Subset DEF Amounts
<1>3. C!Sum(s) \in [cpu : Nat, mb : Nat] /\ C!Sum(T) \in [cpu : Nat, mb : Nat]
  BY <1>2, RowsSum
<1>4. s # T
  BY <1>2, <1>3
<1>5. PICK c \in s : c \notin T
  BY <1>2, <1>4
<1>6. Less(s \ {c})
  BY <1>1, <1>2, <1>5
<1>7. C!Sum(s) = C!Plus(C!Sum(s \ {c}), c) /\ C!Sum(s \ {c}) \in [cpu : Nat, mb : Nat]
  BY <1>2, RowsSum
<1>8. c.cpu \in Nat /\ c.mb \in Nat
  BY <1>2 DEF Amounts
<1>9. /\ C!Sum(s).cpu = C!Sum(s \ {c}).cpu + c.cpu /\ C!Sum(s).mb = C!Sum(s \ {c}).mb + c.mb
  BY <1>7 DEF C!Plus
<1> HIDE DEF D
<1> QED BY <1>2, <1>3, <1>6, <1>7, <1>8, <1>9

\* What two sets of rows record adds up.
LEMMA SumApart ==
    ASSUME NEW S, IsFiniteSet(S), Amounts(S), NEW T \in SUBSET S, NEW U \in SUBSET S, T \cap U = {}
    PROVE  C!Sum(T \cup U) = C!Plus(C!Sum(T), C!Sum(U))
<1> DEFINE Adds(u) == C!Sum(T \cup u) = C!Plus(C!Sum(T), C!Sum(u))
           D == {u \in SUBSET U : ~Adds(u)}
<1> SUFFICES ASSUME D # {} PROVE FALSE
  OBVIOUS
<1>0. IsFiniteSet(U) /\ IsFiniteSet(T) /\ Amounts(T) /\ C!Sum(T) \in [cpu : Nat, mb : Nat]
  BY FS_Subset, RowsSum DEF Amounts
<1>1. PICK u \in D : \A t \in D : t \subseteq u => t = u
  <2>1. D \in SUBSET SUBSET U
    OBVIOUS
  <2> HIDE DEF D
  <2> QED BY <1>0, <2>1, Smallest
<1>2. u # {}
  <2> SUFFICES ASSUME u = {} PROVE FALSE
    OBVIOUS
  <2>1. C!Sum(T) = C!Plus(C!Sum(T), C!Nothing)
    BY <1>0 DEF C!Plus, C!Nothing
  <2>2. T \cup u = T
    OBVIOUS
  <2> QED BY <1>1, <2>1, <2>2, NoRowsSum
<1>3. PICK c \in u : TRUE
  BY <1>2
<1> DEFINE v == u \ {c}
           W == T \cup u
<1>4. Adds(v)
  BY <1>1, <1>3
<1>5. /\ c \in W /\ c \in u /\ W \ {c} = T \cup v /\ u \subseteq S /\ W \subseteq S
      /\ T \cup v \subseteq S /\ v \subseteq S
  BY <1>1, <1>3
<1>6. /\ IsFiniteSet(W) /\ Amounts(W) /\ IsFiniteSet(u) /\ Amounts(u)
      /\ IsFiniteSet(v) /\ Amounts(v) /\ IsFiniteSet(T \cup v) /\ Amounts(T \cup v)
  <2> HIDE DEF W, v, D
  <2> QED BY <1>5, FS_Subset DEF Amounts
<1>7. C!Sum(W) = C!Plus(C!Sum(T \cup v), c) /\ C!Sum(u) = C!Plus(C!Sum(v), c)
  <2>1. C!Sum(W) = C!Plus(C!Sum(W \ {c}), c)
    BY <1>5, <1>6, RowsSum
  <2> QED BY <1>5, <1>6, <2>1, RowsSum
<1>8. C!Sum(v) \in [cpu : Nat, mb : Nat]
  BY <1>6, RowsSum
<1>9. c.cpu \in Nat /\ c.mb \in Nat
  BY <1>5, <1>6 DEF Amounts
<1> HIDE DEF v, W
<1>10. C!Sum(W) = C!Plus(C!Sum(T), C!Sum(u))
  <2>1. ASSUME NEW a \in [cpu : Nat, mb : Nat], NEW b \in [cpu : Nat, mb : Nat]
        PROVE  C!Plus(C!Plus(a, b), c) = C!Plus(a, C!Plus(b, c))
    BY <1>9 DEF C!Plus
  <2>2. C!Sum(T \cup v) = C!Plus(C!Sum(T), C!Sum(v))
    BY <1>4
  <2> QED BY <1>0, <1>7, <1>8, <2>1, <2>2
<1> QED BY <1>1, <1>10 DEF W

\* Whole MiB recorded for each row bound what containers are given.
LEMMA MemNear ==
    ASSUME NEW S, IsFiniteSet(S), Amounts(S), \A w \in S : w.mem <= 2 * w.mb + 1
    PROVE  MemOf(S) <= 2 * C!Sum(S).mb + Cardinality(S)
<1> DEFINE Near(s) == MemOf(s) <= 2 * C!Sum(s).mb + Cardinality(s)
           D == {s \in SUBSET S : ~Near(s)}
<1> SUFFICES ASSUME D # {} PROVE FALSE
  OBVIOUS
<1>1. PICK s \in D : \A t \in D : t \subseteq s => t = s
  <2>1. D \in SUBSET SUBSET S
    OBVIOUS
  <2> HIDE DEF D
  <2> QED BY <2>1, Smallest
<1>2. s # {}
  <2>1. Near({})
    BY NoRowsSum, FS_EmptySet DEF C!Nothing
  <2> QED BY <1>1, <2>1
<1>3. PICK c \in s : TRUE
  BY <1>2
<1> DEFINE v == s \ {c}
<1>4. Near(v)
  BY <1>1, <1>3
<1>5. /\ IsFiniteSet(s) /\ Amounts(s) /\ IsFiniteSet(v) /\ Amounts(v) /\ Cardinality(v) \in Nat
      /\ Cardinality(s) = Cardinality(v) + 1
  <2>1. IsFiniteSet(s) /\ Amounts(s)
    BY <1>1, FS_Subset DEF Amounts
  <2>2. IsFiniteSet(v) /\ Amounts(v) /\ Cardinality(v) = Cardinality(s) - 1
    BY <1>3, <2>1, FS_RemoveElement DEF Amounts
  <2>3. Cardinality(v) \in Nat /\ Cardinality(s) \in Nat
    BY <2>1, <2>2, FS_CardinalityType
  <2> HIDE DEF v
  <2> QED BY <2>1, <2>2, <2>3
<1>6. C!Sum(s) = C!Plus(C!Sum(v), c) /\ MemOf(s) = MemOf(v) + c.mem
  BY <1>3, <1>5, RowsSum
<1>7. C!Sum(v) \in [cpu : Nat, mb : Nat] /\ MemOf(v) \in Nat
  BY <1>5, RowsSum
<1>8. c.mb \in Nat /\ c.mem \in Nat /\ c.mem <= 2 * c.mb + 1
  BY <1>1, <1>3, <1>5 DEF Amounts
<1>9. C!Sum(s).mb = C!Sum(v).mb + c.mb
  BY <1>6 DEF C!Plus
<1>10. ~Near(s)
  BY <1>1
<1> HIDE DEF v, D
<1> QED BY <1>4, <1>5, <1>6, <1>7, <1>8, <1>9, <1>10
-----------------------------------------------------------------------------
(* Capacity: the invariant.                                                 *)

\* What Capacity assumes of its constants.
Given == C!AskAssumption /\ C!HostAssumption /\ C!LimitAssumption /\ C!BoundAssumption

\* The host of a lab.
HostOf(l) == labs[l].host

LabType == [host : Host, failed : BOOLEAN,
            cpu : Nat \cup {C!NoLimit}, mb : Nat \cup {C!NoLimit}]

\* Labs and rows; keys are unique and older than next, and what a container is
\* given is recorded but for a remainder.
Tables ==
    /\ labs \in Seq(LabType) /\ Len(labs) <= MaxLabs
    /\ next \in Nat \ {0} /\ rows \subseteq C!RowType /\ IsFiniteSet(rows)
    /\ \A w \in rows : w.pk < next /\ w.mem <= 2 * w.mb + 1
    /\ \A v, w \in rows : v.pk = w.pk => v = w
    /\ \A l \in C!Lab : C!Unbounded(HostOf(l)) =>
           labs[l].cpu = C!NoLimit /\ labs[l].mb = C!NoLimit

\* Requests have what their functions say.
Shape ==
    /\ c_pc \in [Request -> {"idle", "consider", "lab", "host", "write",
                             "consider_host", "room", "insert"}]
    /\ DOMAIN c_job = Request /\ DOMAIN lab = Request /\ DOMAIN row = Request
    /\ DOMAIN c_todo = Request /\ DOMAIN sum = Request /\ DOMAIN choice = Request
    /\ c_jobs \in 0..MaxDeployments /\ undisturbed \subseteq Request

\* What a request holds where it stands.
Holds(r) ==
    /\ row[r] = C!NoRow \/ (row[r] \in C!RowType /\ row[r].pk < next)
    /\ sum[r] \in C!Amount
    /\ c_pc[r] = "idle" => c_job[r] = C!NoJob
    /\ c_pc[r] \in {"consider", "lab", "host", "write"} =>
           c_job[r].op = "deploy" /\ c_job[r].payload \in C!Payload
    /\ C!Deploying(r) => lab[r] \in C!Lab /\ (row[r] = C!NoRow \/ row[r].lab = lab[r])
    /\ ~C!Deploying(r) => row[r] = C!NoRow
    /\ c_pc[r] \in {"consider_host", "room", "insert"} =>
           c_job[r].op = "create" /\ c_job[r].limit \in LabLimit /\ c_job[r].failed \in BOOLEAN
    /\ c_pc[r] \in {"room", "insert"} => c_job[r].host \in Host

\* What it has still to read, and may choose from.
Reads(r) ==
    /\ c_pc[r] \in {"idle", "lab", "write", "insert"} => c_todo[r] = {}
    /\ c_pc[r] \in {"consider", "host", "room"} => c_todo[r] \subseteq C!Lab
    /\ c_pc[r] = "consider_host" =>
           c_todo[r] \subseteq Host /\ \A c \in choice[r] : c.host \in Host
    /\ c_pc[r] = "consider" => \A c \in choice[r] : c.id \in C!Lab
    /\ c_pc[r] \notin {"consider", "consider_host"} => choice[r] = {}

\* Deployments that meet are noted, with their labs and hosts.
Mixes ==
    /\ mixedLabs \subseteq C!Lab /\ mixedHosts \subseteq Host
    /\ \A l \in mixedLabs : HostOf(l) \in mixedHosts

\* Two deployments that share a lab or a host are noted.
Pair(q, r) ==
    C!Deploying(q) /\ C!Deploying(r) =>
        /\ lab[q] = lab[r] => lab[r] \in mixedLabs
        /\ HostOf(lab[q]) = HostOf(lab[r]) => HostOf(lab[r]) \in mixedHosts

\* The row under the key of the row to replace: of the same lab, and the one the
\* deployment has read unless others were at work there.
Knows(r) ==
    C!Deploying(r) /\ row[r] # C!NoRow =>
        \A w \in rows : w.pk = row[r].pk =>
            w.lab = lab[r] /\ (lab[r] \notin mixedLabs => w = row[r])

\* The row to replace is still there, as it was read.
Sound(r) == row[r] = C!NoRow \/ row[r] \in rows

\* What the deployment is given.
Grant(r) == C!Effective(HostOf(lab[r]), c_job[r].payload.ask)

\* What was checked still holds: the rest of the rows leaves room for the new one.
LabPromise(r) ==
    c_pc[r] \in {"host", "write"} /\ lab[r] \notin mixedLabs /\ Sound(r) =>
        C!Within(C!Plus(C!Sum(C!RowsOf(lab[r]) \ {row[r]}), Grant(r)), labs[lab[r]])

\* So for the host, if it is bounded.
HostPromise(r) ==
    \A h \in Host \ mixedHosts :
        c_pc[r] = "write" /\ h = HostOf(lab[r]) /\ Sound(r) /\ ~C!Unbounded(h) =>
            C!Within(C!Plus(C!Sum(C!RowsOn(h) \ {row[r]}), Grant(r)), HostTotal[h])

\* The labs a request has summed have no more now.
HostRead(r) ==
    \A h \in Host \ mixedHosts :
        c_pc[r] = "host" /\ h = HostOf(lab[r]) =>
            \A s \in C!Amount : s = C!Sum({w \in C!RowsOn(h) : w.lab \notin c_todo[r]}) =>
                s.cpu <= sum[r].cpu /\ s.mb <= sum[r].mb

\* What a deployment relies on.
Promises(r) == Knows(r) /\ LabPromise(r) /\ HostPromise(r) /\ HostRead(r)

\* The inductive invariant.
CapInv ==
    /\ Tables /\ Shape /\ Mixes
    /\ \A r \in Request : Holds(r) /\ Reads(r) /\ Promises(r)
    /\ \A q, r \in Request : q # r => Pair(q, r)
    /\ C!LabsKept /\ C!HostsKept

\* What the tables are like.
LEMMA TablesSay ==
    ASSUME Given, Tables
    PROVE  /\ \A w \in rows : /\ w.pk \in Nat \ {0} /\ w.lab \in C!Lab /\ HostOf(w.lab) \in Host
                              /\ w.cpu \in Nat /\ w.mb \in Nat /\ w.mem \in Nat
           /\ C!NoRow \notin rows
           /\ \A l \in C!Lab : /\ labs[l] \in LabType /\ HostOf(l) \in Host
                               /\ labs[l].cpu \in Nat \cup {C!NoLimit}
                               /\ labs[l].mb \in Nat \cup {C!NoLimit}
           /\ \A h \in Host : HostTotal[h].cpu \in Nat /\ HostTotal[h].mb \in Nat
           /\ C!Lab = 1..Len(labs) /\ Len(labs) \in Nat
<1>1. Len(labs) \in Nat /\ C!Lab = 1..Len(labs)
  BY DEF Tables, C!Lab
<1>2. \A l \in C!Lab : labs[l] \in LabType
  BY <1>1 DEF Tables
<1>3. \A l \in C!Lab : /\ HostOf(l) \in Host
                       /\ labs[l].cpu \in Nat \cup {C!NoLimit}
                       /\ labs[l].mb \in Nat \cup {C!NoLimit}
  BY <1>2 DEF HostOf, LabType
<1>4. \A w \in rows : /\ w.pk \in Nat \ {0} /\ w.lab \in C!Lab
                      /\ w.cpu \in Nat /\ w.mb \in Nat /\ w.mem \in Nat
  BY DEF Tables, C!RowType
<1>5. C!NoRow \notin rows
  BY <1>4 DEF C!NoRow
<1>6. \A h \in Host : HostTotal[h].cpu \in Nat /\ HostTotal[h].mb \in Nat
  BY DEF Given, C!HostAssumption
<1> QED BY <1>1, <1>2, <1>3, <1>4, <1>5, <1>6

\* Any of the rows can be summed.
LEMMA RowsAreSummed ==
    ASSUME Given, Tables, NEW S \in SUBSET rows
    PROVE  IsFiniteSet(S) /\ Amounts(S) /\ C!Sum(S) \in [cpu : Nat, mb : Nat]
<1>1. IsFiniteSet(S) /\ Amounts(S)
  BY TablesSay, FS_Subset DEF Tables, Amounts
<1> QED BY <1>1, RowsSum

\* What a deployment is given.
LEMMA GrantIs ==
    ASSUME Given, NEW h, NEW ask \in Ask
    PROVE  /\ C!Effective(h, ask).cpu \in Nat /\ C!Effective(h, ask).mb \in Nat
           /\ C!Effective(h, ask).mem \in Nat
           /\ C!Effective(h, ask).mem <= 2 * C!Effective(h, ask).mb + 1
<1>1. ask.cpu \in Nat /\ ask.mem \in Nat
  BY DEF Given, C!AskAssumption
<1>2. ask.mem \div 2 \in Nat /\ ask.mem <= 2 * (ask.mem \div 2) + 1
  BY <1>1
<1> QED BY <1>1, <1>2 DEF C!Effective, C!InMiB

\* At first.
LEMMA InitCapInv == Given /\ C!Init => CapInv
<1> SUFFICES ASSUME Given, C!Init PROVE CapInv
  OBVIOUS
<1>0. MaxLabs \in Nat /\ MaxDeployments \in Nat
  BY DEF Given, C!BoundAssumption
<1>1. labs = <<>> /\ rows = {} /\ next = 1 /\ C!Lab = {}
  BY DEF C!Init, C!Lab
<1>2. Tables
  BY <1>0, <1>1, FS_EmptySet DEF Tables
<1>3. Shape
  BY <1>0 DEF C!Init, Shape
<1>4. Mixes
  BY DEF C!Init, Mixes
<1>5. \A r \in Request : /\ c_pc[r] = "idle" /\ c_job[r] = C!NoJob /\ row[r] = C!NoRow
                         /\ sum[r] = C!Nothing /\ c_todo[r] = {} /\ choice[r] = {}
  BY DEF C!Init
<1>6. \A r \in Request : ~C!Deploying(r)
  BY <1>5 DEF C!Deploying
<1>7. \A r \in Request : Holds(r) /\ Reads(r)
  BY <1>5, <1>6 DEF Holds, Reads, C!Amount, C!Nothing
<1>8. \A r \in Request : Promises(r)
  BY <1>5, <1>6 DEF Promises, Knows, LabPromise, HostPromise, HostRead
<1>9. \A q, r \in Request : q # r => Pair(q, r)
  BY <1>6 DEF Pair
<1>10. C!LabsKept
  BY <1>1 DEF C!LabsKept
<1>11. C!HostsKept
  <2> SUFFICES ASSUME NEW h \in Host PROVE C!Within(C!Sum(C!RowsOn(h)), HostTotal[h])
    BY DEF C!HostsKept
  <2>1. C!RowsOn(h) = {}
    BY <1>1 DEF C!RowsOn
  <2>2. HostTotal[h].cpu \in Nat /\ HostTotal[h].mb \in Nat
    BY DEF Given, C!HostAssumption
  <2> QED BY <2>1, <2>2, NoRowsSum DEF C!Within, C!Nothing
<1> QED BY <1>2, <1>3, <1>4, <1>7, <1>8, <1>9, <1>10, <1>11 DEF CapInv
-----------------------------------------------------------------------------
(* Capacity: what stays as it is.                                           *)

\* A request takes no step.
SameAs(q) ==
    /\ c_pc'[q] = c_pc[q] /\ c_job'[q] = c_job[q] /\ lab'[q] = lab[q] /\ row'[q] = row[q]
    /\ c_todo'[q] = c_todo[q] /\ sum'[q] = sum[q] /\ choice'[q] = choice[q]

Beside(r) == \A q \in Request \ {r} : SameAs(q)

\* Labs and rows stay, and no more deployments have met than are noted.
Steady ==
    /\ labs' = labs /\ rows' = rows /\ next' = next
    /\ mixedLabs \subseteq mixedLabs' /\ mixedHosts \subseteq mixedHosts'

\* What follows from the labs and rows stays, too.
LEMMA SteadyIs ==
    ASSUME Steady
    PROVE  /\ C!Lab' = C!Lab /\ C!RowType' = C!RowType
           /\ \A l : C!RowsOf(l)' = C!RowsOf(l) /\ HostOf(l)' = HostOf(l)
           /\ \A h : C!RowsOn(h)' = C!RowsOn(h) /\ C!LabsOn(h)' = C!LabsOn(h)
BY DEF Steady, C!Lab, C!RowType, C!RowsOf, C!RowsOn, C!LabsOn, HostOf

\* Then who takes no step keeps what it has, and what it was promised.
LEMMA Bystander ==
    ASSUME Steady, NEW q \in Request, SameAs(q), Holds(q), Reads(q), Promises(q)
    PROVE  Holds(q)' /\ Reads(q)' /\ Promises(q)'
<1>1. Holds(q)'
  BY SteadyIs DEF SameAs, Holds, Steady, C!Deploying
<1>2. Reads(q)'
  BY SteadyIs DEF SameAs, Reads
<1>3. Knows(q)'
  BY DEF SameAs, Promises, Knows, Steady, C!Deploying
<1>4. PICK l : l = lab[q] /\ l = lab'[q]
  BY DEF SameAs
<1>5. C!RowsOf(l)' = C!RowsOf(l) /\ HostOf(l)' = HostOf(l) /\ C!RowsOf(lab[q])' = C!RowsOf(l)
  BY <1>4, SteadyIs
<1>6. Grant(q)' = Grant(q)
  BY DEF Grant, SameAs, HostOf, Steady
<1>7. Sound(q)' <=> Sound(q)
  BY DEF Sound, SameAs, Steady
<1>8. LabPromise(q)'
  <2> SUFFICES ASSUME c_pc'[q] \in {"host", "write"}, lab'[q] \notin mixedLabs', Sound(q)'
               PROVE  C!Within(C!Plus(C!Sum(C!RowsOf(lab[q])' \ {row'[q]}), Grant(q)'), labs'[lab'[q]])
    BY <1>4, <1>5 DEF LabPromise
  <2>1. C!Within(C!Plus(C!Sum(C!RowsOf(lab[q]) \ {row[q]}), Grant(q)), labs[lab[q]])
    BY <1>7 DEF SameAs, Steady, Promises, LabPromise
  <2> QED BY <1>4, <1>5, <1>6, <2>1 DEF SameAs, Steady
<1>9. HostPromise(q)'
  <2> SUFFICES ASSUME NEW h \in Host \ mixedHosts',
                      c_pc'[q] = "write", h = HostOf(lab[q])', Sound(q)', ~C!Unbounded(h)
               PROVE  C!Within(C!Plus(C!Sum(C!RowsOn(h)' \ {row'[q]}), Grant(q)'), HostTotal[h])
    BY DEF HostPromise, C!Unbounded
  <2>1. HostOf(lab[q])' = HostOf(lab[q]) /\ C!RowsOn(h)' = C!RowsOn(h)
    BY <1>4, <1>5, SteadyIs DEF HostOf, Steady
  <2>2. C!Within(C!Plus(C!Sum(C!RowsOn(h) \ {row[q]}), Grant(q)), HostTotal[h])
    BY <1>7, <2>1 DEF SameAs, Steady, Promises, HostPromise
  <2> QED BY <1>6, <2>1, <2>2 DEF SameAs
<1>10. HostRead(q)'
  <2> SUFFICES ASSUME NEW h \in Host \ mixedHosts', c_pc'[q] = "host", h = HostOf(lab[q])',
                      NEW s \in C!Amount,
                      s = C!Sum({w \in C!RowsOn(h)' : w.lab \notin c_todo'[q]})
               PROVE  s.cpu <= sum'[q].cpu /\ s.mb <= sum'[q].mb
    BY DEF HostRead, C!Amount
  <2>1. HostOf(lab[q])' = HostOf(lab[q]) /\ C!RowsOn(h)' = C!RowsOn(h)
    BY <1>4, <1>5, SteadyIs DEF HostOf, Steady
  <2>2. h \in Host \ mixedHosts /\ c_pc[q] = "host" /\ h = HostOf(lab[q])
        /\ s = C!Sum({w \in C!RowsOn(h) : w.lab \notin c_todo[q]})
    BY <2>1 DEF SameAs, Steady
  <2>3. s.cpu <= sum[q].cpu /\ s.mb <= sum[q].mb
    BY <2>2 DEF Promises, HostRead
  <2> QED BY <2>3 DEF SameAs
<1> QED BY <1>1, <1>2, <1>3, <1>8, <1>9, <1>10 DEF Promises

\* The tables, and what the labs and hosts keep to, stay.
LEMMA SteadyTables ==
    ASSUME Steady, Tables, C!LabsKept, C!HostsKept
    PROVE  Tables' /\ C!LabsKept' /\ C!HostsKept'
<1>1. Tables'
  BY SteadyIs DEF Tables, Steady, HostOf, C!Unbounded
<1>2. C!LabsKept'
  BY SteadyIs DEF Steady, C!LabsKept
<1>3. C!HostsKept'
  BY SteadyIs DEF Steady, C!HostsKept, C!Unbounded
<1> QED BY <1>1, <1>2, <1>3

\* Two deployments that met stay so.
LEMMA PairStays ==
    ASSUME Steady, NEW q \in Request, NEW r \in Request, Pair(q, r),
           C!Deploying(q)' => C!Deploying(q) /\ lab'[q] = lab[q],
           C!Deploying(r)' => C!Deploying(r) /\ lab'[r] = lab[r]
    PROVE  Pair(q, r)'
<1> SUFFICES ASSUME C!Deploying(q)', C!Deploying(r)'
             PROVE  /\ lab'[q] = lab'[r] => lab'[r] \in mixedLabs'
                    /\ HostOf(lab[q])' = HostOf(lab[r])' => HostOf(lab[r])' \in mixedHosts'
  BY DEF Pair
<1>1. lab'[q] = lab[q] /\ lab'[r] = lab[r] /\ labs' = labs
  BY DEF Steady
<1> QED BY <1>1 DEF Pair, Steady, HostOf

\* A step of a request that begins no deployment.
LEMMA GoesOn ==
    ASSUME Given, CapInv, NEW r \in Request, Steady, Beside(r), Shape',
           mixedLabs' = mixedLabs, mixedHosts' = mixedHosts,
           C!Deploying(r)' => C!Deploying(r) /\ lab'[r] = lab[r],
           Holds(r)', Reads(r)', Promises(r)'
    PROVE  CapInv'
<1>1. Tables' /\ C!LabsKept' /\ C!HostsKept'
  BY SteadyTables DEF CapInv
<1>2. Mixes'
  BY SteadyIs DEF CapInv, Mixes, Steady
<1>3. ASSUME NEW q \in Request PROVE Holds(q)' /\ Reads(q)' /\ Promises(q)'
  <2>1. CASE q = r
    BY <2>1
  <2>2. CASE q # r
    BY <2>2, Bystander DEF CapInv, Beside
  <2> QED BY <2>1, <2>2
<1>4. \A q \in Request : C!Deploying(q)' => C!Deploying(q) /\ lab'[q] = lab[q]
  BY DEF Beside, SameAs, C!Deploying
<1>5. ASSUME NEW p \in Request, NEW q \in Request, p # q PROVE Pair(p, q)'
  BY <1>4, <1>5, PairStays DEF CapInv
<1> QED BY <1>1, <1>2, <1>3, <1>5 DEF CapInv

\* A step after which the request deploys nothing: it has no promises.
LEMMA Aside ==
    ASSUME Given, CapInv, NEW r \in Request, labs' = labs, rows' = rows, next' = next,
           mixedLabs' = mixedLabs, mixedHosts' = mixedHosts, Beside(r), Shape',
           ~C!Deploying(r)', Holds(r)', Reads(r)'
    PROVE  CapInv'
<1>1. Steady
  BY DEF Steady
<1>2. Promises(r)'
  BY DEF Promises, Knows, LabPromise, HostPromise, HostRead, C!Deploying
<1> QED BY <1>1, <1>2, GoesOn

-----------------------------------------------------------------------------
(* Capacity: steps that leave labs and rows alone.                          *)

\* A refusal leaves nothing behind.
LEMMA RefuseKeeps ==
    ASSUME Given, CapInv, NEW r \in Request, C!Refuse(r), c_todo[r] = {}, choice[r] = {}
    PROVE  CapInv'
<1> USE DEF CapInv
<1>1. Shape' /\ Beside(r)
  BY DEF Shape, Beside, SameAs, C!Refuse, C!Finish
<1>2. /\ c_pc'[r] = "idle" /\ c_job'[r] = C!NoJob /\ row'[r] = C!NoRow /\ sum'[r] = C!Nothing
      /\ c_todo'[r] = {} /\ choice'[r] = {}
  BY DEF Shape, C!Refuse, C!Finish
<1>3. ~C!Deploying(r)' /\ Holds(r)' /\ Reads(r)'
  BY <1>2 DEF C!Deploying, Holds, Reads, C!Amount, C!Nothing
<1> QED BY <1>1, <1>3, Aside DEF C!Refuse

\* The scheduler sets out.
LEMMA BeginScheduleKeeps ==
    ASSUME Given, CapInv, NEW r \in Request, C!BeginSchedule(r)
    PROVE  CapInv'
<1> USE DEF CapInv
<1>0. MaxDeployments \in Nat
  BY DEF Given, C!BoundAssumption
<1>1. Shape' /\ Beside(r)
  BY <1>0 DEF Shape, Beside, SameAs, C!BeginSchedule, C!Start
<1>2. PICK p \in C!Payload, m \in C!Method :
        c_job'[r] = [op |-> "deploy", payload |-> p, method |-> m]
  BY DEF Shape, C!BeginSchedule, C!Start
<1>3. /\ c_pc[r] = "idle" /\ c_pc'[r] = "consider" /\ c_todo'[r] = C!Lab
      /\ row'[r] = row[r] /\ sum'[r] = sum[r] /\ choice'[r] = choice[r] /\ C!Lab' = C!Lab
      /\ next' = next /\ labs' = labs
  BY DEF Shape, C!BeginSchedule, C!Start, C!Lab
<1>4. c_job'[r].op = "deploy" /\ c_job'[r].payload \in C!Payload
  BY <1>2
<1>5. ~C!Deploying(r)' /\ Holds(r)' /\ Reads(r)'
  BY <1>3, <1>4 DEF C!Deploying, Holds, Reads
<1> QED BY <1>1, <1>5, Aside DEF C!BeginSchedule

\* It notes what a lab has.
LEMMA ConsiderKeeps ==
    ASSUME Given, CapInv, NEW r \in Request, C!Consider(r)
    PROVE  CapInv'
<1> USE DEF CapInv
<1>1. Shape' /\ Beside(r)
  BY DEF Shape, Beside, SameAs, C!Consider
<1> DEFINE l == C!Min(c_todo[r])
<1>2. /\ c_pc[r] = "consider" /\ c_pc'[r] = "consider" /\ c_job'[r] = c_job[r]
      /\ row'[r] = row[r] /\ sum'[r] = sum[r] /\ labs' = labs /\ next' = next /\ C!Lab' = C!Lab
      /\ c_todo[r] # {} /\ c_todo[r] \subseteq C!Lab /\ c_todo'[r] = c_todo[r] \ {l}
  BY DEF Shape, C!Consider, C!Lab, Reads
<1>3. l \in C!Lab
  <2>1. c_todo[r] \in SUBSET Nat
    BY <1>2, TablesSay
  <2>2. PICK k \in c_todo[r] : \A j \in c_todo[r] : k <= j
    BY <1>2, <2>1, Least
  <2>3. l \in c_todo[r]
    BY <2>2 DEF C!Min
  <2> QED BY <1>2, <2>3
<1>4. \A c \in choice'[r] : c.id \in C!Lab
  <2>1. PICK u : u = C!Sum(C!RowsOf(l))
    OBVIOUS
  <2>2. choice'[r] = choice[r] \/ choice'[r] = choice[r] \cup {[id |-> l, used |-> u]}
    BY <2>1 DEF Shape, C!Consider
  <2> HIDE DEF l
  <2> QED BY <1>2, <1>3, <2>2 DEF Reads
<1> HIDE DEF l
<1>5. ~C!Deploying(r)' /\ Holds(r)' /\ Reads(r)'
  BY <1>2, <1>4 DEF C!Deploying, Holds, Reads
<1> QED BY <1>1, <1>5, Aside DEF C!Consider

\* A lab is asked for on a host.
LEMMA BeginCreateKeeps ==
    ASSUME Given, CapInv, NEW r \in Request, C!BeginCreate(r)
    PROVE  CapInv'
<1> USE DEF CapInv
<1>0. MaxDeployments \in Nat
  BY DEF Given, C!BoundAssumption
<1>1. Shape' /\ Beside(r)
  BY <1>0 DEF Shape, Beside, SameAs, C!BeginCreate, C!Start, C!history
<1>2. PICK j \in C!NewLab :
        /\ c_job'[r] = j
        /\ \/ c_pc'[r] = "insert" /\ c_todo'[r] = {}
           \/ c_pc'[r] = "room" /\ c_todo'[r] = C!LabsOn(j.host)
  BY DEF Shape, C!BeginCreate, C!Start
<1>3. c_job'[r].op = "create" /\ c_job'[r].limit \in LabLimit /\ c_job'[r].failed \in BOOLEAN
      /\ c_job'[r].host \in Host
  BY <1>2 DEF C!NewLab
<1>4. /\ c_pc[r] = "idle"
      /\ row'[r] = row[r] /\ sum'[r] = sum[r] /\ choice'[r] = choice[r] /\ C!Lab' = C!Lab
      /\ next' = next /\ labs' = labs
  BY DEF Shape, C!BeginCreate, C!Start, C!Lab
<1>5. \A h : C!LabsOn(h) \subseteq C!Lab
  BY DEF C!LabsOn
<1>6. ~C!Deploying(r)' /\ Holds(r)'
  BY <1>2, <1>3, <1>4 DEF C!Deploying, Holds
<1>7. Reads(r)'
  BY <1>2, <1>4, <1>5 DEF Reads
<1> QED BY <1>1, <1>4, <1>6, <1>7, Aside DEF C!BeginCreate, C!history

\* The room on its host is checked.
LEMMA CheckRoomKeeps ==
    ASSUME Given, CapInv, NEW r \in Request, C!CheckRoom(r)
    PROVE  CapInv'
<1> USE DEF CapInv
<1>1. c_pc[r] = "room" /\ c_todo[r] = {} /\ choice[r] = {}
  BY DEF C!CheckRoom, Reads
<1>2. CASE C!Refuse(r)
  BY <1>1, <1>2, RefuseKeeps
<1>3. CASE ~C!Refuse(r)
  <2>1. /\ c_pc' = [c_pc EXCEPT ![r] = "insert"]
        /\ UNCHANGED <<labs, rows, c_job, lab, row, c_todo, sum, choice, next, c_jobs,
                       mixedLabs, mixedHosts, undisturbed>>
    BY <1>3 DEF C!CheckRoom, C!history
  <2>2. Shape' /\ Beside(r) /\ c_pc'[r] = "insert"
    BY <2>1 DEF Shape, Beside, SameAs
  <2>3. ~C!Deploying(r)' /\ Holds(r)' /\ Reads(r)'
    BY <1>1, <2>1, <2>2 DEF C!Deploying, Holds, Reads
  <2> QED BY <2>1, <2>2, <2>3, Aside
<1> QED BY <1>2, <1>3

\* A lab is asked for on any host.
LEMMA BeginCreateScheduledKeeps ==
    ASSUME Given, CapInv, NEW r \in Request, C!BeginCreateScheduled(r)
    PROVE  CapInv'
<1> USE DEF CapInv
<1>0. MaxDeployments \in Nat
  BY DEF Given, C!BoundAssumption
<1>1. Shape' /\ Beside(r)
  BY <1>0 DEF Shape, Beside, SameAs, C!BeginCreateScheduled, C!Start, C!history
<1>2. c_job'[r].op = "create" /\ c_job'[r].limit \in LabLimit /\ c_job'[r].failed \in BOOLEAN
  BY DEF Shape, C!BeginCreateScheduled, C!Start
<1>3. /\ c_pc[r] = "idle" /\ c_pc'[r] = "consider_host" /\ c_todo'[r] = Host
      /\ row'[r] = row[r] /\ sum'[r] = sum[r] /\ choice'[r] = choice[r]
      /\ next' = next /\ labs' = labs
  BY DEF Shape, C!BeginCreateScheduled, C!Start, C!history
<1>4. ~C!Deploying(r)' /\ Holds(r)' /\ Reads(r)'
  BY <1>2, <1>3 DEF C!Deploying, Holds, Reads
<1> QED BY <1>1, <1>4, Aside DEF C!BeginCreateScheduled, C!history

\* Hosts have ids.
LEMMA HostsHaveIds == Given => C!HostId \in [Host -> Nat]
<1> SUFFICES ASSUME Given PROVE C!HostId \in [Host -> Nat]
  OBVIOUS
<1>1. IsFiniteSet(Host) /\ Cardinality(Host) \in Nat /\ C!Cardinality(Host) = Cardinality(Host)
  BY FS_CardinalityType DEF Given, C!HostAssumption, C!IsFiniteSet, IsFiniteSet, C!Cardinality, Cardinality
<1> DEFINE n == Cardinality(Host)
<1>2. PICK f : f \in Bijection(1..n, Host)
  BY <1>1, FS_CardinalityType DEF ExistsBijection
<1>3. \A h \in Host : \E i \in 1..n : f[i] = h
  BY <1>2 DEF Bijection, Surjection
<1> DEFINE g == [h \in Host |-> CHOOSE i \in 1..n : f[i] = h]
<1>4. \A h \in Host : g[h] \in 1..n /\ f[g[h]] = h
  BY <1>3
<1>5. g \in [Host -> 1..n]
  BY <1>4
<1> HIDE DEF g, n
<1>6. \A h, k \in Host : g[h] = g[k] => h = k
  BY <1>4
<1>7. C!HostId \in [Host -> 1..C!Cardinality(Host)]
  BY <1>1, <1>5, <1>6 DEF C!HostId, n
<1> QED BY <1>1, <1>7

\* What a host has is noted.
LEMMA ConsiderHostKeeps ==
    ASSUME Given, CapInv, NEW r \in Request, C!ConsiderHost(r)
    PROVE  CapInv'
<1> USE DEF CapInv
<1>1. Shape' /\ Beside(r)
  BY DEF Shape, Beside, SameAs, C!ConsiderHost, C!history
<1> DEFINE h == CHOOSE g \in c_todo[r] : \A k \in c_todo[r] : C!HostId[g] <= C!HostId[k]
<1>2. /\ c_pc[r] = "consider_host" /\ c_pc'[r] = "consider_host" /\ c_job'[r] = c_job[r]
      /\ row'[r] = row[r] /\ sum'[r] = sum[r] /\ labs' = labs /\ next' = next
      /\ c_todo[r] # {} /\ c_todo[r] \subseteq Host /\ c_todo'[r] = c_todo[r] \ {h}
  BY DEF Shape, C!ConsiderHost, C!history, Reads
<1>3. h \in Host
  <2> DEFINE M == {C!HostId[k] : k \in c_todo[r]}
  <2>1. M \in SUBSET Nat /\ M # {}
    BY <1>2, HostsHaveIds
  <2> HIDE DEF M
  <2>2. PICK i \in M : \A j \in M : i <= j
    BY <2>1, Least
  <2>3. PICK g \in c_todo[r] : i = C!HostId[g]
    BY DEF M
  <2>4. \A k \in c_todo[r] : C!HostId[g] <= C!HostId[k]
    BY <2>2, <2>3 DEF M
  <2>5. h \in c_todo[r]
    BY <2>4
  <2> QED BY <1>2, <2>5
<1>4. \A c \in choice'[r] : c.host \in Host
  <2>1. PICK u : u = C!Sum(C!RowsOn(h))
    OBVIOUS
  <2>2. choice'[r] = choice[r]
        \/ choice'[r] = choice[r] \cup {[id |-> C!HostId[h], host |-> h, used |-> u]}
    BY <2>1 DEF Shape, C!ConsiderHost
  <2> HIDE DEF h
  <2> QED BY <1>2, <1>3, <2>2 DEF Reads
<1> HIDE DEF h
<1>5. ~C!Deploying(r)' /\ Holds(r)' /\ Reads(r)'
  BY <1>2, <1>4 DEF C!Deploying, Holds, Reads
<1> QED BY <1>1, <1>5, Aside DEF C!ConsiderHost, C!history

\* A host is chosen.
LEMMA SelectHostKeeps ==
    ASSUME Given, CapInv, NEW r \in Request, C!SelectHost(r)
    PROVE  CapInv'
<1> USE DEF CapInv
<1>1. c_pc[r] = "consider_host" /\ c_todo[r] = {}
  BY DEF C!SelectHost
<1>2. CASE choice[r] = {} /\ C!Refuse(r)
  BY <1>1, <1>2, RefuseKeeps
<1>3. CASE ~(choice[r] = {} /\ C!Refuse(r))
  <2>1. PICK c \in choice[r] :
          /\ c_job' = [c_job EXCEPT ![r] = [op |-> "create", limit |-> @.limit,
                                            failed |-> @.failed, host |-> c.host]]
          /\ c_pc' = [c_pc EXCEPT ![r] = "insert"]
          /\ choice' = [choice EXCEPT ![r] = {}]
          /\ UNCHANGED <<labs, rows, lab, row, c_todo, sum, next, c_jobs,
                         mixedLabs, mixedHosts, undisturbed>>
    BY <1>3 DEF C!SelectHost, C!history
  <2>2. Shape' /\ Beside(r) /\ c_pc'[r] = "insert" /\ choice'[r] = {}
    BY <2>1 DEF Shape, Beside, SameAs
  <2>3. c_job'[r].op = "create" /\ c_job'[r].limit = c_job[r].limit
        /\ c_job'[r].failed = c_job[r].failed /\ c_job'[r].host = c.host /\ c.host \in Host
    BY <1>1, <2>1 DEF Shape, Reads
  <2>4. ~C!Deploying(r)' /\ Holds(r)' /\ Reads(r)'
    BY <1>1, <2>1, <2>2, <2>3 DEF C!Deploying, Holds, Reads
  <2> QED BY <2>1, <2>2, <2>4, Aside
<1> QED BY <1>2, <1>3

\* A deployment or a creation fails at its end.
LEMMA FailKeeps ==
    ASSUME Given, CapInv, NEW r \in Request, C!Fail(r) \/ C!FailLab(r)
    PROVE  CapInv'
<1>1. C!Refuse(r) /\ c_pc[r] \in {"write", "insert"}
  BY DEF C!Fail, C!FailLab
<1>2. c_todo[r] = {} /\ choice[r] = {}
  BY <1>1 DEF CapInv, Reads
<1> QED BY <1>1, <1>2, RefuseKeeps

\* What a session sees of rows is rows, or the row it has read.
LEMMA SessionSees ==
    ASSUME Given, CapInv, NEW r \in Request, NEW S \in SUBSET rows
    PROVE  C!Sum(C!InSession(r, S)) \in C!Amount
<1> USE DEF CapInv
<1> DEFINE I == C!InSession(r, S)
<1>1. I \subseteq S \cup {row[r]} /\ (row[r] = C!NoRow => C!NoRow \notin I)
  <2>1. ASSUME row[r] = C!NoRow PROVE I \subseteq rows
    <3>1. \A w \in S : w.pk # row[r].pk
      BY <2>1, TablesSay DEF C!NoRow
    <3> QED BY <3>1 DEF C!InSession
  <2>2. C!NoRow \notin rows
    BY TablesSay
  <2> QED BY <2>1, <2>2 DEF C!InSession
<1>2. IsFiniteSet(I)
  <2>1. IsFiniteSet(S \cup {row[r]})
    BY RowsAreSummed, FS_AddElement
  <2> HIDE DEF I
  <2> QED BY <1>1, <2>1, FS_Subset
<1>3. Amounts(I)
  <2>1. Amounts(S)
    BY RowsAreSummed
  <2>2. row[r] # C!NoRow => row[r].cpu \in Nat /\ row[r].mb \in Nat /\ row[r].mem \in Nat
    BY DEF Holds, C!RowType
  <2> HIDE DEF I
  <2> QED BY <1>1, <2>1, <2>2 DEF Amounts
<1> HIDE DEF I
<1>4. C!Sum(I) \in [cpu : Nat, mb : Nat]
  BY <1>2, <1>3, RowsSum
<1> QED BY <1>4 DEF I, C!Amount

-----------------------------------------------------------------------------
(* Capacity: the checks.                                                    *)

\* Who has less is within the limit as well.
LEMMA WithinLess ==
    ASSUME NEW a \in C!Amount, NEW b \in C!Amount, a.cpu <= b.cpu, a.mb <= b.mb,
           NEW limit, limit.cpu \in Nat \cup {C!NoLimit}, limit.mb \in Nat \cup {C!NoLimit},
           C!Within(b, limit)
    PROVE  C!Within(a, limit)
BY DEF C!Within, C!Amount, C!NoLimit

\* Where nobody else was at work, a session sees the rows as they are.
LEMMA SessionIsTable ==
    ASSUME Given, CapInv, NEW r \in Request, C!Deploying(r), lab[r] \notin mixedLabs,
           NEW S \in SUBSET rows
    PROVE  C!InSession(r, S) = S
<1>1. \A w \in S : w.pk = row[r].pk => w = row[r]
  <2>1. CASE row[r] = C!NoRow
    BY <2>1, TablesSay DEF CapInv, C!NoRow
  <2>2. CASE row[r] # C!NoRow
    BY <2>2 DEF CapInv, Promises, Knows
  <2> QED BY <2>1, <2>2
<1> QED BY <1>1 DEF C!InSession

\* Taking what a row records out of a sum is taking the row out.
LEMMA MinusRow ==
    ASSUME Given, Tables, NEW S \in SUBSET rows, NEW w, w = C!NoRow \/ w \in S
    PROVE  C!Minus(C!Sum(S), w) = C!Sum(S \ {w})
<1>1. IsFiniteSet(S) /\ Amounts(S) /\ C!Sum(S) \in [cpu : Nat, mb : Nat]
  BY RowsAreSummed
<1>2. CASE w = C!NoRow /\ w \notin S
  <2>1. S \ {w} = S
    BY <1>2
  <2>2. C!Minus(C!Sum(S), w) = C!Sum(S)
    BY <1>1, <1>2 DEF C!Minus, C!NoRow
  <2> QED BY <2>1, <2>2
<1>3. CASE w \in S
  <2>1. C!Sum(S) = C!Plus(C!Sum(S \ {w}), w) /\ w.cpu \in Nat /\ w.mb \in Nat
    BY <1>1, <1>3, RowsSum DEF Amounts
  <2>2. C!Sum(S \ {w}) \in [cpu : Nat, mb : Nat]
    BY RowsAreSummed
  <2> QED BY <2>1, <2>2 DEF C!Plus, C!Minus
<1> QED BY <1>2, <1>3

\* Who deploys to a quiet host deploys to a quiet lab.
LEMMA QuietLab ==
    ASSUME CapInv, NEW r \in Request, C!Deploying(r), HostOf(lab[r]) \notin mixedHosts
    PROVE  lab[r] \notin mixedLabs
BY DEF CapInv, Mixes

\* What a deployment knows of its row stays, where no row changes.
LEMMA KnowsStays ==
    ASSUME CapInv, NEW r \in Request, rows' = rows, mixedLabs' = mixedLabs,
           C!Deploying(r), row'[r] = row[r], lab'[r] = lab[r]
    PROVE  Knows(r)'
BY DEF CapInv, Promises, Knows

\* The check of the lab makes the promise of the lab.
LEMMA CheckLabKeeps ==
    ASSUME Given, CapInv, NEW r \in Request, C!CheckLab(r)
    PROVE  CapInv'
<1> USE DEF CapInv
<1>1. c_pc[r] = "lab" /\ c_todo[r] = {} /\ choice[r] = {} /\ C!Deploying(r)
  BY DEF C!CheckLab, Reads, C!Deploying
<1>2. CASE C!Refuse(r)
  BY <1>1, <1>2, RefuseKeeps
<1>3. CASE ~C!Refuse(r)
  <2>1. /\ C!Within(C!After(r, C!Sum(C!InSession(r, C!RowsOf(lab[r])))), labs[lab[r]])
        /\ c_pc' = [c_pc EXCEPT ![r] = "host"]
        /\ c_todo' = [c_todo EXCEPT ![r] = C!LabsOn(HostOf(lab[r]))]
        /\ sum' = [sum EXCEPT ![r] = C!Nothing]
        /\ UNCHANGED <<labs, rows, c_job, lab, row, choice, next, c_jobs,
                       mixedLabs, mixedHosts, undisturbed>>
    BY <1>3 DEF C!CheckLab, C!history, HostOf
  <2>2. Shape' /\ Beside(r) /\ c_pc'[r] = "host" /\ c_todo'[r] = C!LabsOn(HostOf(lab[r]))
        /\ sum'[r] = C!Nothing
    BY <2>1 DEF Shape, Beside, SameAs
  <2>3. Steady
    BY <2>1 DEF Steady
  <2>4. Holds(r)' /\ C!Deploying(r)'
    BY <1>1, <2>1, <2>2, <2>3, SteadyIs DEF C!Deploying, Holds, C!Amount, C!Nothing
  <2>5. C!LabsOn(HostOf(lab[r])) \subseteq C!Lab
    BY DEF C!LabsOn
  <2>6. Reads(r)'
    BY <1>1, <2>1, <2>2, <2>3, <2>5, SteadyIs DEF Reads
  <2>7. Knows(r)'
    BY <1>1, <2>1, KnowsStays
  <2>8. LabPromise(r)'
    <3> DEFINE l == lab[r]
               S == C!RowsOf(l)
    <3> SUFFICES ASSUME l \notin mixedLabs, Sound(r)
                 PROVE  C!Within(C!Plus(C!Sum(S \ {row[r]}), Grant(r)), labs[l])
      BY <2>1, <2>2 DEF LabPromise, Sound, Grant, HostOf, C!RowsOf
    <3>1. S \subseteq rows
      BY DEF C!RowsOf
    <3>2. C!InSession(r, S) = S
      BY <1>1, <3>1, SessionIsTable
    <3>3. row[r] = C!NoRow \/ row[r] \in S
      BY <1>1 DEF Holds, Sound, C!RowsOf
    <3>4. C!Minus(C!Sum(S), row[r]) = C!Sum(S \ {row[r]})
      BY <3>1, <3>3, MinusRow
    <3> QED BY <2>1, <3>2, <3>4 DEF C!After, Grant, HostOf
  <2>9. HostPromise(r)'
    BY <2>2 DEF HostPromise
  <2>10. HostRead(r)'
    <3> SUFFICES ASSUME NEW h \in Host, h = HostOf(lab[r]), NEW s \in C!Amount,
                        s = C!Sum({w \in C!RowsOn(h) : w.lab \notin C!LabsOn(h)})
                 PROVE  s.cpu <= 0 /\ s.mb <= 0
      BY <2>1, <2>2, <2>3, SteadyIs DEF HostRead, HostOf, C!Nothing, C!Amount
    <3>1. {w \in C!RowsOn(h) : w.lab \notin C!LabsOn(h)} = {}
      BY TablesSay DEF C!RowsOn, C!LabsOn
    <3> QED BY <3>1, NoRowsSum DEF C!Nothing
  <2>11. Promises(r)'
    BY <2>7, <2>8, <2>9, <2>10 DEF Promises
  <2> QED BY <1>1, <2>1, <2>2, <2>3, <2>4, <2>6, <2>11, GoesOn
<1> QED BY <1>2, <1>3

\* A lab more is summed.
LEMMA ReadLabKeeps ==
    ASSUME Given, CapInv, NEW r \in Request, C!ReadLab(r)
    PROVE  CapInv'
<1> USE DEF CapInv
<1>1. PICK l \in c_todo[r] :
        /\ c_pc[r] \in {"host", "room"}
        /\ sum' = [sum EXCEPT ![r] = C!Plus(@, C!Sum(C!InSession(r, C!RowsOf(l))))]
        /\ c_todo' = [c_todo EXCEPT ![r] = @ \ {l}]
        /\ UNCHANGED <<labs, rows, c_pc, c_job, lab, row, choice, next, c_jobs,
                       mixedLabs, mixedHosts, undisturbed>>
  BY DEF C!ReadLab, C!history
<1>2. Shape' /\ Beside(r) /\ c_todo'[r] = c_todo[r] \ {l}
      /\ sum'[r] = C!Plus(sum[r], C!Sum(C!InSession(r, C!RowsOf(l))))
  BY <1>1 DEF Shape, Beside, SameAs
<1>3. Steady
  BY <1>1 DEF Steady
<1>4. C!RowsOf(l) \subseteq rows
  BY DEF C!RowsOf
<1>5. C!Sum(C!InSession(r, C!RowsOf(l))) \in C!Amount /\ sum[r] \in C!Amount
  BY <1>4, SessionSees DEF Holds
<1>6. sum'[r] \in C!Amount
  BY <1>2, <1>5 DEF C!Plus, C!Amount
<1>7. Holds(r)' /\ (C!Deploying(r)' <=> C!Deploying(r))
  BY <1>1, <1>3, <1>6, SteadyIs DEF C!Deploying, Holds
<1>8. Reads(r)'
  BY <1>1, <1>2, <1>3, SteadyIs DEF Reads
<1>9. CASE c_pc[r] = "room"
  <2>1. ~C!Deploying(r)'
    BY <1>1, <1>9 DEF C!Deploying
  <2> QED BY <1>1, <1>2, <1>7, <1>8, <2>1, Aside
<1>10. CASE c_pc[r] = "host"
  <2>0. C!Deploying(r)
    BY <1>10 DEF C!Deploying
  <2>1. Knows(r)'
    BY <1>1, <2>0, KnowsStays
  <2>2. LabPromise(r)'
    BY <1>1, <1>10 DEF Promises, LabPromise, Sound, Grant, HostOf, C!RowsOf
  <2>3. HostPromise(r)'
    BY <1>1, <1>10 DEF HostPromise
  <2>4. HostRead(r)'
    <3> SUFFICES ASSUME NEW h \in Host \ mixedHosts, h = HostOf(lab[r]), NEW s \in C!Amount,
                        s = C!Sum({w \in C!RowsOn(h) : w.lab \notin c_todo[r] \ {l}})
                 PROVE  s.cpu <= sum'[r].cpu /\ s.mb <= sum'[r].mb
      BY <1>1, <1>2, <1>3, SteadyIs DEF HostRead, HostOf, C!Amount
    <3> DEFINE S == {w \in C!RowsOn(h) : w.lab \notin c_todo[r]}
               T == C!RowsOf(l)
               U == {w \in C!RowsOn(h) : w.lab \notin c_todo[r] \ {l}}
    <3>1. S \subseteq rows /\ T \subseteq rows /\ U \subseteq S \cup T /\ S \cap T = {}
      BY <1>1 DEF C!RowsOn, C!RowsOf
    <3>2. C!InSession(r, T) = T
      BY <2>0, <3>1, QuietLab, SessionIsTable
    <3>3. C!Sum(S).cpu <= sum[r].cpu /\ C!Sum(S).mb <= sum[r].mb
          /\ C!Sum(S) \in [cpu : Nat, mb : Nat]
      <4>1. C!Sum(S) \in [cpu : Nat, mb : Nat]
        BY <3>1, RowsAreSummed
      <4>2. C!Sum(S) \in C!Amount
        BY <4>1 DEF C!Amount
      <4> QED BY <1>10, <4>1, <4>2 DEF Promises, HostRead
    <3> HIDE DEF S, U, T
    <3>4. C!Sum(T) \in [cpu : Nat, mb : Nat] /\ IsFiniteSet(S \cup T) /\ Amounts(S \cup T)
      BY <3>1, RowsAreSummed
    <3>5. C!Sum(S \cup T) = C!Plus(C!Sum(S), C!Sum(T))
      BY <3>1, <3>4, SumApart
    <3>6. C!Sum(U).cpu <= C!Sum(S \cup T).cpu /\ C!Sum(U).mb <= C!Sum(S \cup T).mb
      BY <3>1, <3>4, SumLess
    <3>7. C!Sum(U) \in [cpu : Nat, mb : Nat]
      BY <3>1, RowsAreSummed
    <3>8. /\ C!Sum(S \cup T).cpu = C!Sum(S).cpu + C!Sum(T).cpu
          /\ C!Sum(S \cup T).mb = C!Sum(S).mb + C!Sum(T).mb
      BY <3>5 DEF C!Plus
    <3>9. sum'[r].cpu = sum[r].cpu + C!Sum(T).cpu /\ sum'[r].mb = sum[r].mb + C!Sum(T).mb
      BY <1>2, <3>2 DEF T, C!Plus
    <3>10. sum[r].cpu \in Int /\ sum[r].mb \in Int
      BY <1>5 DEF C!Amount
    <3>11. s = C!Sum(U)
      BY DEF U
    <3> QED BY <3>3, <3>4, <3>6, <3>7, <3>8, <3>9, <3>10, <3>11
  <2>5. Promises(r)'
    BY <2>1, <2>2, <2>3, <2>4 DEF Promises
  <2> QED BY <1>1, <1>2, <1>3, <1>7, <1>8, <2>5, GoesOn
<1> QED BY <1>1, <1>9, <1>10

\* The check of the host makes the promise of the host.
LEMMA CheckHostKeeps ==
    ASSUME Given, CapInv, NEW r \in Request, C!CheckHost(r)
    PROVE  CapInv'
<1> USE DEF CapInv
<1>1. c_pc[r] = "host" /\ c_todo[r] = {} /\ choice[r] = {} /\ C!Deploying(r)
  BY DEF C!CheckHost, Reads, C!Deploying
<1>2. CASE C!Refuse(r)
  BY <1>1, <1>2, RefuseKeeps
<1>3. CASE ~C!Refuse(r)
  <2>1. /\ C!Within(C!After(r, sum[r]), HostTotal[HostOf(lab[r])])
        /\ c_pc' = [c_pc EXCEPT ![r] = "write"]
        /\ UNCHANGED <<labs, rows, c_job, lab, row, c_todo, sum, choice, next, c_jobs,
                       mixedLabs, mixedHosts, undisturbed>>
    BY <1>3 DEF C!CheckHost, C!history, HostOf
  <2>2. Shape' /\ Beside(r) /\ c_pc'[r] = "write"
    BY <2>1 DEF Shape, Beside, SameAs
  <2>3. Steady
    BY <2>1 DEF Steady
  <2>4. Holds(r)' /\ C!Deploying(r)'
    BY <1>1, <2>1, <2>2, <2>3, SteadyIs DEF C!Deploying, Holds
  <2>5. Reads(r)'
    BY <1>1, <2>1, <2>2, <2>3, SteadyIs DEF Reads
  <2>6. Knows(r)'
    BY <1>1, <2>1, KnowsStays
  <2>7. LabPromise(r)'
    BY <1>1, <2>1 DEF Promises, LabPromise, Sound, Grant, HostOf, C!RowsOf
  <2>8. HostPromise(r)'
    <3> SUFFICES ASSUME NEW h \in Host \ mixedHosts, h = HostOf(lab[r]), Sound(r)
                 PROVE  C!Within(C!Plus(C!Sum(C!RowsOn(h) \ {row[r]}), Grant(r)), HostTotal[h])
      BY <2>1, <2>2, <2>3, SteadyIs DEF HostPromise, Sound, Grant, HostOf, C!Unbounded
    <3> DEFINE S == C!RowsOn(h)
    <3>1. S \subseteq rows
      BY DEF C!RowsOn
    <3>2. row[r] = C!NoRow \/ row[r] \in S
      BY <1>1 DEF Holds, Sound, C!RowsOn, HostOf
    <3>3. C!Minus(C!Sum(S), row[r]) = C!Sum(S \ {row[r]})
      BY <3>1, <3>2, MinusRow
    <3>4. {w \in S : w.lab \notin c_todo[r]} = S
      BY <1>1
    <3>5. C!Sum(S) \in [cpu : Nat, mb : Nat]
      BY <3>1, RowsAreSummed
    <3>6. C!Sum(S).cpu <= sum[r].cpu /\ C!Sum(S).mb <= sum[r].mb
      <4>1. C!Sum(S) \in C!Amount
        BY <3>5 DEF C!Amount
      <4> QED BY <1>1, <3>4, <4>1 DEF Promises, HostRead
    <3>7. sum[r] \in C!Amount /\ row[r].cpu \in Nat /\ row[r].mb \in Nat
      BY DEF Holds, C!RowType, C!NoRow
    <3>8. Grant(r).cpu \in Nat /\ Grant(r).mb \in Nat
      <4>1. c_job[r].payload.ask \in Ask
        BY <1>1 DEF Holds, C!Payload
      <4> QED BY <4>1, GrantIs DEF Grant
    <3> HIDE DEF S
    <3> DEFINE a == C!Plus(C!Sum(S \ {row[r]}), Grant(r))
               b == C!After(r, sum[r])
    <3>9. a = C!Plus(C!Minus(C!Sum(S), row[r]), Grant(r)) /\ b = C!Plus(C!Minus(sum[r], row[r]), Grant(r))
      BY <3>3 DEF C!After, Grant, HostOf
    <3>10. /\ a.cpu = C!Sum(S).cpu - row[r].cpu + Grant(r).cpu /\ a.mb = C!Sum(S).mb - row[r].mb + Grant(r).mb
           /\ b.cpu = sum[r].cpu - row[r].cpu + Grant(r).cpu /\ b.mb = sum[r].mb - row[r].mb + Grant(r).mb
           /\ a = [cpu |-> a.cpu, mb |-> a.mb] /\ b = [cpu |-> b.cpu, mb |-> b.mb]
      BY <3>9 DEF C!Plus, C!Minus
    <3> HIDE DEF a, b
    <3>11. sum[r].cpu \in Int /\ sum[r].mb \in Int
      BY <3>7 DEF C!Amount
    <3>12. a \in C!Amount /\ b \in C!Amount /\ a.cpu <= b.cpu /\ a.mb <= b.mb
      <4>1. a.cpu \in Int /\ a.mb \in Int /\ b.cpu \in Int /\ b.mb \in Int
            /\ a.cpu <= b.cpu /\ a.mb <= b.mb
        BY <3>5, <3>6, <3>7, <3>8, <3>10, <3>11
      <4> QED BY <3>10, <4>1 DEF C!Amount
    <3>13. C!Within(b, HostTotal[h])
      BY <2>1 DEF b
    <3>14. C!Within(a, HostTotal[h])
      BY <3>12, <3>13, TablesSay, WithinLess
    <3> QED BY <3>14 DEF a, S
  <2>9. HostRead(r)'
    BY <2>2 DEF HostRead
  <2>10. Promises(r)'
    BY <2>6, <2>7, <2>8, <2>9 DEF Promises
  <2> QED BY <1>1, <2>1, <2>2, <2>3, <2>4, <2>5, <2>10, GoesOn
<1> QED BY <1>2, <1>3

-----------------------------------------------------------------------------
(* Capacity: deployments begin.                                             *)

\* Whoever it meets is noted.
LEMMA MeetsAreNoted ==
    ASSUME Given, CapInv, NEW r \in Request, NEW l \in C!Lab, ~C!Deploying(r), Steady, Beside(r),
           C!MindOthers(r, l), C!Deploying(r)', lab'[r] = l
    PROVE  Mixes' /\ \A p, q \in Request : p # q => Pair(p, q)'
<1> USE DEF CapInv
<1> DEFINE others == {o \in Request \ {r} : C!Deploying(o)}
<1>1. /\ mixedLabs' = mixedLabs \cup {lab[o] : o \in {p \in others : lab[p] = l}}
      /\ mixedHosts' = mixedHosts \cup ({HostOf(l)} \cap {HostOf(lab[o]) : o \in others})
  BY DEF C!MindOthers, HostOf
<1>2. \A o \in others : lab[o] \in C!Lab
  BY DEF Holds
<1>3. HostOf(l) \in Host
  BY TablesSay
<1>4. Mixes'
  <2>1. mixedLabs' \subseteq C!Lab /\ mixedHosts' \subseteq Host
    BY <1>1, <1>2, <1>3 DEF Mixes
  <2>2. ASSUME NEW m \in mixedLabs' PROVE HostOf(m) \in mixedHosts'
    <3>1. CASE m \in mixedLabs
      BY <1>1, <3>1 DEF Mixes
    <3>2. CASE m \notin mixedLabs
      <4>1. PICK o \in others : lab[o] = l /\ m = l
        BY <1>1, <3>2
      <4>2. HostOf(l) \in {HostOf(lab[p]) : p \in others}
        BY <4>1
      <4> HIDE DEF others
      <4> QED BY <1>1, <4>1, <4>2
    <3> QED BY <3>1, <3>2
  <2> HIDE DEF others
  <2> QED BY <2>1, <2>2, SteadyIs DEF Mixes, HostOf, Steady
<1>5. ASSUME NEW p \in Request \ {r}, C!Deploying(p)'
      PROVE  /\ lab'[p] = l => l \in mixedLabs'
             /\ HostOf(lab'[p]) = HostOf(l) => HostOf(l) \in mixedHosts'
  <2>1. p \in others /\ lab'[p] = lab[p]
    BY <1>5 DEF Beside, SameAs, C!Deploying
  <2>2. HostOf(lab[p]) \in {HostOf(lab[o]) : o \in others}
    BY <2>1
  <2> QED BY <1>1, <2>1, <2>2
<1>6. ASSUME NEW p \in Request, NEW q \in Request, p # q PROVE Pair(p, q)'
  <2>1. CASE p # r /\ q # r
    <3>1. /\ C!Deploying(p)' => C!Deploying(p) /\ lab'[p] = lab[p]
          /\ C!Deploying(q)' => C!Deploying(q) /\ lab'[q] = lab[q]
      BY <2>1 DEF Beside, SameAs, C!Deploying
    <3> QED BY <1>6, <3>1, PairStays
  <2> SUFFICES ASSUME C!Deploying(p)', C!Deploying(q)', p = r \/ q = r
               PROVE  /\ lab'[p] = lab'[q] => lab'[q] \in mixedLabs'
                      /\ HostOf(lab'[p]) = HostOf(lab'[q]) => HostOf(lab'[q]) \in mixedHosts'
    BY <2>1 DEF Pair, HostOf, Steady
  <2>2. CASE q = r
    BY <1>5, <1>6, <2>2
  <2>3. CASE p = r
    BY <1>5, <1>6, <2>3
  <2> QED BY <2>2, <2>3
<1> QED BY <1>4, <1>6

\* A deployment begins with the row it finds.
LEMMA EnterKeeps ==
    ASSUME Given, CapInv, NEW r \in Request, ~C!Deploying(r), NEW l \in C!Lab, NEW kind, NEW name,
           C!Enter(r, l, kind, name), labs' = labs, rows' = rows, next' = next, Shape', Beside(r),
           c_pc'[r] = C!FirstCheck(l), c_job'[r].op = "deploy", c_job'[r].payload \in C!Payload,
           c_todo'[r] = {}, choice'[r] = {}, sum'[r] \in C!Amount
    PROVE  CapInv'
<1> USE DEF CapInv
<1>1. Steady
  BY DEF Steady, C!Enter, C!MindOthers
<1>2. c_pc'[r] \in {"lab", "write"} /\ (c_pc'[r] = "write" => C!Unbounded(HostOf(l)))
  BY DEF C!FirstCheck, HostOf
<1>3. C!Deploying(r)' /\ lab'[r] = l
  BY <1>2 DEF C!Deploying, C!Enter, Shape
<1>4. row'[r] = C!NoRow \/ (row'[r] \in rows /\ row'[r].lab = l)
  BY DEF C!Enter, Shape, C!RowsOf
<1>5. Mixes' /\ \A p, q \in Request : p # q => Pair(p, q)'
  BY <1>1, <1>3, MeetsAreNoted DEF C!Enter
<1>6. Tables' /\ C!LabsKept' /\ C!HostsKept'
  BY <1>1, SteadyTables
<1>7. Holds(r)'
  <2>1. row'[r] = C!NoRow \/ (row'[r] \in C!RowType /\ row'[r].pk < next)
    BY <1>4 DEF Tables
  <2> QED BY <1>1, <1>2, <1>3, <1>4, <2>1, SteadyIs DEF Holds, C!Deploying
<1>8. Reads(r)'
  BY <1>2 DEF Reads
<1>9. Knows(r)'
  <2>1. \A w \in rows : row'[r] # C!NoRow /\ w.pk = row'[r].pk => w = row'[r]
    BY <1>4 DEF Tables
  <2> QED BY <1>3, <1>4, <2>1 DEF Knows
<1>10. LabPromise(r)'
  <2>1. c_pc'[r] = "write" => labs[l].cpu = C!NoLimit /\ labs[l].mb = C!NoLimit
    BY <1>2 DEF Tables
  <2> QED BY <1>2, <1>3, <2>1 DEF LabPromise, C!Within
<1>11. HostPromise(r)'
  BY <1>2, <1>3 DEF HostPromise, HostOf, C!Unbounded
<1>12. HostRead(r)'
  BY <1>2 DEF HostRead
<1>13. ASSUME NEW q \in Request PROVE Holds(q)' /\ Reads(q)' /\ Promises(q)'
  <2>1. CASE q = r
    BY <1>7, <1>8, <1>9, <1>10, <1>11, <1>12, <2>1 DEF Promises
  <2>2. CASE q # r
    BY <1>1, <2>2, Bystander DEF Beside
  <2> QED BY <2>1, <2>2
<1> QED BY <1>5, <1>6, <1>13

\* A user names the lab.
LEMMA BeginDeployKeeps ==
    ASSUME Given, CapInv, NEW r \in Request, C!BeginDeploy(r)
    PROVE  CapInv'
<1> USE DEF CapInv
<1>0. MaxDeployments \in Nat
  BY DEF Given, C!BoundAssumption
<1>1. PICK l \in C!Lab, p \in C!Payload :
        /\ C!Start(r, [op |-> "deploy", payload |-> p, method |-> "none"], C!FirstCheck(l))
        /\ C!Enter(r, l, p.kind, p.name)
  BY DEF C!BeginDeploy
<1>2. UNCHANGED <<labs, rows, c_todo, sum, choice, next, undisturbed>>
  BY DEF C!BeginDeploy
<1>3. c_pc[r] = "idle" /\ c_pc'[r] = C!FirstCheck(l) /\ c_job'[r].op = "deploy"
      /\ c_job'[r].payload \in C!Payload
  BY <1>1 DEF C!Start, Shape
<1>4. C!FirstCheck(l) \in {"lab", "write"}
  BY DEF C!FirstCheck
<1>5. Shape'
  <2>1. DOMAIN lab' = Request /\ DOMAIN row' = Request
    BY <1>1 DEF C!Enter, Shape
  <2> QED BY <1>0, <1>1, <1>2, <1>4, <2>1 DEF C!Start, Shape
<1>6. Beside(r)
  <2>1. \A q \in Request \ {r} : lab'[q] = lab[q] /\ row'[q] = row[q]
    BY <1>1 DEF C!Enter, Shape
  <2> QED BY <1>1, <1>2, <2>1 DEF C!Start, Shape, Beside, SameAs
<1>7. c_todo'[r] = {} /\ choice'[r] = {} /\ sum'[r] \in C!Amount /\ ~C!Deploying(r)
  BY <1>2, <1>3 DEF Holds, Reads, C!Deploying
<1> QED BY <1>1, <1>2, <1>3, <1>5, <1>6, <1>7, EnterKeeps

\* The scheduler names it.
LEMMA SelectKeeps ==
    ASSUME Given, CapInv, NEW r \in Request, C!Select(r)
    PROVE  CapInv'
<1> USE DEF CapInv
<1>1. c_pc[r] = "consider" /\ c_todo[r] = {} /\ ~C!Deploying(r)
  BY DEF C!Select, C!Deploying
<1>2. CASE choice[r] = {} /\ C!Refuse(r)
  BY <1>1, <1>2, RefuseKeeps
<1>3. CASE ~(choice[r] = {} /\ C!Refuse(r))
  <2>1. PICK c \in choice[r] :
          /\ C!Enter(r, c.id, c_job[r].payload.kind, c_job[r].payload.name)
          /\ c_pc' = [c_pc EXCEPT ![r] = C!FirstCheck(c.id)]
          /\ choice' = [choice EXCEPT ![r] = {}]
          /\ UNCHANGED <<labs, rows, c_job, c_todo, sum, next, c_jobs, undisturbed>>
    BY <1>3 DEF C!Select
  <2>2. c.id \in C!Lab
    BY <1>1 DEF Reads
  <2>3. C!FirstCheck(c.id) \in {"lab", "write"}
    BY DEF C!FirstCheck
  <2>4. Shape'
    <3>1. DOMAIN lab' = Request /\ DOMAIN row' = Request
      BY <2>1 DEF C!Enter, Shape
    <3> QED BY <2>1, <2>3, <3>1 DEF Shape
  <2>5. Beside(r)
    <3>1. \A q \in Request \ {r} : lab'[q] = lab[q] /\ row'[q] = row[q]
      BY <2>1 DEF C!Enter, Shape
    <3> QED BY <2>1, <3>1 DEF Shape, Beside, SameAs
  <2>6. /\ c_pc'[r] = C!FirstCheck(c.id) /\ c_job'[r] = c_job[r] /\ c_todo'[r] = {}
        /\ choice'[r] = {} /\ sum'[r] \in C!Amount
    BY <1>1, <2>1 DEF Shape, Holds
  <2>7. c_job'[r].op = "deploy" /\ c_job'[r].payload \in C!Payload
    BY <1>1, <2>6 DEF Holds
  <2> QED BY <1>1, <2>1, <2>2, <2>4, <2>5, <2>6, <2>7, EnterKeeps
<1> QED BY <1>2, <1>3

-----------------------------------------------------------------------------
(* Capacity: rows go.                                                       *)

\* What fits with some rows fits with fewer.
LEMMA FewerRowsFit ==
    ASSUME Given, Tables, NEW S \in SUBSET rows, NEW T \in SUBSET S,
           NEW limit, limit.cpu \in Nat \cup {C!NoLimit}, limit.mb \in Nat \cup {C!NoLimit},
           C!Within(C!Sum(S), limit)
    PROVE  C!Within(C!Sum(T), limit)
<1>1. /\ C!Sum(S) \in [cpu : Nat, mb : Nat] /\ C!Sum(T) \in [cpu : Nat, mb : Nat]
      /\ IsFiniteSet(S) /\ Amounts(S)
  BY RowsAreSummed
<1>2. C!Sum(T).cpu <= C!Sum(S).cpu /\ C!Sum(T).mb <= C!Sum(S).mb
  BY <1>1, SumLess
<1>3. C!Sum(S) \in C!Amount /\ C!Sum(T) \in C!Amount
  BY <1>1 DEF C!Amount
<1> QED BY <1>2, <1>3, WithinLess

\* With the one to come as well.
LEMMA FewerFit ==
    ASSUME Given, Tables, NEW S \in SUBSET rows, NEW T \in SUBSET S,
           NEW g, g.cpu \in Nat, g.mb \in Nat,
           NEW limit, limit.cpu \in Nat \cup {C!NoLimit}, limit.mb \in Nat \cup {C!NoLimit}
    PROVE  C!Within(C!Plus(C!Sum(S), g), limit) => C!Within(C!Plus(C!Sum(T), g), limit)
<1>1. /\ C!Sum(S) \in [cpu : Nat, mb : Nat] /\ C!Sum(T) \in [cpu : Nat, mb : Nat]
      /\ IsFiniteSet(S) /\ Amounts(S)
  BY RowsAreSummed
<1>2. C!Sum(T).cpu <= C!Sum(S).cpu /\ C!Sum(T).mb <= C!Sum(S).mb
  BY <1>1, SumLess
<1> DEFINE a == C!Plus(C!Sum(T), g)
           b == C!Plus(C!Sum(S), g)
<1>3. a \in C!Amount /\ b \in C!Amount /\ a.cpu <= b.cpu /\ a.mb <= b.mb
  BY <1>1, <1>2 DEF C!Plus, C!Amount
<1> HIDE DEF a, b
<1>4. C!Within(b, limit) => C!Within(a, limit)
  BY <1>3, WithinLess
<1> QED BY <1>4 DEF a, b

\* What is granted is recorded in numbers.
LEMMA GrantsAre ==
    ASSUME Given, NEW r \in Request, Holds(r), C!Deploying(r)
    PROVE  Grant(r).cpu \in Nat /\ Grant(r).mb \in Nat /\ Grant(r).mem \in Nat
           /\ Grant(r).mem <= 2 * Grant(r).mb + 1
<1>1. c_job[r].payload.ask \in Ask
  BY DEF Holds, C!Payload, C!Deploying
<1> QED BY <1>1, GrantIs DEF Grant

\* A deletion only makes room.
LEMMA DeleteKeeps ==
    ASSUME Given, CapInv, C!Delete
    PROVE  CapInv'
<1> USE DEF CapInv
<1>1. PICK w \in rows : rows' = rows \ {w}
  BY DEF C!Delete
<1>2. UNCHANGED <<labs, c_pc, c_job, lab, row, c_todo, sum, choice, next, c_jobs,
                  mixedLabs, mixedHosts>> /\ undisturbed' = {}
  BY DEF C!Delete
<1>3. /\ C!Lab' = C!Lab /\ C!RowType' = C!RowType
      /\ \A l : C!RowsOf(l)' = C!RowsOf(l) \ {w} /\ HostOf(l)' = HostOf(l)
      /\ \A h : C!RowsOn(h)' = C!RowsOn(h) \ {w}
  BY <1>1, <1>2 DEF C!Lab, C!RowType, C!RowsOf, C!RowsOn, HostOf
<1>4. \A l : C!RowsOf(l) \subseteq rows
  BY DEF C!RowsOf
<1>5. \A h : C!RowsOn(h) \subseteq rows
  BY DEF C!RowsOn
<1>6. Shape'
  BY <1>2 DEF Shape
<1>7. Tables'
  <2>1. IsFiniteSet(rows')
    BY <1>1, FS_Subset DEF Tables
  <2> QED BY <1>1, <1>2, <1>3, <2>1 DEF Tables, HostOf, C!Unbounded
<1>8. Mixes' /\ \A p, q \in Request : p # q => Pair(p, q)'
  BY <1>2, <1>3 DEF Mixes, Pair, C!Deploying, HostOf
<1>9. C!LabsKept'
  <2> SUFFICES ASSUME NEW l \in C!Lab \ mixedLabs
               PROVE  C!Within(C!Sum(C!RowsOf(l) \ {w}), labs[l])
    BY <1>2, <1>3 DEF C!LabsKept
  <2>1. C!Within(C!Sum(C!RowsOf(l)), labs[l])
    BY DEF C!LabsKept
  <2>2. labs[l].cpu \in Nat \cup {C!NoLimit} /\ labs[l].mb \in Nat \cup {C!NoLimit}
    BY TablesSay
  <2>3. C!RowsOf(l) \in SUBSET rows /\ C!RowsOf(l) \ {w} \in SUBSET C!RowsOf(l)
    BY <1>4
  <2> QED BY <2>1, <2>2, <2>3, FewerRowsFit
<1>10. C!HostsKept'
  <2> SUFFICES ASSUME NEW h \in Host \ mixedHosts, ~C!Unbounded(h)
               PROVE  C!Within(C!Sum(C!RowsOn(h) \ {w}), HostTotal[h])
    BY <1>2, <1>3 DEF C!HostsKept, C!Unbounded
  <2>1. C!Within(C!Sum(C!RowsOn(h)), HostTotal[h])
    BY DEF C!HostsKept
  <2>2. HostTotal[h].cpu \in Nat \cup {C!NoLimit} /\ HostTotal[h].mb \in Nat \cup {C!NoLimit}
    BY TablesSay
  <2>3. C!RowsOn(h) \in SUBSET rows /\ C!RowsOn(h) \ {w} \in SUBSET C!RowsOn(h)
    BY <1>5
  <2> QED BY <2>1, <2>2, <2>3, FewerRowsFit
<1>11. ASSUME NEW q \in Request PROVE Holds(q)' /\ Reads(q)' /\ Promises(q)'
  <2>1. Holds(q)' /\ Reads(q)'
    BY <1>2, <1>3 DEF Holds, Reads, C!Deploying
  <2>2. Knows(q)'
    BY <1>1, <1>2 DEF Promises, Knows, C!Deploying
  <2>3. Grant(q)' = Grant(q) /\ (Sound(q)' => Sound(q))
    BY <1>1, <1>2, <1>3 DEF Grant, Sound, HostOf
  <2>4. LabPromise(q)'
    <3> DEFINE l == lab[q]
               S == C!RowsOf(l) \ {row[q]}
               T == (C!RowsOf(l) \ {w}) \ {row[q]}
    <3> SUFFICES ASSUME c_pc[q] \in {"host", "write"}, l \notin mixedLabs, Sound(q)'
                 PROVE  C!Within(C!Plus(C!Sum(T), Grant(q)), labs[l])
      <4>1. C!RowsOf(lab[q])' = C!RowsOf(l) \ {w}
        BY <1>1, <1>2 DEF C!RowsOf
      <4> QED BY <1>2, <2>3, <4>1 DEF LabPromise
    <3>1. C!Within(C!Plus(C!Sum(S), Grant(q)), labs[l])
      BY <2>3 DEF Promises, LabPromise
    <3>2. C!Deploying(q) /\ l \in C!Lab
      BY DEF C!Deploying, Holds
    <3>3. labs[l].cpu \in Nat \cup {C!NoLimit} /\ labs[l].mb \in Nat \cup {C!NoLimit}
      BY <3>2, TablesSay
    <3>4. S \subseteq rows /\ T \subseteq S
      BY <1>4
    <3> HIDE DEF S, T
    <3> QED BY <3>1, <3>2, <3>3, <3>4, GrantsAre, FewerFit
  <2>5. HostPromise(q)'
    <3> SUFFICES ASSUME NEW h \in Host \ mixedHosts,
                        c_pc[q] = "write", h = HostOf(lab[q]), Sound(q)', ~C!Unbounded(h)
                 PROVE  C!Within(C!Plus(C!Sum((C!RowsOn(h) \ {w}) \ {row[q]}), Grant(q)), HostTotal[h])
      BY <1>2, <1>3, <2>3 DEF HostPromise, HostOf, C!Unbounded
    <3> DEFINE S == C!RowsOn(h) \ {row[q]}
               T == (C!RowsOn(h) \ {w}) \ {row[q]}
    <3>1. C!Within(C!Plus(C!Sum(S), Grant(q)), HostTotal[h])
      BY <2>3 DEF Promises, HostPromise
    <3>2. C!Deploying(q)
      BY DEF C!Deploying
    <3>3. HostTotal[h].cpu \in Nat \cup {C!NoLimit} /\ HostTotal[h].mb \in Nat \cup {C!NoLimit}
      BY TablesSay
    <3>4. S \subseteq rows /\ T \subseteq S
      BY <1>5
    <3> HIDE DEF S
    <3>5. C!Within(C!Plus(C!Sum(T), Grant(q)), HostTotal[h])
      <4> HIDE DEF T
      <4> QED BY <3>1, <3>2, <3>3, <3>4, GrantsAre, FewerFit
    <3> QED BY <3>5
  <2>6. HostRead(q)'
    <3> SUFFICES ASSUME NEW h \in Host \ mixedHosts, c_pc[q] = "host", h = HostOf(lab[q]),
                        NEW s \in C!Amount,
                        s = C!Sum({v \in C!RowsOn(h) \ {w} : v.lab \notin c_todo[q]})
                 PROVE  s.cpu <= sum[q].cpu /\ s.mb <= sum[q].mb
      BY <1>2, <1>3 DEF HostRead, HostOf, C!Amount
    <3> DEFINE S == {v \in C!RowsOn(h) : v.lab \notin c_todo[q]}
               T == {v \in C!RowsOn(h) \ {w} : v.lab \notin c_todo[q]}
    <3>1. S \subseteq rows /\ T \subseteq S
      BY <1>5
    <3>2. C!Sum(S) \in C!Amount => C!Sum(S).cpu <= sum[q].cpu /\ C!Sum(S).mb <= sum[q].mb
      BY DEF Promises, HostRead
    <3> HIDE DEF S, T
    <3>3. C!Sum(S) \in [cpu : Nat, mb : Nat] /\ IsFiniteSet(S) /\ Amounts(S)
          /\ C!Sum(T) \in [cpu : Nat, mb : Nat]
      BY <3>1, RowsAreSummed
    <3>4. C!Sum(T).cpu <= C!Sum(S).cpu /\ C!Sum(T).mb <= C!Sum(S).mb
      BY <3>1, <3>3, SumLess
    <3>5. C!Sum(S) \in C!Amount
      BY <3>3 DEF C!Amount
    <3>6. sum[q].cpu \in Int /\ sum[q].mb \in Int
      BY DEF Holds, C!Amount
    <3>7. s = C!Sum(T)
      BY DEF T
    <3> QED BY <3>2, <3>3, <3>4, <3>5, <3>6, <3>7
  <2> QED BY <2>1, <2>2, <2>4, <2>5, <2>6 DEF Promises
<1> QED BY <1>6, <1>7, <1>8, <1>9, <1>10, <1>11

-----------------------------------------------------------------------------
(* Capacity: a row is written.                                              *)

\* One row more.
LEMMA RowAdded ==
    ASSUME Given, Tables, NEW S \in SUBSET rows, NEW n, n \notin S,
           n.cpu \in Nat, n.mb \in Nat, n.mem \in Nat
    PROVE  C!Sum(S \cup {n}) = C!Plus(C!Sum(S), n)
<1>1. IsFiniteSet(S) /\ Amounts(S)
  BY RowsAreSummed
<1> DEFINE T == S \cup {n}
<1>2. IsFiniteSet(T) /\ Amounts(T) /\ T \ {n} = S /\ n \in T
  BY <1>1, FS_AddElement DEF Amounts
<1> HIDE DEF T
<1>3. C!Sum(T) = C!Plus(C!Sum(T \ {n}), n)
  BY <1>2, RowsSum
<1> QED BY <1>2, <1>3 DEF T

\* The row n takes the place of those under its key, which are of its lab.
Written(r, n, old) ==
    /\ rows' = (rows \ old) \cup {n} /\ old \subseteq rows
    /\ next' \in {next, next + 1} /\ n \in C!RowType' /\ n.pk < next'
    /\ n.lab = lab[r] /\ n.cpu = Grant(r).cpu /\ n.mb = Grant(r).mb /\ n.mem = Grant(r).mem
    /\ \A w \in rows \ old : w.pk # n.pk
    /\ \A w \in old : w.lab = lab[r]
    /\ n.pk = next \/ \E w \in old : w.pk = n.pk
    /\ lab[r] \notin mixedLabs => Sound(r) /\ old \subseteq {row[r]} /\ row[r] \notin rows \ old

\* A write is such a replacement.
LEMMA WriteIs ==
    ASSUME Given, CapInv, NEW r \in Request, C!Write(r)
    PROVE  \E n, old : Written(r, n, old)
<1> USE DEF CapInv
<1>1. C!Deploying(r) /\ c_pc[r] = "write" /\ next \in Nat \ {0} /\ C!Lab' = C!Lab
  BY DEF C!Write, C!Deploying, Tables, C!Lab
<1> DEFINE old == {w \in rows : w.pk = row[r].pk}
<1>2. PICK pk, N :
        /\ N = C!NewRow(r, pk)
        /\ \/ row[r] = C!NoRow /\ pk = next /\ rows' = rows \cup {N} /\ next' = next + 1
           \/ old # {} /\ pk = row[r].pk /\ rows' = (rows \ old) \cup {N} /\ next' = next
  BY DEF C!Write
<1>3. c_job[r].payload \in C!Payload /\ lab[r] \in C!Lab
  BY <1>1 DEF Holds
<1>4. /\ N.pk = pk /\ N.lab = lab[r] /\ N.kind = c_job[r].payload.kind /\ N.name = c_job[r].payload.name
      /\ N.cpu = Grant(r).cpu /\ N.mb = Grant(r).mb /\ N.mem = Grant(r).mem
      /\ N = [pk |-> N.pk, lab |-> N.lab, kind |-> N.kind, name |-> N.name,
              cpu |-> N.cpu, mb |-> N.mb, mem |-> N.mem]
  BY <1>2 DEF C!NewRow, Grant, HostOf
<1>5. N.kind \in {"environment", "project"} /\ N.name \in Name
  BY <1>3, <1>4 DEF C!Payload
<1>6. N.cpu \in Nat /\ N.mb \in Nat /\ N.mem \in Nat
  BY <1>1, <1>4, GrantsAre
<1>7. \A w \in old : w.lab = lab[r] /\ (lab[r] \notin mixedLabs => w = row[r])
  <2>1. CASE row[r] = C!NoRow
    BY <2>1, TablesSay DEF C!NoRow
  <2>2. CASE row[r] # C!NoRow
    BY <1>1, <2>2 DEF Promises, Knows
  <2> QED BY <2>1, <2>2
<1>8. CASE row[r] = C!NoRow /\ pk = next /\ rows' = rows \cup {N} /\ next' = next + 1
  <2>1. \A w \in rows : w.pk # N.pk
    BY <1>4, <1>8, TablesSay DEF Tables
  <2>2. N.pk \in 1..next' /\ N.pk < next'
    BY <1>1, <1>4, <1>8
  <2>3. N \in C!RowType'
    BY <1>1, <1>3, <1>4, <1>5, <1>6, <2>2 DEF C!RowType
  <2>4. Written(r, N, {})
    BY <1>4, <1>8, <2>1, <2>2, <2>3, TablesSay DEF Written, Sound
  <2> QED BY <2>4
<1>9. CASE old # {} /\ pk = row[r].pk /\ rows' = (rows \ old) \cup {N} /\ next' = next
  <2>1. PICK v \in old : v.pk = pk
    BY <1>9
  <2>2. N.pk \in 1..next' /\ N.pk < next'
    BY <1>1, <1>4, <1>9, <2>1, TablesSay DEF Tables
  <2>3. N \in C!RowType'
    BY <1>1, <1>3, <1>4, <1>5, <1>6, <2>2 DEF C!RowType
  <2>4. Written(r, N, old)
    BY <1>4, <1>7, <1>9, <2>1, <2>2, <2>3 DEF Written, Sound
  <2> QED BY <2>4
<1> HIDE DEF old
<1> QED BY <1>2, <1>8, <1>9

\* Other labs and hosts keep their rows.
LEMMA WrittenRows ==
    ASSUME Given, CapInv, NEW r \in Request, NEW n, NEW old, Written(r, n, old), labs' = labs,
           NEW m, m = lab[r], NEW g, g = HostOf(m)
    PROVE  /\ C!RowsOf(m)' = (C!RowsOf(m) \ old) \cup {n}
           /\ C!RowsOn(g)' = (C!RowsOn(g) \ old) \cup {n}
           /\ \A l : l # m => C!RowsOf(l)' = C!RowsOf(l)
           /\ \A h : h # g => C!RowsOn(h)' = C!RowsOn(h)
           /\ n \notin rows \ old
<1>1. /\ rows' = (rows \ old) \cup {n} /\ old \subseteq rows /\ n.lab = m
      /\ \A w \in old : w.lab = m
      /\ \A w \in rows \ old : w.pk # n.pk
  BY DEF Written
<1>2. n \notin rows \ old
  BY <1>1
<1>3. C!RowsOf(m)' = (C!RowsOf(m) \ old) \cup {n}
  BY <1>1 DEF C!RowsOf
<1>4. ASSUME NEW l, l # m PROVE C!RowsOf(l)' = C!RowsOf(l)
  BY <1>1, <1>4 DEF C!RowsOf
<1>5. \A h : C!RowsOn(h)' = {w \in rows' : HostOf(w.lab) = h} /\ C!RowsOn(h) = {w \in rows : HostOf(w.lab) = h}
  BY DEF C!RowsOn, HostOf
<1>6. HostOf(n.lab) = g /\ \A w \in old : HostOf(w.lab) = g
  BY <1>1
<1> HIDE DEF HostOf
<1>7. C!RowsOn(g)' = (C!RowsOn(g) \ old) \cup {n}
  BY <1>1, <1>5, <1>6
<1>8. ASSUME NEW h, h # g PROVE C!RowsOn(h)' = C!RowsOn(h)
  BY <1>1, <1>5, <1>6, <1>8
<1> QED BY <1>2, <1>3, <1>4, <1>7, <1>8

\* What a deployment was promised, its row keeps to.
LEMMA WrittenFits ==
    ASSUME Given, CapInv, NEW r \in Request, NEW n, NEW old, Written(r, n, old), C!Deploying(r),
           NEW S \in SUBSET rows, n \notin rows \ old, lab[r] \notin mixedLabs, row[r] \in S \/ row[r] \notin rows,
           NEW limit, C!Within(C!Plus(C!Sum(S \ {row[r]}), Grant(r)), limit)
    PROVE  C!Within(C!Sum((S \ old) \cup {n}), limit)
<1>1. S \ old = S \ {row[r]} /\ n \notin S \ old
  BY DEF Written, Sound
<1>2. n.cpu = Grant(r).cpu /\ n.mb = Grant(r).mb /\ n.mem = Grant(r).mem
  BY DEF Written
<1>3. n.cpu \in Nat /\ n.mb \in Nat /\ n.mem \in Nat
  BY <1>2, GrantsAre DEF CapInv
<1> DEFINE T == S \ {row[r]}
<1>4. T \in SUBSET rows /\ n \notin T /\ (S \ old) \cup {n} = T \cup {n}
  BY <1>1
<1> HIDE DEF T
<1>5. C!Sum(T \cup {n}) = C!Plus(C!Sum(T), n)
  BY <1>3, <1>4, RowAdded DEF CapInv
<1>6. C!Plus(C!Sum(T), n) = C!Plus(C!Sum(T), Grant(r))
  BY <1>2 DEF C!Plus
<1> QED BY <1>4, <1>5, <1>6 DEF T

\* Everybody else keeps what it has and was promised.
LEMMA WriteSpares ==
    ASSUME Given, CapInv, NEW r \in Request, C!Deploying(r), NEW n, NEW old, Written(r, n, old),
           labs' = labs, mixedLabs' = mixedLabs, mixedHosts' = mixedHosts,
           NEW q \in Request, q # r, SameAs(q)
    PROVE  Holds(q)' /\ Reads(q)' /\ Promises(q)'
<1> USE DEF CapInv
<1> DEFINE m == lab[r]
           g == HostOf(m)
<1>1. /\ C!Lab' = C!Lab /\ \A w \in C!RowType : w \in C!RowType' /\ w.pk <= next
      /\ next \in Nat /\ next' \in Nat /\ next' >= next
  <2>1. next \in Nat /\ next' \in {next, next + 1}
    BY DEF Written, Tables
  <2>2. 1..next \subseteq 1..next'
    BY <2>1
  <2> QED BY <2>1, <2>2 DEF C!Lab, C!RowType
<1>2. /\ \A l : l # m => C!RowsOf(l)' = C!RowsOf(l)
      /\ \A h : h # g => C!RowsOn(h)' = C!RowsOn(h)
  BY WrittenRows
<1>3. Holds(q)'
  <2>1. row[q] = C!NoRow \/ (row[q] \in C!RowType' /\ row[q].pk < next')
    <3>1. CASE row[q] # C!NoRow
      <4>1. row[q] \in C!RowType /\ row[q].pk < next
        BY <3>1 DEF Holds
      <4>2. row[q].pk \in Int
        BY <4>1 DEF C!RowType
      <4> QED BY <1>1, <4>1, <4>2
    <3> QED BY <3>1
  <2> QED BY <1>1, <2>1 DEF SameAs, Holds, C!Deploying
<1>4. Reads(q)'
  BY <1>1 DEF SameAs, Reads
<1>5. C!Deploying(q) => /\ m = lab[q] => lab[q] \in mixedLabs
                        /\ g = HostOf(lab[q]) => HostOf(lab[q]) \in mixedHosts
  BY DEF Pair
<1>6. Knows(q)'
  <2> SUFFICES ASSUME C!Deploying(q), row[q] # C!NoRow, NEW w \in rows', w.pk = row[q].pk
               PROVE  w.lab = lab[q] /\ (lab[q] \notin mixedLabs => w = row[q])
    BY DEF SameAs, Knows, C!Deploying
  <2>1. CASE w \in rows
    BY <2>1 DEF Promises, Knows
  <2>2. CASE w = n
    <3>1. row[q].pk < next
      BY DEF Holds
    <3>2. row[q].pk \in Int
      BY DEF Holds, C!RowType
    <3>3. n.pk # next
      BY <1>1, <2>2, <3>1, <3>2
    <3>4. PICK v \in old : v.pk = n.pk
      BY <3>3 DEF Written
    <3>5. v \in rows /\ v.lab = m /\ n.lab = m
      BY <3>4 DEF Written
    <3>6. v.lab = lab[q]
      BY <2>2, <3>4, <3>5 DEF Promises, Knows
    <3> QED BY <1>5, <2>2, <3>5, <3>6
  <2> QED BY <2>1, <2>2 DEF Written
<1>7. PICK l, h : l = lab[q] /\ l = lab'[q] /\ h = HostOf(l) /\ h = HostOf(l)' /\ HostOf(lab[q])' = h
  BY DEF SameAs, HostOf
<1>8. Grant(q)' = Grant(q)
  BY DEF Grant, SameAs, HostOf
<1>9. ASSUME C!Deploying(q), l \notin mixedLabs, Sound(q)' PROVE Sound(q)
  <2>1. row'[q] = row[q] /\ (row[q] = C!NoRow \/ row[q] \in rows')
    BY <1>9 DEF SameAs, Sound
  <2>2. row[q] # n \/ row[q] = C!NoRow
    BY <1>5, <1>7, <1>9 DEF Written, Holds
  <2> QED BY <2>1, <2>2 DEF Sound, Written
<1>10. LabPromise(q)'
  <2> SUFFICES ASSUME c_pc[q] \in {"host", "write"}, l \notin mixedLabs, Sound(q)'
               PROVE  C!Within(C!Plus(C!Sum(C!RowsOf(l)' \ {row[q]}), Grant(q)), labs[l])
    <3>1. C!RowsOf(lab[q])' = C!RowsOf(l)'
      BY <1>7
    <3> QED BY <1>7, <1>8, <3>1 DEF SameAs, LabPromise
  <2>1. C!Deploying(q)
    BY DEF C!Deploying
  <2>2. C!RowsOf(l)' = C!RowsOf(l)
    BY <1>2, <1>5, <1>7, <2>1
  <2> QED BY <1>7, <1>9, <2>1, <2>2 DEF Promises, LabPromise
<1>11. HostPromise(q)'
  <2> SUFFICES ASSUME h \in Host \ mixedHosts, c_pc[q] = "write", Sound(q)', ~C!Unbounded(h)
               PROVE  C!Within(C!Plus(C!Sum(C!RowsOn(h)' \ {row[q]}), Grant(q)), HostTotal[h])
    BY <1>7, <1>8 DEF SameAs, HostPromise, C!Unbounded
  <2>1. C!Deploying(q)
    BY DEF C!Deploying
  <2>2. l \notin mixedLabs /\ C!RowsOn(h)' = C!RowsOn(h)
    BY <1>2, <1>5, <1>7, <2>1, QuietLab
  <2> QED BY <1>7, <1>9, <2>1, <2>2 DEF Promises, HostPromise
<1>12. HostRead(q)'
  <2> SUFFICES ASSUME h \in Host \ mixedHosts, c_pc[q] = "host", NEW s \in C!Amount,
                      s = C!Sum({w \in C!RowsOn(h)' : w.lab \notin c_todo[q]})
               PROVE  s.cpu <= sum[q].cpu /\ s.mb <= sum[q].mb
    BY <1>7 DEF SameAs, HostRead, C!Amount
  <2>1. C!Deploying(q)
    BY DEF C!Deploying
  <2>2. C!RowsOn(h)' = C!RowsOn(h)
    BY <1>2, <1>5, <1>7, <2>1
  <2> QED BY <1>7, <2>2 DEF Promises, HostRead
<1> QED BY <1>3, <1>4, <1>6, <1>10, <1>11, <1>12 DEF Promises

\* The row that is written is the one that was checked.
LEMMA WriteKeeps ==
    ASSUME Given, CapInv, NEW r \in Request, C!Write(r)
    PROVE  CapInv'
<1> USE DEF CapInv
<1>1. PICK n, old : Written(r, n, old)
  BY WriteIs
<1>2. /\ c_pc[r] = "write" /\ C!Deploying(r) /\ C!Finish(r) /\ undisturbed' = {}
      /\ UNCHANGED <<labs, c_jobs, mixedLabs, mixedHosts>>
  BY DEF C!Write, C!Deploying
<1>3. Shape' /\ Beside(r)
  BY <1>2 DEF Shape, Beside, SameAs, C!Finish
<1>4. /\ c_pc'[r] = "idle" /\ c_job'[r] = C!NoJob /\ row'[r] = C!NoRow /\ sum'[r] = C!Nothing
      /\ c_todo'[r] = {} /\ choice'[r] = {}
  BY <1>2 DEF Shape, C!Finish, Reads
<1>5. ~C!Deploying(r)' /\ Holds(r)' /\ Reads(r)'
  BY <1>4 DEF C!Deploying, Holds, Reads, C!Amount, C!Nothing
<1>6. Promises(r)'
  BY <1>5 DEF Promises, Knows, LabPromise, HostPromise, HostRead, C!Deploying
<1>7. ASSUME NEW q \in Request PROVE Holds(q)' /\ Reads(q)' /\ Promises(q)'
  <2>1. CASE q # r
    BY <1>1, <1>2, <1>3, <2>1, WriteSpares DEF Beside
  <2> QED BY <1>5, <1>6, <2>1
<1>8. Mixes'
  BY <1>2 DEF Mixes, C!Lab, HostOf
<1>9. ASSUME NEW p \in Request, NEW q \in Request, p # q PROVE Pair(p, q)'
  <2>1. CASE p = r \/ q = r
    BY <1>5, <2>1 DEF Pair
  <2>2. CASE p # r /\ q # r
    <3>1. SameAs(p) /\ SameAs(q) /\ Pair(p, q)
      BY <1>3, <1>9, <2>2 DEF Beside
    <3> QED BY <1>2, <3>1 DEF SameAs, Pair, C!Deploying, HostOf
  <2> QED BY <2>1, <2>2
<1>0. PICK m, g : m = lab[r] /\ g = HostOf(m)
  OBVIOUS
<1>10. /\ C!RowsOf(m)' = (C!RowsOf(m) \ old) \cup {n}
       /\ C!RowsOn(g)' = (C!RowsOn(g) \ old) \cup {n}
       /\ \A l : l # m => C!RowsOf(l)' = C!RowsOf(l)
       /\ \A h : h # g => C!RowsOn(h)' = C!RowsOn(h)
       /\ n \notin rows \ old
  BY <1>1, <1>2, <1>0, WrittenRows
<1>11. C!RowsOf(m) \subseteq rows /\ C!RowsOn(g) \subseteq rows
  BY DEF C!RowsOf, C!RowsOn
<1>12. Tables'
  <2>1. IsFiniteSet(rows')
    <3>1. IsFiniteSet(rows \ old)
      BY FS_Subset DEF Tables
    <3> QED BY <1>1, <3>1, FS_AddElement DEF Written
  <2>2. next \in Nat \ {0} /\ next' \in {next, next + 1}
    BY <1>1 DEF Written, Tables
  <2>3. next' \in Nat \ {0} /\ next' >= next /\ 1..next \subseteq 1..next'
    BY <2>2
  <2>4. rows' \subseteq C!RowType'
    <3>1. C!RowType \subseteq C!RowType'
      BY <1>2, <2>3 DEF C!RowType, C!Lab
    <3> QED BY <1>1, <3>1 DEF Written, Tables
  <2>5. n.mem <= 2 * n.mb + 1
    BY <1>1, <1>2, GrantsAre DEF Written
  <2>6. \A w \in rows' : w.pk < next' /\ w.mem <= 2 * w.mb + 1
    <3>1. ASSUME NEW w \in rows PROVE w.pk < next'
      <4>1. w.pk < next /\ w.pk \in Nat
        BY TablesSay DEF Tables
      <4> QED BY <2>2, <2>3, <4>1
    <3> QED BY <1>1, <2>5, <3>1 DEF Written, Tables
  <2>7. \A v, w \in rows' : v.pk = w.pk => v = w
    BY <1>1 DEF Written, Tables
  <2>8. /\ labs' \in Seq(LabType) /\ Len(labs') <= MaxLabs
        /\ \A l \in C!Lab' : C!Unbounded(HostOf(l)') =>
               labs'[l].cpu = C!NoLimit /\ labs'[l].mb = C!NoLimit
    BY <1>2 DEF Tables, C!Lab, HostOf, C!Unbounded
  <2> QED BY <2>1, <2>3, <2>4, <2>6, <2>7, <2>8 DEF Tables, HostOf, C!Unbounded
<1>13. row[r] \notin rows \/ row[r] \in C!RowsOf(m)
  BY <1>2, <1>0, TablesSay DEF Holds, C!RowsOf
<1>14. C!LabsKept'
  <2> SUFFICES ASSUME NEW l \in C!Lab \ mixedLabs PROVE C!Within(C!Sum(C!RowsOf(l)'), labs[l])
    BY <1>2 DEF C!LabsKept, C!Lab
  <2>1. CASE l # m
    BY <1>10, <2>1 DEF C!LabsKept
  <2>2. CASE l = m
    <3>1. C!Within(C!Plus(C!Sum(C!RowsOf(m) \ {row[r]}), Grant(r)), labs[m])
      BY <1>1, <1>2, <1>0, <2>2 DEF Promises, LabPromise, Written
    <3>2. C!Within(C!Sum((C!RowsOf(m) \ old) \cup {n}), labs[m])
      BY <1>1, <1>2, <1>0, <1>10, <1>11, <1>13, <2>2, <3>1, WrittenFits
    <3> QED BY <1>10, <2>2, <3>2
  <2> QED BY <2>1, <2>2
<1>15. C!HostsKept'
  <2> SUFFICES ASSUME NEW h \in Host \ mixedHosts, ~C!Unbounded(h)
               PROVE  C!Within(C!Sum(C!RowsOn(h)'), HostTotal[h])
    BY <1>2 DEF C!HostsKept, C!Unbounded
  <2>1. CASE h # g
    BY <1>10, <2>1 DEF C!HostsKept
  <2>2. CASE h = g
    <3>0. m \notin mixedLabs
      BY <1>2, <1>0, <2>2, QuietLab
    <3>1. C!Within(C!Plus(C!Sum(C!RowsOn(g) \ {row[r]}), Grant(r)), HostTotal[g])
      BY <1>1, <1>2, <1>0, <2>2, <3>0 DEF Promises, HostPromise, Written
    <3>2. row[r] \in C!RowsOn(g) \/ row[r] \notin rows
      BY <1>0, <1>13 DEF C!RowsOf, C!RowsOn, HostOf
    <3>3. C!Within(C!Sum((C!RowsOn(g) \ old) \cup {n}), HostTotal[g])
      BY <1>1, <1>2, <1>0, <1>10, <1>11, <3>0, <3>1, <3>2, WrittenFits
    <3> QED BY <1>10, <2>2, <3>3
  <2> QED BY <2>1, <2>2
<1> QED BY <1>3, <1>7, <1>8, <1>9, <1>12, <1>14, <1>15

-----------------------------------------------------------------------------
(* Capacity: a lab is added.                                                *)

\* A lab begins with no rows.
LEMMA InsertLabKeeps ==
    ASSUME Given, CapInv, NEW r \in Request, C!InsertLab(r)
    PROVE  CapInv'
<1> USE DEF CapInv
<1>1. /\ c_pc[r] = "insert" /\ ~C!Deploying(r) /\ C!Finish(r) /\ undisturbed' = {}
      /\ UNCHANGED <<rows, next, c_jobs, mixedLabs, mixedHosts>> /\ Len(labs) < MaxLabs
  BY DEF C!InsertLab, C!Deploying
<1>2. PICK new : /\ new = [host |-> new.host, failed |-> new.failed, cpu |-> new.cpu, mb |-> new.mb]
                 /\ new.host = c_job[r].host /\ new.failed = c_job[r].failed
                 /\ IF C!Unbounded(new.host) THEN new.cpu = C!NoLimit /\ new.mb = C!NoLimit
                    ELSE new.cpu = c_job[r].limit.cpu /\ new.mb = c_job[r].limit.mb
                 /\ labs' = Append(labs, new)
  BY DEF C!InsertLab
<1>3. new \in LabType
  <2>1. c_job[r].host \in Host /\ c_job[r].failed \in BOOLEAN /\ c_job[r].limit \in LabLimit
    BY <1>1 DEF Holds
  <2>2. c_job[r].limit.cpu \in Nat \cup {C!NoLimit} /\ c_job[r].limit.mb \in Nat \cup {C!NoLimit}
    BY <2>1 DEF Given, C!LimitAssumption
  <2> QED BY <1>2, <2>1, <2>2 DEF LabType
<1>4. /\ labs \in Seq(LabType) /\ Len(labs) \in Nat /\ C!Lab = 1..Len(labs)
  BY DEF Tables, C!Lab
<1> DEFINE k == Len(labs) + 1
<1>5. /\ labs' \in Seq(LabType) /\ Len(labs') = k /\ labs'[k] = new
      /\ \A l \in C!Lab : labs'[l] = labs[l]
      /\ C!Lab' = C!Lab \cup {k} /\ k \notin C!Lab
  <2>1. labs' \in Seq(LabType) /\ Len(labs') = k /\ labs'[k] = new
        /\ \A l \in C!Lab : labs'[l] = labs[l]
    BY <1>2, <1>3, <1>4
  <2>2. C!Lab' = 1..k
    BY <2>1 DEF C!Lab
  <2> QED BY <1>4, <2>1, <2>2
<1> HIDE DEF k
<1>6. \A l \in C!Lab : HostOf(l)' = HostOf(l)
  BY <1>5 DEF HostOf
<1>7. /\ C!RowType \subseteq C!RowType'
      /\ \A l : C!RowsOf(l)' = C!RowsOf(l)
      /\ \A h : C!RowsOn(h)' = C!RowsOn(h)
  <2>1. C!RowType \subseteq C!RowType'
    BY <1>1, <1>5 DEF C!RowType
  <2>2. \A w \in rows : labs'[w.lab].host = labs[w.lab].host
    BY <1>5, TablesSay
  <2> QED BY <1>1, <2>1, <2>2 DEF C!RowsOf, C!RowsOn
<1>8. Shape' /\ Beside(r)
  BY <1>1 DEF Shape, Beside, SameAs, C!Finish
<1>9. /\ c_pc'[r] = "idle" /\ c_job'[r] = C!NoJob /\ row'[r] = C!NoRow /\ sum'[r] = C!Nothing
      /\ c_todo'[r] = {} /\ choice'[r] = {}
  BY <1>1 DEF Shape, C!Finish, Reads
<1>10. ~C!Deploying(r)' /\ Holds(r)' /\ Reads(r)'
  BY <1>9 DEF C!Deploying, Holds, Reads, C!Amount, C!Nothing
<1>11. Promises(r)'
  BY <1>10 DEF Promises, Knows, LabPromise, HostPromise, HostRead, C!Deploying
<1>12. Tables'
  <2>1. \A l \in C!Lab' : C!Unbounded(HostOf(l)') =>
            labs'[l].cpu = C!NoLimit /\ labs'[l].mb = C!NoLimit
    <3> SUFFICES ASSUME NEW l \in C!Lab', C!Unbounded(labs'[l].host)
                 PROVE  labs'[l].cpu = C!NoLimit /\ labs'[l].mb = C!NoLimit
      BY DEF HostOf, C!Unbounded
    <3>1. CASE l \in C!Lab
      BY <1>5, <3>1 DEF Tables, HostOf
    <3>2. CASE l = k
      BY <1>2, <1>5, <3>2
    <3> QED BY <1>5, <3>1, <3>2
  <2>2. Len(labs') <= MaxLabs
    BY <1>1, <1>4, <1>5 DEF Given, C!BoundAssumption, k
  <2> QED BY <1>1, <1>5, <1>7, <2>1, <2>2 DEF Tables, HostOf, C!Unbounded
<1>13. Mixes'
  BY <1>1, <1>5, <1>6 DEF Mixes
<1>14. ASSUME NEW q \in Request, q # r PROVE Holds(q)' /\ Reads(q)' /\ Promises(q)'
  <2>1. SameAs(q)
    BY <1>8, <1>14 DEF Beside
  <2>2. Holds(q)'
    BY <1>1, <1>5, <1>7, <2>1 DEF SameAs, Holds, C!Deploying
  <2>3. Reads(q)'
    BY <1>5, <2>1 DEF SameAs, Reads
  <2>4. Knows(q)'
    BY <1>1, <2>1 DEF SameAs, Promises, Knows, C!Deploying
  <2>5. CASE ~C!Deploying(q)
    BY <2>1, <2>2, <2>3, <2>4, <2>5 DEF SameAs, Promises, LabPromise, HostPromise, HostRead, C!Deploying
  <2>6. CASE C!Deploying(q)
    <3>1. PICK l, h : /\ l = lab[q] /\ l = lab'[q] /\ h = HostOf(l) /\ HostOf(lab[q])' = h
                      /\ labs'[l] = labs[l] /\ C!RowsOf(lab[q])' = C!RowsOf(l)'
      BY <1>5, <2>1, <2>6 DEF SameAs, Holds, HostOf
    <3>2. Grant(q)' = Grant(q) /\ (Sound(q)' <=> Sound(q))
      BY <1>1, <2>1, <3>1 DEF Grant, SameAs, HostOf, Sound
    <3>3. LabPromise(q)'
      BY <1>1, <1>7, <2>1, <3>1, <3>2 DEF SameAs, Promises, LabPromise
    <3>4. HostPromise(q)'
      BY <1>1, <1>7, <2>1, <3>1, <3>2 DEF SameAs, Promises, HostPromise, C!Unbounded
    <3>5. HostRead(q)'
      BY <1>1, <1>7, <2>1, <3>1 DEF SameAs, Promises, HostRead, C!Amount
    <3> QED BY <2>2, <2>3, <2>4, <3>3, <3>4, <3>5 DEF Promises
  <2> QED BY <2>5, <2>6
<1>15. ASSUME NEW p \in Request, NEW q \in Request, p # q PROVE Pair(p, q)'
  <2>1. CASE p = r \/ q = r
    BY <1>10, <2>1 DEF Pair
  <2>2. CASE p # r /\ q # r
    <3>1. SameAs(p) /\ SameAs(q) /\ Pair(p, q) /\ Holds(p) /\ Holds(q)
      BY <1>8, <1>15, <2>2 DEF Beside
    <3>2. /\ C!Deploying(p)' <=> C!Deploying(p)
          /\ C!Deploying(q)' <=> C!Deploying(q)
      BY <3>1 DEF SameAs, C!Deploying
    <3>3. /\ C!Deploying(p) => HostOf(lab[p])' = HostOf(lab[p])
          /\ C!Deploying(q) => HostOf(lab[q])' = HostOf(lab[q])
      BY <1>5, <3>1 DEF SameAs, Holds, HostOf
    <3> QED BY <1>1, <3>1, <3>2, <3>3 DEF SameAs, Pair
  <2> QED BY <2>1, <2>2
<1>16. C!LabsKept'
  <2> SUFFICES ASSUME NEW l \in C!Lab', l \notin mixedLabs PROVE C!Within(C!Sum(C!RowsOf(l)), labs'[l])
    BY <1>1, <1>7 DEF C!LabsKept
  <2>1. CASE l \in C!Lab
    BY <1>5, <2>1 DEF C!LabsKept
  <2>2. CASE l = k
    <3>1. C!RowsOf(l) = {}
      BY <1>5, <2>2, TablesSay DEF C!RowsOf
    <3>2. new.cpu \in Nat \cup {C!NoLimit} /\ new.mb \in Nat \cup {C!NoLimit}
      BY <1>3 DEF LabType
    <3>3. C!Within(C!Nothing, new)
      BY <3>2 DEF C!Within, C!Nothing, C!NoLimit
    <3> QED BY <1>5, <2>2, <3>1, <3>3, NoRowsSum
  <2> QED BY <1>5, <2>1, <2>2
<1>17. C!HostsKept'
  BY <1>1, <1>7 DEF C!HostsKept, C!Unbounded
<1> QED BY <1>8, <1>10, <1>11, <1>12, <1>13, <1>14, <1>15, <1>16, <1>17

-----------------------------------------------------------------------------
(* Capacity: what holds.                                                    *)

\* Every step.
LEMMA NextCapInv == Given /\ CapInv /\ [C!Next]_(C!vars) => CapInv'
<1> SUFFICES ASSUME Given, CapInv, [C!Next]_(C!vars) PROVE CapInv'
  OBVIOUS
<1>1. CASE C!Delete
  BY <1>1, DeleteKeeps
<1>2. ASSUME NEW r \in Request, C!BeginDeploy(r) PROVE CapInv'
  BY <1>2, BeginDeployKeeps
<1>3. ASSUME NEW r \in Request, C!CheckLab(r) PROVE CapInv'
  BY <1>3, CheckLabKeeps
<1>4. ASSUME NEW r \in Request, C!ReadLab(r) PROVE CapInv'
  BY <1>4, ReadLabKeeps
<1>5. ASSUME NEW r \in Request, C!CheckHost(r) PROVE CapInv'
  BY <1>5, CheckHostKeeps
<1>6. ASSUME NEW r \in Request, C!Write(r) PROVE CapInv'
  BY <1>6, WriteKeeps
<1>7. ASSUME NEW r \in Request, C!Fail(r) \/ C!FailLab(r) PROVE CapInv'
  BY <1>7, FailKeeps
<1>8. ASSUME NEW r \in Request, C!BeginSchedule(r) PROVE CapInv'
  BY <1>8, BeginScheduleKeeps
<1>9. ASSUME NEW r \in Request, C!Consider(r) PROVE CapInv'
  BY <1>9, ConsiderKeeps
<1>10. ASSUME NEW r \in Request, C!Select(r) PROVE CapInv'
  BY <1>10, SelectKeeps
<1>11. ASSUME NEW r \in Request, C!BeginCreate(r) PROVE CapInv'
  BY <1>11, BeginCreateKeeps
<1>12. ASSUME NEW r \in Request, C!CheckRoom(r) PROVE CapInv'
  BY <1>12, CheckRoomKeeps
<1>13. ASSUME NEW r \in Request, C!BeginCreateScheduled(r) PROVE CapInv'
  BY <1>13, BeginCreateScheduledKeeps
<1>14. ASSUME NEW r \in Request, C!ConsiderHost(r) PROVE CapInv'
  BY <1>14, ConsiderHostKeeps
<1>15. ASSUME NEW r \in Request, C!SelectHost(r) PROVE CapInv'
  BY <1>15, SelectHostKeeps
<1>16. ASSUME NEW r \in Request, C!InsertLab(r) PROVE CapInv'
  BY <1>16, InsertLabKeeps
<1>17. CASE UNCHANGED C!vars
  <2>1. /\ UNCHANGED <<labs, rows, c_pc, c_job, lab, row, c_todo, sum, choice, next, c_jobs,
                       mixedLabs, mixedHosts, undisturbed>>
    BY <1>17 DEF C!vars, C!history
  <2>2. Steady /\ Shape' /\ \A q \in Request : SameAs(q)
    BY <2>1 DEF CapInv, Steady, Shape, SameAs
  <2>3. \A q \in Request : Holds(q)' /\ Reads(q)' /\ Promises(q)'
    BY <2>2, Bystander DEF CapInv
  <2>4. Tables' /\ C!LabsKept' /\ C!HostsKept'
    BY <2>2, SteadyTables DEF CapInv
  <2>5. Mixes'
    BY <2>1 DEF CapInv, Mixes, HostOf, C!Lab
  <2>6. \A q, r \in Request : q # r => Pair(q, r)'
    BY <2>1 DEF CapInv, Pair, HostOf, C!Deploying
  <2> QED BY <2>2, <2>3, <2>4, <2>5, <2>6 DEF CapInv
<1> QED BY <1>1, <1>2, <1>3, <1>4, <1>5, <1>6, <1>7, <1>8, <1>9, <1>10, <1>11, <1>12, <1>13,
           <1>14, <1>15, <1>16, <1>17 DEF C!Next

\* The invariant holds.
LEMMA CapHolds ==
    ASSUME Given
    PROVE  C!Spec => []CapInv
<1>1. C!Init => CapInv
  BY InitCapInv
<1>2. CapInv /\ [C!Next]_(C!vars) => CapInv'
  BY NextCapInv
<1> QED BY <1>1, <1>2, PTL DEF C!Spec

\* What containers are given exceeds a lab's limit by less than a MiB each.
LEMMA GrantsAreNear == ASSUME Given, CapInv PROVE C!GrantsNearLimit
<1> SUFFICES ASSUME NEW l \in C!Lab \ mixedLabs, labs[l].mb # C!NoLimit
             PROVE  C!MapThenSumSet(LAMBDA w : w.mem, C!RowsOf(l))
                      <= 2 * labs[l].mb + C!Cardinality(C!RowsOf(l))
  BY DEF C!GrantsNearLimit
<1> DEFINE S == C!RowsOf(l)
<1>1. S \subseteq rows
  BY DEF C!RowsOf
<1>2. C!Sum(S).mb <= labs[l].mb
  BY DEF CapInv, C!LabsKept, C!Within
<1>3. /\ IsFiniteSet(S) /\ Amounts(S) /\ C!Sum(S) \in [cpu : Nat, mb : Nat]
      /\ MemOf(S) \in Nat /\ Cardinality(S) \in Nat
  BY <1>1, RowsAreSummed, RowsSum, FS_CardinalityType DEF CapInv
<1>4. \A w \in S : w.mem <= 2 * w.mb + 1
  BY <1>1 DEF CapInv, Tables
<1>5. labs[l].mb \in Nat
  BY TablesSay DEF CapInv
<1> HIDE DEF S
<1>6. MemOf(S) <= 2 * C!Sum(S).mb + Cardinality(S)
  BY <1>3, <1>4, MemNear
<1>7. C!Cardinality(S) = Cardinality(S)
  BY DEF C!Cardinality, Cardinality
<1>8. MemOf(S) <= 2 * labs[l].mb + Cardinality(S)
  BY <1>2, <1>3, <1>5, <1>6
<1> QED BY <1>7, <1>8 DEF MemOf, S

\* The invariant types the variables.
LEMMA CapTyped == ASSUME CapInv PROVE C!TypeOK
<1> USE DEF CapInv
<1>1. /\ labs \in Seq([host : Host, failed : BOOLEAN, cpu : Nat \cup {C!NoLimit},
                       mb : Nat \cup {C!NoLimit}])
      /\ Len(labs) <= MaxLabs /\ rows \subseteq C!RowType
      /\ \A v, w \in rows : v.pk = w.pk => v = w
  BY DEF Tables, LabType
<1>2. ASSUME NEW r \in Request
      PROVE  /\ c_pc[r] \in {"lab", "host", "write"} => c_job[r].op = "deploy" /\ lab[r] \in C!Lab
             /\ row[r] = C!NoRow \/ row[r] \in C!RowType
             /\ sum[r] \in C!Amount
             /\ c_pc[r] = "idle" => c_job[r] = C!NoJob /\ choice[r] = {} /\ c_todo[r] = {}
  BY DEF Holds, Reads, C!Deploying
<1> QED BY <1>1, <1>2 DEF C!TypeOK, Shape, Mixes

(* A lab, and a bounded host, on which no two deployments overlapped stays  *)
(* within its limits however many awaits lie between the check and the row  *)
(* that is written (controller.py:1250, 1602), with rows replaced and       *)
(* deleted meanwhile; and what containers are given, which rows record in   *)
(* whole MiB, stays near the limit (controller_helpers.py:101, 235).        *)
THEOREM CapacityStaysKept ==
    ASSUME Given
    PROVE  C!Spec => []CapacityKept
<1>1. CapInv => CapacityKept
  BY GrantsAreNear DEF CapInv, CapacityKept
<1> QED BY <1>1, CapHolds, PTL

(* Ports are given out of the range and requests stand where their          *)
(* functions say (lab_host/controller.py); so do labs, rows and requests    *)
(* of the capacity accounting (control_plane/controller.py).                *)
THEOREM OthersTyped ==
    ASSUME Assumed, Given
    PROVE  P!Spec /\ C!Spec => []TheOthersTyped
<1>1. CapInv => C!TypeOK
  BY CapTyped
<1> QED BY <1>1, CapHolds, PortsTyped, PTL DEF TheOthersTyped

-----------------------------------------------------------------------------
(* Capacity: loads.                                                         *)

\* A load is a ratio, and what it divides by is not zero.
IsLoad(p) == p = <<p[1], p[2]>> /\ p[1] \in Nat /\ p[2] \in Nat \ {0}

\* More of both is more.
LEMMA TimesGrows ==
    ASSUME NEW a \in Nat, NEW b \in Nat, NEW k \in Nat, a <= b
    PROVE  a * k <= b * k
<1>1. PICK c \in Nat : b = a + c
  <2>1. b - a \in Nat /\ b = a + (b - a)
    OBVIOUS
  <2> QED BY <2>1
<1>2. b * k = a * k + c * k
  BY <1>1
<1>3. c * k \in Nat /\ a * k \in Nat
  OBVIOUS
<1> QED BY <1>2, <1>3

\* A factor can be taken out.
LEMMA TimesLess ==
    ASSUME NEW a \in Nat, NEW b \in Nat, NEW k \in Nat \ {0}, a * k <= b * k
    PROVE  a <= b
<1> SUFFICES ASSUME b < a PROVE FALSE
  OBVIOUS
<1>1. b + 1 <= a /\ b + 1 \in Nat
  OBVIOUS
<1>2. (b + 1) * k <= a * k
  BY <1>1, TimesGrows
<1>3. (b + 1) * k = b * k + k /\ b * k \in Nat /\ a * k \in Nat
  OBVIOUS
<1> QED BY <1>2, <1>3

\* Loads are compared as ratios are.
LEMMA LeqTrans ==
    ASSUME NEW p, NEW q, NEW t, IsLoad(p), IsLoad(q), IsLoad(t), C!Leq(p, q), C!Leq(q, t)
    PROVE  C!Leq(p, t)
<1>1. PICK a \in Nat, b \in Nat, c \in Nat, d \in Nat \ {0}, e \in Nat, f \in Nat :
        a = p[1] /\ b = p[2] /\ c = q[1] /\ d = q[2] /\ e = t[1] /\ f = t[2]
  BY DEF IsLoad
<1>2. a * d <= c * b /\ c * f <= e * d
  BY <1>1 DEF C!Leq
<1>3. a * d \in Nat /\ c * b \in Nat /\ c * f \in Nat /\ e * d \in Nat /\ a * f \in Nat /\ e * b \in Nat
  OBVIOUS
<1>4. (a * d) * f <= (c * b) * f /\ (c * f) * b <= (e * d) * b
  BY <1>2, <1>3, TimesGrows
<1>5. (a * d) * f = (a * f) * d /\ (c * b) * f = (c * f) * b /\ (e * d) * b = (e * b) * d
  OBVIOUS
<1>6. (a * f) * d \in Nat /\ (c * f) * b \in Nat /\ (e * b) * d \in Nat
  BY <1>3
<1>7. (a * f) * d <= (e * b) * d
  BY <1>4, <1>5, <1>6
<1>8. a * f <= e * b
  BY <1>3, <1>7, TimesLess
<1> QED BY <1>1, <1>8 DEF C!Leq

\* One of two loads is no less, and none is less than itself.
LEMMA LeqTotal ==
    ASSUME NEW p, NEW q, IsLoad(p), IsLoad(q)
    PROVE  C!Leq(p, p) /\ (C!Leq(p, q) \/ C!Leq(q, p))
<1>1. PICK a \in Nat, b \in Nat, c \in Nat, d \in Nat :
        a = p[1] /\ b = p[2] /\ c = q[1] /\ d = q[2]
  BY DEF IsLoad
<1>2. a * d \in Nat /\ c * b \in Nat /\ a * b \in Nat
  OBVIOUS
<1>3. a * b <= a * b /\ (a * d <= c * b \/ c * b <= a * d)
  BY <1>2
<1> QED BY <1>1, <1>3 DEF C!Leq

\* The higher of two grows with them.
LEMMA HigherGrows ==
    ASSUME NEW p, NEW q, NEW s, NEW t, IsLoad(p), IsLoad(q), IsLoad(s), IsLoad(t),
           C!Leq(p, s), C!Leq(q, t)
    PROVE  /\ IsLoad(C!Higher(p, q)) /\ IsLoad(C!Higher(s, t))
           /\ C!Leq(C!Higher(p, q), C!Higher(s, t))
<1> DEFINE h == C!Higher(s, t)
<1>1. IsLoad(h) /\ C!Leq(s, h) /\ C!Leq(t, h)
  BY LeqTotal DEF C!Higher
<1> HIDE DEF h
<1>2. C!Leq(p, h) /\ C!Leq(q, h)
  BY <1>1, LeqTrans
<1>3. C!Higher(p, q) \in {p, q}
  BY DEF C!Higher
<1> QED BY <1>1, <1>2, <1>3 DEF h

\* A ratio grows with what is used.
LEMMA RatioGrows ==
    ASSUME NEW a \in Nat, NEW b \in Nat, a <= b, NEW k \in Nat
    PROVE  IsLoad(C!Ratio(a, k)) /\ IsLoad(C!Ratio(b, k)) /\ C!Leq(C!Ratio(a, k), C!Ratio(b, k))
<1>1. CASE k > 0
  <2>1. a * k <= b * k
    BY TimesGrows
  <2> QED BY <1>1, <2>1 DEF C!Ratio, C!Leq, IsLoad
<1>2. CASE ~(k > 0)
  BY <1>2 DEF C!Ratio, C!Leq, IsLoad
<1> QED BY <1>1, <1>2

\* So does the load of a lab.
LEMMA LoadGrows ==
    ASSUME Given, Tables, NEW l \in C!Lab,
           NEW u \in [cpu : Nat, mb : Nat], NEW v \in [cpu : Nat, mb : Nat],
           u.cpu <= v.cpu, u.mb <= v.mb
    PROVE  /\ IsLoad(C!LabLoad(l, u)) /\ IsLoad(C!LabLoad(l, v))
           /\ C!Leq(C!LabLoad(l, u), C!LabLoad(l, v))
<1>1. CASE C!Unbounded(labs[l].host)
  <2>1. C!LabLoad(l, u) = <<0, 1>> /\ C!LabLoad(l, v) = <<0, 1>>
    BY <1>1 DEF C!LabLoad
  <2> QED BY <2>1 DEF C!Leq, IsLoad
<1>2. CASE ~C!Unbounded(labs[l].host)
  <2>1. PICK k \in Nat, n \in Nat :
          /\ k = IF labs[l].cpu = C!NoLimit THEN HostTotal[labs[l].host].cpu ELSE labs[l].cpu
          /\ n = IF labs[l].mb = C!NoLimit THEN HostTotal[labs[l].host].mb ELSE labs[l].mb
    BY TablesSay DEF HostOf
  <2>2. \A x : C!LabLoad(l, x) = C!Higher(C!Ratio(x.cpu, k), C!Ratio(x.mb, n))
    BY <1>2, <2>1 DEF C!LabLoad, C!Load
  <2>3. /\ IsLoad(C!Ratio(u.cpu, k)) /\ IsLoad(C!Ratio(v.cpu, k))
        /\ IsLoad(C!Ratio(u.mb, n)) /\ IsLoad(C!Ratio(v.mb, n))
        /\ C!Leq(C!Ratio(u.cpu, k), C!Ratio(v.cpu, k)) /\ C!Leq(C!Ratio(u.mb, n), C!Ratio(v.mb, n))
    BY RatioGrows
  <2> QED BY <2>2, <2>3, HigherGrows
<1> QED BY <1>1, <1>2

\* The load of a lab with some of the rows.
LoadWith(l, S) == C!LabLoad(l, C!Sum(S))

\* With more rows it is no less.
LEMMA RowsLoad ==
    ASSUME Given, Tables, NEW l \in C!Lab, NEW S \in SUBSET rows, NEW T \in SUBSET S
    PROVE  IsLoad(LoadWith(l, T)) /\ IsLoad(LoadWith(l, S)) /\ C!Leq(LoadWith(l, T), LoadWith(l, S))
<1>1. /\ IsFiniteSet(S) /\ Amounts(S) /\ C!Sum(S) \in [cpu : Nat, mb : Nat]
      /\ C!Sum(T) \in [cpu : Nat, mb : Nat]
  BY RowsAreSummed
<1>2. C!Sum(T).cpu <= C!Sum(S).cpu /\ C!Sum(T).mb <= C!Sum(S).mb
  BY <1>1, SumLess
<1> QED BY <1>1, <1>2, LoadGrows DEF LoadWith

-----------------------------------------------------------------------------
(* Capacity: the scheduler.                                                 *)

\* What it asks a lab for.
AskOf(r) == c_job[r].payload.ask

\* A request beside which nothing was written is between its first read and its
\* write; what it has read is so, and the lab it has chosen has room for it.
Reliable(r) ==
    /\ c_pc[r] \in {"consider", "lab", "host", "write"}
    /\ c_pc[r] = "consider" =>
           \A c \in choice[r] : C!Fits(c.id, AskOf(r)) /\ c.used = C!Sum(C!RowsOf(c.id))
    /\ c_pc[r] \in {"lab", "host", "write"} => Sound(r)
    /\ c_pc[r] \in {"lab", "host"} =>
           C!Fits(lab[r], AskOf(r)) /\ ~C!Unbounded(HostOf(lab[r]))
    /\ c_pc[r] = "host" =>
           \A h \in Host : h = HostOf(lab[r]) =>
               /\ c_todo[r] \subseteq C!LabsOn(h)
               /\ sum[r] = C!Sum({w \in C!RowsOn(h) : w.lab \notin c_todo[r]})

\* No lab that may be chosen has less to do than this one.
LeastOf(k) ==
    \A m \in C!Lab : C!Eligible(m) => C!Leq(LoadWith(k, C!RowsOf(k)), LoadWith(m, C!RowsOf(m)))

\* Such a request has noted all labs it may choose from, and chosen the one with
\* the least load.
Impartial(r) ==
    /\ c_pc[r] = "consider" =>
           \A l \in C!Lab \ c_todo[r] : C!Eligible(l) => \E c \in choice[r] : c.id = l
    /\ c_pc[r] \in {"lab", "host", "write"} /\ c_job[r].method = "least_allocated" =>
           LeastOf(lab[r])

\* The inductive invariant: with CapInv.
SchInv ==
    /\ \A r \in undisturbed : Reliable(r)
    /\ even => \A r \in undisturbed : Impartial(r)
    /\ C!Balanced

\* At first.
LEMMA InitSchInv == C!Init => SchInv
<1> SUFFICES ASSUME C!Init PROVE SchInv
  OBVIOUS
<1>1. undisturbed = {} /\ C!Lab = {}
  BY DEF C!Init, C!Lab
<1> QED BY <1>1 DEF SchInv, C!Balanced

\* Labs and rows stay, and the scheduler did no worse than before.
Quiescent == labs' = labs /\ rows' = rows /\ (even' => even)

\* What follows from the labs and rows stays, too.
LEMMA QuiescentIs ==
    ASSUME Quiescent
    PROVE  /\ C!Lab' = C!Lab
           /\ \A l : /\ C!RowsOf(l)' = C!RowsOf(l) /\ HostOf(l)' = HostOf(l)
                     /\ C!Eligible(l)' = C!Eligible(l)
           /\ \A h : /\ C!RowsOn(h)' = C!RowsOn(h) /\ C!LabsOn(h)' = C!LabsOn(h)
                     /\ C!Unbounded(h)' = C!Unbounded(h)
           /\ \A l, u : C!LabLoad(l, u)' = C!LabLoad(l, u)
           /\ \A l, ask : C!Fits(l, ask)' = C!Fits(l, ask)
           /\ \A l : LeastOf(l)' = LeastOf(l)
<1>1. /\ C!Lab' = C!Lab
      /\ \A l : /\ C!RowsOf(l)' = C!RowsOf(l) /\ HostOf(l)' = HostOf(l)
                /\ C!Eligible(l)' = C!Eligible(l)
      /\ \A h : /\ C!RowsOn(h)' = C!RowsOn(h) /\ C!LabsOn(h)' = C!LabsOn(h)
                /\ C!Unbounded(h)' = C!Unbounded(h)
  BY DEF Quiescent, C!Lab, C!RowsOf, C!RowsOn, C!LabsOn, HostOf, C!Eligible, C!Unbounded
<1>2. \A l, u : C!LabLoad(l, u)' = C!LabLoad(l, u)
  BY DEF Quiescent, C!LabLoad, C!Unbounded
<1>3. \A l, ask : C!Fits(l, ask)' = C!Fits(l, ask)
  BY DEF Quiescent, C!Fits, C!Unbounded, C!RowsOf, C!RowsOn
<1>4. \A l, m : LoadWith(m, C!RowsOf(m))' = LoadWith(m, C!RowsOf(m))
  BY <1>1, <1>2 DEF LoadWith
<1>5. \A l : LeastOf(l)' = LeastOf(l)
  BY <1>1, <1>4 DEF LeastOf
<1> QED BY <1>1, <1>2, <1>3, <1>5

\* A step that writes nothing keeps the invariant, if the request that takes it
\* does its part.
LEMMA SchGoesOn ==
    ASSUME CapInv, SchInv, NEW r \in Request, Quiescent, Beside(r),
           undisturbed' \subseteq undisturbed \cup {r},
           r \in undisturbed' => Reliable(r)' /\ (even' => Impartial(r)')
    PROVE  SchInv'
<1>1. ASSUME NEW q \in undisturbed', q # r PROVE Reliable(q)' /\ (even' => Impartial(q)')
  <2>1. q \in undisturbed /\ SameAs(q)
    BY <1>1 DEF Beside, CapInv, Shape
  <2>2. AskOf(q)' = AskOf(q) /\ Sound(q)' = Sound(q)
    BY <2>1 DEF SameAs, AskOf, Sound, Quiescent
  <2>3. Reliable(q) /\ (even' => Impartial(q))
    BY <2>1 DEF SchInv, Quiescent
  <2>4. PICK l : l = lab[q] /\ l = lab'[q]
    BY <2>1 DEF SameAs
  <2>5. /\ C!Fits(l, AskOf(q))' = C!Fits(l, AskOf(q)) /\ HostOf(l)' = HostOf(l)
        /\ HostOf(lab[q])' = HostOf(l)
    <3>1. HostOf(lab[q])' = HostOf(l)'
      BY <2>4 DEF HostOf
    <3> QED BY <2>2, <3>1, QuiescentIs DEF C!Fits, Quiescent
  <2>6. Reliable(q)'
    <3>1. c_pc'[q] = "consider" =>
              \A c \in choice'[q] : C!Fits(c.id, AskOf(q))' /\ c.used = C!Sum(C!RowsOf(c.id)')
      BY <2>1, <2>2, <2>3, QuiescentIs DEF SameAs, Reliable
    <3> QED BY <2>1, <2>2, <2>3, <2>4, <2>5, <3>1, QuiescentIs DEF SameAs, Reliable
  <2>7. even' => Impartial(q)'
    BY <2>1, <2>3, <2>4, QuiescentIs DEF SameAs, Impartial
  <2> QED BY <2>6, <2>7
<1>2. C!Balanced'
  BY QuiescentIs DEF SchInv, C!Balanced, Quiescent
<1> QED BY <1>1, <1>2 DEF SchInv

-----------------------------------------------------------------------------
(* Capacity: what the scheduler does, step by step.                         *)

\* A request that ends is no longer beside anything.
LEMMA RefuseSch ==
    ASSUME CapInv, SchInv, NEW r \in Request, C!Refuse(r)
    PROVE  SchInv'
<1>1. Beside(r)
  BY DEF CapInv, Shape, Beside, SameAs, C!Refuse, C!Finish
<1>2. Quiescent /\ undisturbed' = undisturbed \ {r}
  BY DEF C!Refuse, Quiescent
<1> QED BY <1>1, <1>2, SchGoesOn

\* Who goes on with something else was not choosing.
LEMMA ElseSch ==
    ASSUME CapInv, SchInv, NEW r \in Request, Beside(r),
           c_pc[r] \notin {"consider", "lab", "host", "write"},
           labs' = labs, rows' = rows, even' = even, undisturbed' = undisturbed
    PROVE  SchInv'
<1>1. r \notin undisturbed
  BY DEF SchInv, Reliable
<1>2. Quiescent
  BY DEF Quiescent
<1> QED BY <1>1, <1>2, SchGoesOn

\* Steps of requests that choose nothing.
LEMMA OthersSch ==
    ASSUME CapInv, SchInv, NEW r \in Request,
           \/ C!BeginDeploy(r) \/ C!BeginCreate(r) \/ C!CheckRoom(r) \/ C!BeginCreateScheduled(r)
           \/ C!ConsiderHost(r) \/ C!SelectHost(r) \/ C!FailLab(r)
    PROVE  SchInv'
<1> USE DEF CapInv
<1>1. CASE C!BeginDeploy(r)
  <2>1. \A q \in Request \ {r} : lab'[q] = lab[q] /\ row'[q] = row[q]
    BY <1>1 DEF C!BeginDeploy, C!Enter, Shape
  <2>2. Beside(r)
    BY <1>1, <2>1 DEF C!BeginDeploy, C!Start, Shape, Beside, SameAs
  <2> QED BY <1>1, <2>2, ElseSch DEF C!BeginDeploy, C!Start
<1>2. CASE C!BeginCreate(r)
  <2>1. Beside(r)
    BY <1>2 DEF C!BeginCreate, C!Start, Shape, Beside, SameAs
  <2> QED BY <1>2, <2>1, ElseSch DEF C!BeginCreate, C!Start, C!history
<1>3. CASE C!CheckRoom(r) /\ ~C!Refuse(r)
  <2>1. Beside(r)
    BY <1>3 DEF C!CheckRoom, Shape, Beside, SameAs
  <2> QED BY <1>3, <2>1, ElseSch DEF C!CheckRoom, C!history
<1>4. CASE C!BeginCreateScheduled(r)
  <2>1. Beside(r)
    BY <1>4 DEF C!BeginCreateScheduled, C!Start, Shape, Beside, SameAs
  <2> QED BY <1>4, <2>1, ElseSch DEF C!BeginCreateScheduled, C!Start, C!history
<1>5. CASE C!ConsiderHost(r)
  <2>1. Beside(r)
    BY <1>5 DEF C!ConsiderHost, Shape, Beside, SameAs
  <2> QED BY <1>5, <2>1, ElseSch DEF C!ConsiderHost, C!history
<1>6. CASE C!SelectHost(r) /\ ~C!Refuse(r)
  <2>1. PICK c \in choice[r] :
          /\ c_job' = [c_job EXCEPT ![r] = [op |-> "create", limit |-> @.limit,
                                            failed |-> @.failed, host |-> c.host]]
          /\ c_pc' = [c_pc EXCEPT ![r] = "insert"]
          /\ choice' = [choice EXCEPT ![r] = {}]
          /\ UNCHANGED <<labs, rows, lab, row, c_todo, sum, undisturbed, even>>
    BY <1>6 DEF C!SelectHost, C!history
  <2>2. Beside(r)
    BY <2>1 DEF Shape, Beside, SameAs
  <2> QED BY <1>6, <2>1, <2>2, ElseSch DEF C!SelectHost
<1> QED BY <1>1, <1>2, <1>3, <1>4, <1>5, <1>6, RefuseSch DEF C!FailLab

\* The scheduler sets out: it has read nothing.
LEMMA BeginScheduleSch ==
    ASSUME CapInv, SchInv, NEW r \in Request, C!BeginSchedule(r)
    PROVE  SchInv'
<1> USE DEF CapInv
<1>1. Beside(r) /\ Quiescent
  BY DEF Shape, Beside, SameAs, C!BeginSchedule, C!Start, Quiescent
<1>2. c_pc'[r] = "consider" /\ c_todo'[r] = C!Lab' /\ choice'[r] = {}
  BY <1>1, QuiescentIs DEF Shape, Reads, C!BeginSchedule, C!Start
<1>3. Reliable(r)' /\ Impartial(r)'
  BY <1>2 DEF Reliable, Impartial
<1> QED BY <1>1, <1>3, SchGoesOn DEF C!BeginSchedule

\* It reads a lab and notes it, if there is room.
LEMMA ConsiderSch ==
    ASSUME CapInv, SchInv, NEW r \in Request, C!Consider(r)
    PROVE  SchInv'
<1> USE DEF CapInv
<1> DEFINE l == C!Min(c_todo[r])
<1>1. Beside(r) /\ Quiescent /\ undisturbed' = undisturbed
  BY DEF Shape, Beside, SameAs, C!Consider, Quiescent
<1>2. /\ c_pc[r] = "consider" /\ c_pc'[r] = "consider" /\ AskOf(r)' = AskOf(r)
      /\ c_todo'[r] = c_todo[r] \ {l}
      /\ choice'[r] = IF C!Eligible(l) /\ C!Fits(l, AskOf(r))
                      THEN choice[r] \cup {[id |-> l, used |-> C!Sum(C!RowsOf(l))]}
                      ELSE choice[r]
      /\ even' = (even /\ (C!Eligible(l) => C!Fits(l, AskOf(r))))
  BY DEF Shape, C!Consider, AskOf
<1> HIDE DEF l
<1> SUFFICES ASSUME r \in undisturbed PROVE Reliable(r)' /\ (even' => Impartial(r)')
  BY <1>1, SchGoesOn
<1>3. \A c \in choice[r] : C!Fits(c.id, AskOf(r)) /\ c.used = C!Sum(C!RowsOf(c.id))
  BY <1>2 DEF SchInv, Reliable
<1>4. \A c \in choice'[r] : C!Fits(c.id, AskOf(r)) /\ c.used = C!Sum(C!RowsOf(c.id))
  BY <1>2, <1>3
<1>5. \A c \in choice'[r] : C!Fits(c.id, AskOf(r))' /\ c.used = C!Sum(C!RowsOf(c.id)')
  <2>1. \A m : C!Fits(m, AskOf(r))' = C!Fits(m, AskOf(r))
    BY <1>1, <1>2, QuiescentIs DEF C!Fits, Quiescent
  <2> QED BY <1>1, <1>4, <2>1, QuiescentIs
<1>6. Reliable(r)'
  BY <1>2, <1>5 DEF Reliable
<1>7. ASSUME even' PROVE Impartial(r)'
  <2>1. even /\ Impartial(r)
    BY <1>2, <1>7 DEF SchInv
  <2>2. ASSUME NEW k \in C!Lab \ c_todo'[r], C!Eligible(k) PROVE \E c \in choice'[r] : c.id = k
    <3>1. CASE k = l
      <4>0. PICK u : u = C!Sum(C!RowsOf(l))
        OBVIOUS
      <4>1. PICK n : n = [id |-> l, used |-> u]
        OBVIOUS
      <4>2. n \in choice'[r]
        BY <1>2, <1>7, <2>2, <3>1, <4>0, <4>1
      <4> QED BY <3>1, <4>1, <4>2
    <3>2. CASE k # l
      BY <1>2, <2>1, <2>2, <3>2 DEF Impartial
    <3> QED BY <3>1, <3>2
  <2> QED BY <1>1, <1>2, <2>2, QuiescentIs DEF Impartial
<1> QED BY <1>6, <1>7

\* What the scheduler has made sure of is what the checks ask for.
LEMMA RoomStays ==
    ASSUME Given, Tables, NEW ask \in Ask, NEW S \in SUBSET rows, NEW w, w = C!NoRow \/ w \in rows,
           NEW h \in Host, ~C!Unbounded(h),
           NEW limit, limit.cpu \in Nat \cup {C!NoLimit}, limit.mb \in Nat \cup {C!NoLimit},
           C!Within(C!Plus(C!Sum(S), C!InMiB(ask)), limit)
    PROVE  C!Within(C!Plus(C!Minus(C!Sum(S), w), C!Effective(h, ask)), limit)
<1>1. C!Sum(S) \in [cpu : Nat, mb : Nat]
  BY RowsAreSummed
<1>2. w.cpu \in Nat /\ w.mb \in Nat
  BY TablesSay DEF C!NoRow
<1>3. ask.cpu \in Nat /\ ask.mem \div 2 \in Nat
  <2>1. ask.mem \in Nat
    BY DEF Given, C!AskAssumption
  <2> QED BY <2>1 DEF Given, C!AskAssumption
<1> DEFINE a == C!Plus(C!Minus(C!Sum(S), w), C!Effective(h, ask))
           b == C!Plus(C!Sum(S), C!InMiB(ask))
<1>4. /\ a = [cpu |-> C!Sum(S).cpu - w.cpu + ask.cpu, mb |-> C!Sum(S).mb - w.mb + ask.mem \div 2]
      /\ b = [cpu |-> C!Sum(S).cpu + ask.cpu, mb |-> C!Sum(S).mb + ask.mem \div 2]
  BY DEF C!Plus, C!Minus, C!Effective, C!InMiB
<1> HIDE DEF a, b
<1>5. a \in C!Amount /\ b \in C!Amount /\ a.cpu <= b.cpu /\ a.mb <= b.mb
  BY <1>1, <1>2, <1>3, <1>4 DEF C!Amount
<1>6. C!Within(b, limit)
  BY DEF b
<1>7. C!Within(a, limit)
  BY <1>5, <1>6, WithinLess
<1> QED BY <1>7 DEF a

\* The row to replace is as it was read: a session sees the rows as they are.
LEMMA SessionIsSound ==
    ASSUME Given, CapInv, NEW r \in Request, Sound(r), NEW S \in SUBSET rows
    PROVE  C!InSession(r, S) = S
<1>1. \A w \in S : w.pk = row[r].pk => w = row[r]
  <2>1. CASE row[r] = C!NoRow
    BY <2>1, TablesSay DEF CapInv, C!NoRow
  <2>2. CASE row[r] # C!NoRow
    BY <2>2 DEF CapInv, Sound, Tables
  <2> QED BY <2>1, <2>2
<1> QED BY <1>1 DEF C!InSession

\* A lab that was chosen passes the check of the lab.
LEMMA LabPasses ==
    ASSUME Given, CapInv, SchInv, NEW r \in undisturbed, c_pc[r] = "lab"
    PROVE  C!Within(C!After(r, C!Sum(C!InSession(r, C!RowsOf(lab[r])))), labs[lab[r]])
<1> USE DEF CapInv
<1>1. r \in Request
  BY DEF Shape
<1> DEFINE l == lab[r]
           S == C!RowsOf(l)
<1>2. C!Fits(l, AskOf(r)) /\ ~C!Unbounded(HostOf(l)) /\ Sound(r)
  BY DEF SchInv, Reliable
<1>3. C!Within(C!Plus(C!Sum(S), C!InMiB(AskOf(r))), labs[l])
  BY <1>2 DEF C!Fits, HostOf
<1>4. l \in C!Lab /\ AskOf(r) \in Ask
  BY <1>1 DEF Holds, C!Deploying, C!Payload, AskOf
<1>5. S \subseteq rows
  BY DEF C!RowsOf
<1>6. HostOf(l) \in Host /\ labs[l].cpu \in Nat \cup {C!NoLimit} /\ labs[l].mb \in Nat \cup {C!NoLimit}
  BY <1>4, TablesSay
<1> HIDE DEF S
<1>7. C!Within(C!Plus(C!Minus(C!Sum(S), row[r]), C!Effective(HostOf(l), AskOf(r))), labs[l])
  BY <1>2, <1>3, <1>4, <1>5, <1>6, RoomStays DEF Sound
<1>8. C!InSession(r, S) = S
  BY <1>1, <1>2, <1>5, SessionIsSound
<1> QED BY <1>7, <1>8 DEF C!After, HostOf, AskOf, S

\* So does its host.
LEMMA HostPasses ==
    ASSUME Given, CapInv, SchInv, NEW r \in undisturbed, c_pc[r] = "host", c_todo[r] = {}
    PROVE  C!Within(C!After(r, sum[r]), HostTotal[labs[lab[r]].host])
<1> USE DEF CapInv
<1>1. r \in Request
  BY DEF Shape
<1>2. PICK h : h = HostOf(lab[r])
  OBVIOUS
<1>3. lab[r] \in C!Lab /\ AskOf(r) \in Ask
  BY <1>1 DEF Holds, C!Deploying, C!Payload, AskOf
<1>4. h \in Host /\ HostTotal[h].cpu \in Nat /\ HostTotal[h].mb \in Nat
  BY <1>2, <1>3, TablesSay
<1> DEFINE S == C!RowsOn(h)
<1>5. C!Fits(lab[r], AskOf(r)) /\ ~C!Unbounded(h) /\ Sound(r) /\ sum[r] = C!Sum(S)
  <2>1. sum[r] = C!Sum({w \in C!RowsOn(h) : w.lab \notin {}})
    BY <1>2, <1>4 DEF SchInv, Reliable
  <2>2. {w \in C!RowsOn(h) : w.lab \notin {}} = S
    OBVIOUS
  <2> QED BY <1>2, <2>1, <2>2 DEF SchInv, Reliable
<1>6. C!Within(C!Plus(C!Sum(S), C!InMiB(AskOf(r))), HostTotal[h])
  BY <1>2, <1>5 DEF C!Fits, HostOf
<1>7. S \subseteq rows
  BY DEF C!RowsOn
<1> HIDE DEF S
<1>8. C!Within(C!Plus(C!Minus(C!Sum(S), row[r]), C!Effective(h, AskOf(r))), HostTotal[h])
  BY <1>3, <1>4, <1>5, <1>6, <1>7, RoomStays DEF Sound
<1> QED BY <1>2, <1>5, <1>8 DEF C!After, HostOf, AskOf

\* The check of the lab.
LEMMA CheckLabSch ==
    ASSUME Given, CapInv, SchInv, NEW r \in Request, C!CheckLab(r)
    PROVE  SchInv'
<1> USE DEF CapInv
<1> SUFFICES ASSUME ~C!Refuse(r) PROVE SchInv'
  BY RefuseSch
<1>1. /\ c_pc[r] = "lab"
      /\ c_pc' = [c_pc EXCEPT ![r] = "host"]
      /\ c_todo' = [c_todo EXCEPT ![r] = C!LabsOn(HostOf(lab[r]))]
      /\ sum' = [sum EXCEPT ![r] = C!Nothing]
      /\ UNCHANGED <<labs, rows, c_job, lab, row, choice, undisturbed, even>>
  BY DEF C!CheckLab, C!history, HostOf
<1>2. Beside(r) /\ Quiescent
  BY <1>1 DEF Shape, Beside, SameAs, Quiescent
<1> SUFFICES ASSUME r \in undisturbed PROVE Reliable(r)' /\ (even' => Impartial(r)')
  BY <1>1, <1>2, SchGoesOn
<1>3. PICK h : h = HostOf(lab[r]) /\ h = HostOf(lab[r])'
  BY <1>1 DEF HostOf
<1>4. c_pc'[r] = "host" /\ c_todo'[r] = C!LabsOn(h) /\ sum'[r] = C!Nothing
  BY <1>1, <1>3 DEF Shape
<1>5. {w \in C!RowsOn(h)' : w.lab \notin c_todo'[r]} = {}
  <2>1. \A w \in C!RowsOn(h) : w.lab \in C!LabsOn(h)
    BY TablesSay DEF C!RowsOn, C!LabsOn
  <2> QED BY <1>2, <1>4, <2>1, QuiescentIs
<1>6. sum'[r] = C!Sum({w \in C!RowsOn(h)' : w.lab \notin c_todo'[r]})
  BY <1>4, <1>5, NoRowsSum
<1>7. C!LabsOn(h)' = C!LabsOn(h)
  BY <1>2, QuiescentIs
<1>8. /\ C!Fits(lab[r], AskOf(r))' /\ ~C!Unbounded(HostOf(lab[r]))' /\ Sound(r)'
  <2>1. C!Fits(lab[r], AskOf(r)) /\ ~C!Unbounded(HostOf(lab[r])) /\ Sound(r)
    BY <1>1 DEF SchInv, Reliable
  <2>2. PICK l, ask : l = lab[r] /\ l = lab'[r] /\ ask = AskOf(r) /\ ask = AskOf(r)'
    BY <1>1 DEF AskOf
  <2>3. C!Fits(l, ask)' = C!Fits(l, ask)
    BY <1>2, QuiescentIs
  <2> QED BY <1>1, <1>3, <2>1, <2>2, <2>3 DEF Sound, C!Unbounded, C!Fits
<1>9. Reliable(r)'
  BY <1>3, <1>4, <1>6, <1>7, <1>8 DEF Reliable
<1>10. ASSUME even' PROVE Impartial(r)'
  <2>1. Impartial(r)
    BY <1>1, <1>10 DEF SchInv
  <2>2. PICK l : l = lab[r] /\ l = lab'[r]
    BY <1>1
  <2>3. LeastOf(l)' = LeastOf(l)
    BY <1>2, QuiescentIs
  <2> QED BY <1>1, <1>4, <2>1, <2>2, <2>3 DEF Impartial
<1> QED BY <1>9, <1>10

\* A lab of the host is summed.
LEMMA ReadLabSch ==
    ASSUME Given, CapInv, SchInv, NEW r \in Request, C!ReadLab(r)
    PROVE  SchInv'
<1> USE DEF CapInv
<1>1. PICK l \in c_todo[r] :
        /\ sum' = [sum EXCEPT ![r] = C!Plus(@, C!Sum(C!InSession(r, C!RowsOf(l))))]
        /\ c_todo' = [c_todo EXCEPT ![r] = @ \ {l}]
  BY DEF C!ReadLab
<1>2. /\ c_pc[r] \in {"host", "room"}
      /\ UNCHANGED <<labs, rows, c_pc, c_job, lab, row, choice, undisturbed, even>>
  BY DEF C!ReadLab, C!history
<1>3. Beside(r) /\ Quiescent
  BY <1>1, <1>2 DEF Shape, Beside, SameAs, Quiescent
<1> SUFFICES ASSUME r \in undisturbed PROVE Reliable(r)' /\ (even' => Impartial(r)')
  BY <1>2, <1>3, SchGoesOn
<1>4. c_pc[r] = "host" /\ c_pc'[r] = "host"
  BY <1>2 DEF SchInv, Reliable
<1>5. PICK h : h = HostOf(lab[r]) /\ h = HostOf(lab[r])'
  BY <1>2 DEF HostOf
<1>6. lab[r] \in C!Lab /\ h \in Host
  BY <1>4, <1>5, TablesSay DEF Holds, C!Deploying
<1> DEFINE S == {w \in C!RowsOn(h) : w.lab \notin c_todo[r]}
           T == {w \in C!RowsOn(h) : w.lab \notin c_todo[r] \ {l}}
<1>7. c_todo[r] \subseteq C!LabsOn(h) /\ sum[r] = C!Sum(S) /\ Sound(r)
  BY <1>4, <1>5, <1>6 DEF SchInv, Reliable
<1>8. S \subseteq rows /\ C!RowsOf(l) \subseteq rows /\ S \cap C!RowsOf(l) = {}
      /\ T = S \cup C!RowsOf(l)
  <2>1. \A w \in C!RowsOf(l) : w \in C!RowsOn(h)
    BY <1>7 DEF C!RowsOf, C!RowsOn, C!LabsOn
  <2> QED BY <2>1 DEF C!RowsOf, C!RowsOn
<1> HIDE DEF S, T
<1>9. C!InSession(r, C!RowsOf(l)) = C!RowsOf(l)
  BY <1>7, <1>8, SessionIsSound
<1>10. C!Sum(T) = C!Plus(C!Sum(S), C!Sum(C!RowsOf(l)))
  <2>1. IsFiniteSet(rows) /\ Amounts(rows)
    BY RowsAreSummed
  <2> QED BY <1>8, <2>1, SumApart
<1>11. sum'[r] = C!Sum(T) /\ c_todo'[r] = c_todo[r] \ {l}
  BY <1>1, <1>7, <1>9, <1>10 DEF Shape
<1>12. T = {w \in C!RowsOn(h)' : w.lab \notin c_todo'[r]} /\ c_todo'[r] \subseteq C!LabsOn(h)'
  BY <1>3, <1>7, <1>11, QuiescentIs DEF T
<1>13. /\ C!Fits(lab[r], AskOf(r))' /\ ~C!Unbounded(HostOf(lab[r]))' /\ Sound(r)'
  <2>1. C!Fits(lab[r], AskOf(r)) /\ ~C!Unbounded(HostOf(lab[r])) /\ Sound(r)
    BY <1>4 DEF SchInv, Reliable
  <2>2. PICK k, ask : k = lab[r] /\ k = lab'[r] /\ ask = AskOf(r) /\ ask = AskOf(r)'
    BY <1>2 DEF AskOf
  <2>3. C!Fits(k, ask)' = C!Fits(k, ask)
    BY <1>3, QuiescentIs
  <2> QED BY <1>2, <1>5, <2>1, <2>2, <2>3 DEF Sound, C!Unbounded, C!Fits
<1>14. Reliable(r)'
  BY <1>4, <1>5, <1>11, <1>12, <1>13 DEF Reliable
<1>15. ASSUME even' PROVE Impartial(r)'
  <2>1. Impartial(r)
    BY <1>2, <1>15 DEF SchInv
  <2>2. PICK k : k = lab[r] /\ k = lab'[r]
    BY <1>2
  <2>3. LeastOf(k)' = LeastOf(k)
    BY <1>3, QuiescentIs
  <2> QED BY <1>2, <1>4, <2>1, <2>2, <2>3 DEF Impartial
<1> QED BY <1>14, <1>15

\* The check of the host.
LEMMA CheckHostSch ==
    ASSUME Given, CapInv, SchInv, NEW r \in Request, C!CheckHost(r)
    PROVE  SchInv'
<1> USE DEF CapInv
<1> SUFFICES ASSUME ~C!Refuse(r) PROVE SchInv'
  BY RefuseSch
<1>1. /\ c_pc[r] = "host"
      /\ c_pc' = [c_pc EXCEPT ![r] = "write"]
      /\ UNCHANGED <<labs, rows, c_job, lab, row, c_todo, sum, choice, undisturbed, even>>
  BY DEF C!CheckHost, C!history
<1>2. Beside(r) /\ Quiescent
  BY <1>1 DEF Shape, Beside, SameAs, Quiescent
<1> SUFFICES ASSUME r \in undisturbed PROVE Reliable(r)' /\ (even' => Impartial(r)')
  BY <1>1, <1>2, SchGoesOn
<1>3. c_pc'[r] = "write"
  BY <1>1 DEF Shape
<1>4. Reliable(r)'
  BY <1>1, <1>3 DEF SchInv, Reliable, Sound
<1>5. ASSUME even' PROVE Impartial(r)'
  <2>1. Impartial(r)
    BY <1>1, <1>5 DEF SchInv
  <2>2. PICK k : k = lab[r] /\ k = lab'[r]
    BY <1>1
  <2>3. LeastOf(k)' = LeastOf(k)
    BY <1>2, QuiescentIs
  <2> QED BY <1>1, <1>3, <2>1, <2>2, <2>3 DEF Impartial
<1> QED BY <1>4, <1>5

\* The scheduler chooses a lab, and reads the row to replace.
LEMMA SelectSch ==
    ASSUME Given, CapInv, SchInv, NEW r \in Request, C!Select(r)
    PROVE  SchInv'
<1> USE DEF CapInv
<1> SUFFICES ASSUME ~C!Refuse(r) PROVE SchInv'
  BY RefuseSch
<1>0. c_pc[r] = "consider" /\ c_todo[r] = {}
  BY DEF C!Select
<1>1. PICK c \in choice[r] :
        /\ C!Best(c, [d \in choice[r] |-> C!LabLoad(d.id, d.used)], c_job[r].method)
        /\ C!Enter(r, c.id, c_job[r].payload.kind, c_job[r].payload.name)
        /\ c_pc' = [c_pc EXCEPT ![r] = C!FirstCheck(c.id)]
        /\ UNCHANGED <<labs, rows, c_job, c_todo, sum, undisturbed, even>>
        /\ choice' = [choice EXCEPT ![r] = {}]
  BY DEF C!Select
<1>2. /\ lab' = [lab EXCEPT ![r] = c.id]
      /\ \/ row' = [row EXCEPT ![r] = C!NoRow]
         \/ \E w \in rows : row' = [row EXCEPT ![r] = w]
  BY <1>1 DEF C!Enter, C!RowsOf
<1>3. Beside(r) /\ Quiescent
  BY <1>1, <1>2 DEF Shape, Beside, SameAs, Quiescent
<1> SUFFICES ASSUME r \in undisturbed PROVE Reliable(r)' /\ (even' => Impartial(r)')
  BY <1>1, <1>3, SchGoesOn
<1>4. /\ lab'[r] = c.id /\ (row'[r] = C!NoRow \/ row'[r] \in rows)
      /\ c_pc'[r] = IF C!Unbounded(HostOf(c.id)) THEN "write" ELSE "lab"
  BY <1>1, <1>2 DEF Shape, C!FirstCheck, HostOf
<1>5. \A d \in choice[r] : C!Fits(d.id, AskOf(r)) /\ d.used = C!Sum(C!RowsOf(d.id))
  BY <1>0 DEF SchInv, Reliable
<1>6. PICK ask : ask = AskOf(r) /\ ask = AskOf(r)'
  BY <1>1 DEF AskOf
<1>7. /\ C!Fits(c.id, ask)' /\ C!Fits(lab[r], AskOf(r))' = C!Fits(c.id, ask)'
      /\ HostOf(lab[r])' = HostOf(c.id)
  BY <1>3, <1>4, <1>5, <1>6, QuiescentIs DEF C!Fits, HostOf, Quiescent
<1>8. Reliable(r)'
  BY <1>1, <1>4, <1>7 DEF Reliable, Sound, C!Unbounded
<1>9. ASSUME even' PROVE Impartial(r)'
  <2>1. Impartial(r)
    BY <1>1, <1>9 DEF SchInv
  <2>2. ASSUME c_job[r].method = "least_allocated" PROVE LeastOf(c.id)
    <3> SUFFICES ASSUME NEW m \in C!Lab, C!Eligible(m)
                 PROVE  C!Leq(LoadWith(c.id, C!RowsOf(c.id)), LoadWith(m, C!RowsOf(m)))
      BY DEF LeastOf
    <3>1. PICK d \in choice[r] : d.id = m
      BY <1>0, <2>1 DEF Impartial
    <3>2. \A e \in choice[r] : C!LabLoad(e.id, e.used) = LoadWith(e.id, C!RowsOf(e.id))
      BY <1>5 DEF LoadWith
    <3>3. CASE d = c
      <4>1. C!RowsOf(m) \subseteq rows
        BY DEF C!RowsOf
      <4>2. IsLoad(LoadWith(m, C!RowsOf(m)))
        BY <4>1, RowsLoad
      <4> QED BY <3>1, <3>3, <4>2, LeqTotal
    <3>4. CASE d # c
      BY <1>1, <2>2, <3>1, <3>2, <3>4 DEF C!Best
    <3> QED BY <3>3, <3>4
  <2>3. LeastOf(c.id)' = LeastOf(c.id)
    BY <1>3, QuiescentIs
  <2>4. PICK k : k = c.id /\ k = lab'[r]
    BY <1>4
  <2> QED BY <1>1, <1>4, <2>2, <2>3, <2>4 DEF Impartial
<1> QED BY <1>8, <1>9

\* A row is written: by the scheduler, in the lab with the least load.
LEMMA WriteSch ==
    ASSUME Given, CapInv, SchInv, NEW r \in Request, C!Write(r)
    PROVE  SchInv'
<1> USE DEF CapInv
<1>1. undisturbed' = {} /\ labs' = labs /\ C!Lab' = C!Lab /\ c_pc[r] = "write"
  BY DEF C!Write, C!Lab
<1> SUFFICES ASSUME even' PROVE C!Balanced'
  BY <1>1 DEF SchInv, C!Balanced
<1>2. /\ rows' = rows \cup {C!NewRow(r, next)}
      /\ even /\ r \in undisturbed /\ c_job[r].method = "least_allocated"
  BY DEF C!Write
<1>3. PICK n : n = C!NewRow(r, next)
  OBVIOUS
<1>4. PICK k : k = lab[r]
  OBVIOUS
<1>5. n.lab = k /\ n.pk = next /\ n \notin rows
  <2>1. n.lab = k /\ n.pk = next
    BY <1>3, <1>4 DEF C!NewRow
  <2> QED BY <2>1, TablesSay DEF Tables
<1>6. k \in C!Lab
  BY <1>1, <1>4 DEF Holds, C!Deploying
<1>7. /\ C!RowsOf(k)' = C!RowsOf(k) \cup {n} /\ n \notin C!RowsOf(k)
      /\ \A l : l # k => C!RowsOf(l)' = C!RowsOf(l)
  BY <1>2, <1>3, <1>5 DEF C!RowsOf
<1>8. \A l : C!RowsOf(l) \subseteq rows
  BY DEF C!RowsOf
<1>9. /\ \A l, u : C!LabLoad(l, u)' = C!LabLoad(l, u)
      /\ \A l : C!Eligible(l)' = C!Eligible(l)
  BY <1>1 DEF C!LabLoad, C!Unbounded, C!Eligible
<1>10. Tables'
  BY WriteKeeps
\* no lab's load falls
<1>11. ASSUME NEW m \in C!Lab
       PROVE  /\ IsLoad(LoadWith(m, C!RowsOf(m))) /\ IsLoad(LoadWith(m, C!RowsOf(m)'))
              /\ C!Leq(LoadWith(m, C!RowsOf(m)), LoadWith(m, C!RowsOf(m)'))
  <2>1. C!RowsOf(m) \subseteq C!RowsOf(m)' /\ C!RowsOf(m)' \subseteq rows'
    BY <1>7 DEF C!RowsOf
  <2>2. IsFiniteSet(C!RowsOf(m)') /\ Amounts(C!RowsOf(m)')
    <3>1. IsFiniteSet(rows')
      BY <1>10 DEF Tables
    <3>2. Amounts(rows')
      BY <1>10 DEF Tables, Amounts, C!RowType
    <3> QED BY <2>1, <3>1, <3>2, FS_Subset DEF Amounts
  <2>3. PICK S, T : S = C!RowsOf(m) /\ T = C!RowsOf(m)'
    OBVIOUS
  <2>4. IsFiniteSet(T) /\ Amounts(T) /\ IsFiniteSet(S) /\ Amounts(S) /\ S \subseteq T
    BY <2>1, <2>2, <2>3, FS_Subset DEF Amounts
  <2>5. /\ C!Sum(S) \in [cpu : Nat, mb : Nat] /\ C!Sum(T) \in [cpu : Nat, mb : Nat]
        /\ C!Sum(S).cpu <= C!Sum(T).cpu /\ C!Sum(S).mb <= C!Sum(T).mb
    BY <2>4, RowsSum, SumLess
  <2>6. /\ IsLoad(LoadWith(m, S)) /\ IsLoad(LoadWith(m, T)) /\ C!Leq(LoadWith(m, S), LoadWith(m, T))
    BY <2>5, LoadGrows DEF LoadWith
  <2> QED BY <2>3, <2>6
<1>12. LeastOf(k)
  BY <1>1, <1>2, <1>4 DEF SchInv, Impartial
<1> SUFFICES ASSUME NEW l \in C!Lab, NEW m \in C!Lab, C!Eligible(l), C!Eligible(m),
                    C!RowsOf(l)' # {}
             PROVE  \/ C!Leq(LoadWith(l, C!RowsOf(l)'), LoadWith(m, C!RowsOf(m)'))
                    \/ \E w \in C!RowsOf(l)' :
                          C!Leq(LoadWith(l, C!RowsOf(l)' \ {w}), LoadWith(m, C!RowsOf(m)'))
  BY <1>1, <1>9 DEF C!Balanced, LoadWith, C!Leq
<1>13. CASE l = k
  <2>1. C!RowsOf(k)' \ {n} = C!RowsOf(k) /\ n \in C!RowsOf(k)'
    BY <1>7
  <2>2. C!Leq(LoadWith(k, C!RowsOf(k)), LoadWith(m, C!RowsOf(m)))
    BY <1>12 DEF LeastOf
  <2>3. C!Leq(LoadWith(k, C!RowsOf(k)), LoadWith(m, C!RowsOf(m)'))
    BY <1>6, <1>11, <2>2, LeqTrans
  <2> QED BY <1>13, <2>1, <2>3
<1>14. CASE l # k
  <2>1. C!RowsOf(l)' = C!RowsOf(l) /\ C!RowsOf(l) # {}
    BY <1>7, <1>14
  <2>2. \/ C!Leq(LoadWith(l, C!RowsOf(l)), LoadWith(m, C!RowsOf(m)))
        \/ \E w \in C!RowsOf(l) :
              C!Leq(LoadWith(l, C!RowsOf(l) \ {w}), LoadWith(m, C!RowsOf(m)))
    BY <1>2, <2>1 DEF SchInv, C!Balanced, LoadWith
  <2>3. CASE C!Leq(LoadWith(l, C!RowsOf(l)), LoadWith(m, C!RowsOf(m)))
    BY <1>11, <2>1, <2>3, LeqTrans
  <2>4. ASSUME NEW w \in C!RowsOf(l),
               C!Leq(LoadWith(l, C!RowsOf(l) \ {w}), LoadWith(m, C!RowsOf(m)))
        PROVE  C!Leq(LoadWith(l, C!RowsOf(l) \ {w}), LoadWith(m, C!RowsOf(m)'))
    <3>1. IsLoad(LoadWith(l, C!RowsOf(l) \ {w}))
      BY <1>8, RowsLoad
    <3> QED BY <1>11, <2>4, <3>1, LeqTrans
  <2> QED BY <2>1, <2>2, <2>3, <2>4
<1> QED BY <1>13, <1>14

\* Labs that are added while there are no rows are level, and whatever is
\* written otherwise leaves nobody undisturbed.
LEMMA WrittenSch ==
    ASSUME CapInv, SchInv, C!Delete \/ \E r \in Request : C!InsertLab(r)
    PROVE  SchInv'
<1>1. undisturbed' = {} /\ (even' => rows' = {})
  BY DEF C!Delete, C!InsertLab
<1>2. C!Balanced'
  BY <1>1 DEF C!Balanced, C!RowsOf
<1> QED BY <1>1, <1>2 DEF SchInv

\* Every step.
LEMMA NextSchInv == Given /\ CapInv /\ SchInv /\ [C!Next]_(C!vars) => SchInv'
<1> SUFFICES ASSUME Given, CapInv, SchInv, [C!Next]_(C!vars) PROVE SchInv'
  OBVIOUS
<1>1. CASE C!Delete \/ \E r \in Request : C!InsertLab(r)
  BY <1>1, WrittenSch
<1>2. ASSUME NEW r \in Request,
             \/ C!BeginDeploy(r) \/ C!BeginCreate(r) \/ C!CheckRoom(r) \/ C!BeginCreateScheduled(r)
             \/ C!ConsiderHost(r) \/ C!SelectHost(r) \/ C!FailLab(r)
      PROVE  SchInv'
  BY <1>2, OthersSch
<1>3. ASSUME NEW r \in Request, C!BeginSchedule(r) PROVE SchInv'
  BY <1>3, BeginScheduleSch
<1>4. ASSUME NEW r \in Request, C!Consider(r) PROVE SchInv'
  BY <1>4, ConsiderSch
<1>5. ASSUME NEW r \in Request, C!Select(r) PROVE SchInv'
  BY <1>5, SelectSch
<1>6. ASSUME NEW r \in Request, C!CheckLab(r) PROVE SchInv'
  BY <1>6, CheckLabSch
<1>7. ASSUME NEW r \in Request, C!ReadLab(r) PROVE SchInv'
  BY <1>7, ReadLabSch
<1>8. ASSUME NEW r \in Request, C!CheckHost(r) PROVE SchInv'
  BY <1>8, CheckHostSch
<1>9. ASSUME NEW r \in Request, C!Write(r) PROVE SchInv'
  BY <1>9, WriteSch
<1>10. ASSUME NEW r \in Request, C!Fail(r) PROVE SchInv'
  BY <1>10, RefuseSch DEF C!Fail
<1>11. CASE UNCHANGED C!vars
  <2>1. Quiescent /\ undisturbed' = undisturbed /\ \A q \in Request : SameAs(q)
    BY <1>11 DEF C!vars, C!history, Quiescent, SameAs
  <2>2. CASE Request = {}
    <3>1. undisturbed' = {}
      BY <2>1, <2>2 DEF CapInv, Shape
    <3>2. C!Balanced'
      BY <2>1, QuiescentIs DEF SchInv, C!Balanced, Quiescent
    <3> QED BY <3>1, <3>2 DEF SchInv
  <2>3. ASSUME NEW r \in Request PROVE SchInv'
    <3>1. Reliable(r)' = Reliable(r) /\ Impartial(r)' = Impartial(r) /\ even' = even
      <4>1. UNCHANGED <<labs, rows, c_pc, c_job, lab, row, c_todo, sum, choice, even>>
        BY <1>11 DEF C!vars, C!history
      <4>2. Reliable(r)' = Reliable(r)
        BY <4>1 DEF Reliable, Sound, AskOf, HostOf, C!Fits, C!Unbounded, C!RowsOf, C!RowsOn, C!LabsOn, C!Lab
      <4>3. Impartial(r)' = Impartial(r)
        BY <4>1 DEF Impartial, LeastOf, LoadWith, C!LabLoad, C!Unbounded, C!Lab, C!Eligible, C!RowsOf
      <4> QED BY <4>1, <4>2, <4>3
    <3> QED BY <2>1, <3>1, SchGoesOn DEF Beside, SchInv
  <2> QED BY <2>2, <2>3
<1> QED BY <1>1, <1>2, <1>3, <1>4, <1>5, <1>6, <1>7, <1>8, <1>9, <1>10, <1>11 DEF C!Next

\* A request that was checked by the scheduler is not refused.
LEMMA NoneRefused ==
    ASSUME Given, CapInv, SchInv, [C!Next]_(C!vars), NEW r \in undisturbed,
           c_pc[r] \in {"lab", "host"}
    PROVE  c_pc'[r] # "idle"
<1> USE DEF CapInv
<1>0. r \in Request
  BY DEF Shape
<1>1. CASE C!Delete \/ UNCHANGED C!vars
  BY <1>1 DEF C!Delete, C!vars
<1>2. ASSUME NEW q \in Request,
             \/ C!BeginDeploy(q) \/ C!CheckLab(q) \/ C!ReadLab(q) \/ C!CheckHost(q) \/ C!Write(q)
             \/ C!Fail(q) \/ C!BeginSchedule(q) \/ C!Consider(q) \/ C!Select(q)
             \/ C!BeginCreate(q) \/ C!CheckRoom(q) \/ C!BeginCreateScheduled(q)
             \/ C!ConsiderHost(q) \/ C!SelectHost(q) \/ C!InsertLab(q) \/ C!FailLab(q)
      PROVE  c_pc'[r] # "idle"
  <2>1. c_pc' = c_pc \/ \E label : c_pc' = [c_pc EXCEPT ![q] = label]
    BY <1>2 DEF C!BeginDeploy, C!CheckLab, C!ReadLab, C!CheckHost, C!Write, C!Fail, C!BeginSchedule,
                C!Consider, C!Select, C!BeginCreate, C!CheckRoom, C!BeginCreateScheduled,
                C!ConsiderHost, C!SelectHost, C!InsertLab, C!FailLab, C!Start, C!Refuse, C!Finish
  <2>2. CASE q # r
    BY <1>0, <2>1, <2>2 DEF Shape
  <2>3. CASE q = r /\ c_pc[r] = "lab"
    <3>1. C!CheckLab(r)
      BY <1>2, <2>3 DEF C!BeginDeploy, C!CheckLab, C!ReadLab, C!CheckHost, C!Write, C!Fail,
                C!BeginSchedule, C!Consider, C!Select, C!BeginCreate, C!CheckRoom,
                C!BeginCreateScheduled, C!ConsiderHost, C!SelectHost, C!InsertLab, C!FailLab, C!Start
    <3>2. c_pc' = [c_pc EXCEPT ![r] = "host"]
      BY <2>3, <3>1, LabPasses DEF C!CheckLab
    <3> QED BY <1>0, <3>2 DEF Shape
  <2>4. CASE q = r /\ c_pc[r] = "host"
    <3>1. C!ReadLab(r) \/ C!CheckHost(r)
      BY <1>2, <2>4 DEF C!BeginDeploy, C!CheckLab, C!ReadLab, C!CheckHost, C!Write, C!Fail,
                C!BeginSchedule, C!Consider, C!Select, C!BeginCreate, C!CheckRoom,
                C!BeginCreateScheduled, C!ConsiderHost, C!SelectHost, C!InsertLab, C!FailLab, C!Start
    <3>2. CASE C!ReadLab(r)
      BY <2>4, <3>2 DEF C!ReadLab
    <3>3. CASE C!CheckHost(r)
      <4>1. c_pc' = [c_pc EXCEPT ![r] = "write"]
        BY <2>4, <3>3, HostPasses DEF C!CheckHost
      <4> QED BY <1>0, <4>1 DEF Shape
    <3> QED BY <3>1, <3>2, <3>3
  <2> QED BY <2>2, <2>3, <2>4
<1> QED BY <1>1, <1>2 DEF C!Next

\* Both invariants hold.
LEMMA SchHolds == ASSUME Given PROVE C!Spec => [](CapInv /\ SchInv)
<1>1. C!Init => CapInv /\ SchInv
  BY InitCapInv, InitSchInv
<1>2. CapInv /\ SchInv /\ [C!Next]_(C!vars) => (CapInv /\ SchInv)'
  BY NextCapInv, NextSchInv
<1> QED BY <1>1, <1>2, PTL DEF C!Spec

(* What the scheduler finds lab by lab, reading each lab's rows and each    *)
(* host's in turn, is what the checks of the deployment find with their own *)
(* sums (controller.py:1895, controller_helpers.py:101): while nothing is   *)
(* written they do not refuse the lab it chose.                             *)
THEOREM ScheduledIsAccepted ==
    ASSUME Given
    PROVE  C!Spec => ScheduledFits
<1>1. CapInv /\ SchInv /\ [C!Next]_(C!vars) =>
          [\A r \in undisturbed : c_pc[r] \in {"lab", "host"} => c_pc'[r] # "idle"]_(C!vars)
  BY NoneRefused
<1> QED BY <1>1, SchHolds, PTL DEF C!Spec, ScheduledFits, C!ScheduledFits

(* As long as only the scheduler deploys, with least_allocated and nothing  *)
(* written while it chose, and no lab it may choose was full, no lab is     *)
(* ahead of another by more than one of its deployments (controller.py:245):*)
(* for any capacities, zero, unset and unbounded ones included.             *)
THEOREM LabsStayBalanced ==
    ASSUME Given
    PROVE  C!Spec => []Balanced
<1>1. SchInv => Balanced
  BY DEF SchInv, Balanced
<1> QED BY <1>1, SchHolds, PTL
=============================================================================
