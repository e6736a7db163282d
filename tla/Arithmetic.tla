----------------------------- MODULE Arithmetic -----------------------------
(***************************************************************************)
(* What the proofs need of arithmetic: unsigned integers of a fixed width, *)
(* which the solvers do not know when the width is a constant of the       *)
(* model, and sums over a set, whose fold is a recursive function.         *)
(***************************************************************************)
EXTENDS Integers, Functions, FiniteSetTheorems, TLAPS

-----------------------------------------------------------------------------
(* Remainders. *)

\* Quotient and remainder, as the provers know them.
LEMMA DivMod ==
  ASSUME NEW a \in Int, NEW w \in Nat \ {0}
  PROVE /\ a \div w \in Int /\ a % w \in 0 .. w-1 /\ a = w * (a \div w) + (a % w)
BY SMTT(30)

\* No multiple of w but 0 is smaller than w.
LEMMA Small ==
  ASSUME NEW w \in Nat \ {0}, NEW d \in Int, w * d < w, -w < w*d
  PROVE d = 0
BY SMTT(30)

\* Multiplication distributes over a difference.
LEMMA Dist == ASSUME NEW w \in Int, NEW p \in Int, NEW q \in Int PROVE w*(p-q) = w*p - w*q
BY SMTT(30)

\* The remainder of a division is unique.
LEMMA Unique ==
  ASSUME NEW w \in Nat \ {0}, NEW p \in Int, NEW q \in Int, NEW r \in 0..w-1, NEW s \in 0..w-1,
         w*p+r = w*q+s
  PROVE r = s
<1>1. w*(p-q) = w*p - w*q
  BY Dist
<1>2. w*p \in Int /\ w*q \in Int /\ p - q \in Int
  BY SMT
<1>3. w*(p-q) < w /\ -w < w*(p-q)
  BY <1>1, <1>2
<1>4. p - q = 0
  BY <1>2, <1>3, Small
<1>5. p = q
  BY <1>4
<1> QED BY <1>5, <1>2

\* A sum in fixed width may be cut at any time: what lets a chain of bumps be summed up.
LEMMA ModAdd ==
  ASSUME NEW a \in Int, NEW b \in Int, NEW w \in Nat \ {0}
  PROVE ((a % w) + b) % w = (a + b) % w
<1>1. a \div w \in Int /\ a % w \in 0 .. w-1 /\ a = w * (a \div w) + (a % w)
  BY DivMod
<1> DEFINE r == (a % w) + b
<1>2. r \in Int
  BY <1>1
<1>3. r \div w \in Int /\ r % w \in 0 .. w-1 /\ r = w * (r \div w) + (r % w)
  BY <1>2, DivMod
<1> DEFINE t == a + b
<1>4. t \div w \in Int /\ t % w \in 0 .. w-1 /\ t = w * (t \div w) + (t % w)
  BY DivMod
<1> DEFINE q == a \div w
           p == r \div w
           u == t \div w
<1>5. w * (q + p) = w*q + w*p
  BY <1>1, <1>3
<1>6. w * (q + p) + (r % w) = w * u + (t % w)
  BY <1>1, <1>3, <1>4, <1>5
<1>7. q + p \in Int /\ u \in Int
  BY <1>1, <1>3, <1>4
<1> HIDE DEF q, p, u, r, t
<1>8. r % w = t % w
  BY <1>3, <1>4, <1>6, <1>7, Unique
<1> QED BY <1>8 DEF r, t

\* A number that wraps once.
LEMMA WrapOnce ==
  ASSUME NEW w \in Nat \ {0}, NEW r \in 0 .. w - 1
  PROVE  r % w = r /\ (w + r) % w = r
<1>1. r \in Int /\ w + r \in Int
  OBVIOUS
<1>2. r \div w \in Int /\ r % w \in 0 .. w - 1 /\ r = w * (r \div w) + (r % w)
  BY <1>1, DivMod
<1>3. /\ (w + r) \div w \in Int /\ (w + r) % w \in 0 .. w - 1
      /\ w + r = w * ((w + r) \div w) + ((w + r) % w)
  BY <1>1, DivMod
<1>4. w * 0 + r = r /\ w * 1 + r = w + r
  OBVIOUS
<1> QED
  BY <1>2, <1>3, <1>4, Unique

\* One turn of a counter has every remainder once.
LEMMA OneTurn ==
  ASSUME NEW w \in Nat \ {0}, NEW a \in 1 .. w, NEW b \in 1 .. w, a % w = b % w
  PROVE  a = b
<1>1. a \in Int /\ b \in Int
  OBVIOUS
<1>2. PICK p \in Int, q \in Int : a = w * p + (a % w) /\ b = w * q + (b % w)
  BY <1>1, DivMod
<1>3. a % w \in 0 .. w - 1
  BY <1>1, DivMod
<1>4. w * (p - q) = w * p - w * q /\ p - q \in Int
  BY Dist
<1>5. w * p \in Int /\ w * q \in Int
  OBVIOUS
<1>6. w * (p - q) = a - b
  BY <1>2, <1>3, <1>4, <1>5
<1>7. w * (p - q) < w /\ -w < w * (p - q)
  BY <1>6
<1>8. p - q = 0
  BY <1>4, <1>7, Small
<1> QED
  BY <1>2, <1>8

-----------------------------------------------------------------------------
(* Sums. *)

\* The terms of the sum of f over s, taken apart: as many pairs for each x as f[x] says.
Units(f, s) == {u \in s \X Nat : u[2] \in 1 .. f[u[1]]}

\* One step of SumFunctionOnSet's fold, with the sums g of the smaller sets.
SumStep(f, s, g) ==
  IF s = {} THEN 0 ELSE f[CHOOSE x \in s : TRUE] + g[s \ {CHOOSE x \in s : TRUE}]

\* Each element adds its units.
LEMMA UnitsAdd ==
  ASSUME NEW f, NEW s, NEW x, x \notin s, f[x] \in Nat,
         IsFiniteSet(Units(f, s))
  PROVE  /\ IsFiniteSet(Units(f, s \cup {x}))
         /\ Cardinality(Units(f, s \cup {x})) = f[x] + Cardinality(Units(f, s))
<1>1. PICK n \in Nat : n = f[x]
  OBVIOUS
<1>2. IsFiniteSet({x}) /\ Cardinality({x}) = 1
  BY FS_Singleton
<1>3. IsFiniteSet(1 .. n) /\ Cardinality(1 .. n) = n
  <2>1. Cardinality(1 .. n) = IF 1 > n THEN 0 ELSE n - 1 + 1
    BY FS_Interval
  <2>2. IsFiniteSet(1 .. n)
    BY FS_Interval
  <2> QED
    BY <2>1, <2>2
<1> DEFINE own == {x} \X (1 .. n)
<1>4. IsFiniteSet(own) /\ Cardinality(own) = n
  <2>1. IsFiniteSet(own) /\ Cardinality(own) = Cardinality({x}) * Cardinality(1 .. n)
    BY <1>2, <1>3, FS_Product
  <2> QED
    BY <1>2, <1>3, <2>1
<1>5. Units(f, s \cup {x}) = Units(f, s) \cup own /\ Units(f, s) \cap own = {}
  BY <1>1 DEF Units
<1> HIDE DEF own
<1>6. Cardinality(Units(f, s)) \in Nat
  BY FS_CardinalityType
<1>7. /\ IsFiniteSet(Units(f, s) \cup own)
      /\ Cardinality(Units(f, s) \cup own)
           = Cardinality(Units(f, s)) + Cardinality(own) - Cardinality({})
  BY <1>4, <1>5, FS_Union
<1>8. Cardinality({}) = 0
  BY FS_EmptySet
<1>9. PICK k \in Nat : k = Cardinality(Units(f, s))
  BY <1>6
<1>10. k + n - 0 = n + k
  OBVIOUS
<1>11. Cardinality(Units(f, s \cup {x})) = k + n - 0
  BY <1>4, <1>5, <1>7, <1>8, <1>9
<1>12. IsFiniteSet(Units(f, s \cup {x}))
  BY <1>5, <1>7
<1> QED
  BY <1>1, <1>9, <1>10, <1>11, <1>12

\* No element, no units.
LEMMA NoUnits == ASSUME NEW f PROVE IsFiniteSet(Units(f, {})) /\ Cardinality(Units(f, {})) = 0
<1>1. Units(f, {}) = {}
  BY DEF Units
<1> QED
  BY <1>1, FS_EmptySet

\* Induction over the parts of a finite set: what the empty set has, and a set has whenever
\* it does without any one of its elements, every part has.
LEMMA SetInduction ==
  ASSUME NEW S, IsFiniteSet(S), NEW Good, {} \in Good,
         \A s \in SUBSET S : s # {} /\ (\A x \in s : s \ {x} \in Good) => s \in Good
  PROVE  \A s \in SUBSET S : s \in Good
<1> DEFINE bad == (SUBSET S) \ Good
<1> SUFFICES ASSUME bad # {} PROVE FALSE
  OBVIOUS
<1>1. IsWellFoundedOn(StrictSubsetOrdering(S), SUBSET S)
  BY FS_StrictSubsetOrderingWellFounded, FS_FiniteSubsetsOfFinite
<1>2. \A s \in bad : s \in SUBSET S /\ s # {} /\ \E x \in s : s \ {x} \in bad
  OBVIOUS
<1>3. bad \subseteq SUBSET S
  OBVIOUS
<1> HIDE DEF bad
<1>4. PICK s \in bad : \A r \in bad : ~(<<r, s>> \in StrictSubsetOrdering(S))
  BY <1>1, <1>3, WFMin
<1>5. PICK x \in s : s \ {x} \in bad
  BY <1>2
<1>6. <<s \ {x}, s>> \in StrictSubsetOrdering(S)
  BY <1>3, <1>5 DEF StrictSubsetOrdering
<1> QED
  BY <1>4, <1>5, <1>6

\* Natural numbers have finitely many units.
LEMMA UnitsFinite ==
  ASSUME NEW f, NEW S, IsFiniteSet(S), \A x \in S : f[x] \in Nat
  PROVE  \A s \in SUBSET S : IsFiniteSet(Units(f, s)) /\ Cardinality(Units(f, s)) \in Nat
<1> DEFINE Good == {s \in SUBSET S : IsFiniteSet(Units(f, s))}
<1>1. {} \in Good
  BY NoUnits
<1>2. ASSUME NEW s \in SUBSET S, s # {}, \A x \in s : s \ {x} \in Good PROVE s \in Good
  <2> PICK x \in s : TRUE
    BY <1>2
  <2>1. (s \ {x}) \cup {x} = s
    OBVIOUS
  <2> QED
    BY <1>2, <2>1, UnitsAdd
<1> HIDE DEF Good
<1>3. \A s \in SUBSET S : s \in Good
  BY <1>1, <1>2, SetInduction
<1> QED
  BY <1>3, FS_CardinalityType DEF Good

\* The fold counts the units: the function that does so satisfies the equation by which the
\* fold is defined, and it is the only one that does.
LEMMA SumIsCardinality ==
  ASSUME NEW f, NEW S, IsFiniteSet(S), \A x \in S : f[x] \in Nat
  PROVE  SumFunctionOnSet(f, S) = Cardinality(Units(f, S))
<1> DEFINE count == [s \in SUBSET S |-> Cardinality(Units(f, s))]
           iter == CHOOSE g : g = [s \in SUBSET S |-> SumStep(f, s, g)]
<1>1. SumFunctionOnSet(f, S) = iter[S]
  BY DEF SumFunctionOnSet, FoldFunctionOnSet, MapThenFoldSet, SumStep
<1>2. ASSUME NEW s \in SUBSET S, s # {}
      PROVE  /\ (CHOOSE x \in s : TRUE) \in s
             /\ s \ {CHOOSE x \in s : TRUE} \in SUBSET S
             /\ Cardinality(Units(f, s)) =
                  f[CHOOSE x \in s : TRUE] + Cardinality(Units(f, s \ {CHOOSE x \in s : TRUE}))
  <2>1. PICK x \in s : x = CHOOSE y \in s : TRUE
    BY <1>2
  <2>2. (s \ {x}) \cup {x} = s /\ s \ {x} \in SUBSET S /\ f[x] \in Nat
    OBVIOUS
  <2>3. IsFiniteSet(Units(f, s \ {x}))
    BY <2>2, UnitsFinite
  <2>4. Cardinality(Units(f, s)) = f[x] + Cardinality(Units(f, s \ {x}))
    BY <2>2, <2>3, UnitsAdd
  <2> QED
    BY <2>1, <2>2, <2>4
<1>3. ASSUME NEW s \in SUBSET S PROVE count[s] = SumStep(f, s, count)
  <2>1. CASE s = {}
    BY <2>1, NoUnits DEF SumStep
  <2>2. CASE s # {}
    BY <1>2, <2>2 DEF SumStep
  <2> QED
    BY <2>1, <2>2
<1>4. count = [s \in SUBSET S |-> SumStep(f, s, count)]
  BY <1>3
<1> HIDE DEF count
<1>5. iter = [s \in SUBSET S |-> SumStep(f, s, iter)]
  BY <1>4
<1> HIDE DEF iter
<1> DEFINE Good == {s \in SUBSET S : iter[s] = count[s]}
<1>6. {} \in Good
  BY <1>4, <1>5 DEF SumStep
<1>7. ASSUME NEW s \in SUBSET S, s # {}, \A x \in s : s \ {x} \in Good PROVE s \in Good
  <2>1. PICK x \in s : x = CHOOSE y \in s : TRUE
    BY <1>7
  <2>2. iter[s] = f[x] + iter[s \ {x}]
    BY <1>5, <1>7, <2>1 DEF SumStep
  <2>3. count[s] = f[x] + count[s \ {x}]
    BY <1>4, <1>7, <2>1 DEF SumStep
  <2> QED
    BY <1>7, <2>2, <2>3
<1> HIDE DEF Good
<1>8. \A s \in SUBSET S : s \in Good
  BY <1>6, <1>7, SetInduction
<1> QED
  BY <1>1, <1>8 DEF Good, count

\* The sum of natural numbers is one.
LEMMA SumType ==
  ASSUME NEW f, NEW S, IsFiniteSet(S), \A x \in S : f[x] \in Nat
  PROVE  SumFunctionOnSet(f, S) \in Nat
BY UnitsFinite, SumIsCardinality

\* Only the values on the set count.
LEMMA SumSame ==
  ASSUME NEW f, NEW g, NEW S, IsFiniteSet(S), \A x \in S : f[x] \in Nat /\ g[x] = f[x]
  PROVE  SumFunctionOnSet(g, S) = SumFunctionOnSet(f, S)
<1>1. Units(f, S) = Units(g, S)
  BY DEF Units
<1> QED
  BY <1>1, SumIsCardinality

\* The sum over two sets that have nothing in common.
LEMMA SumUnion ==
  ASSUME NEW f, NEW S, NEW T, IsFiniteSet(S), IsFiniteSet(T), S \cap T = {},
         \A x \in S \cup T : f[x] \in Nat
  PROVE  SumFunctionOnSet(f, S \cup T) = SumFunctionOnSet(f, S) + SumFunctionOnSet(f, T)
<1>1. Units(f, S \cup T) = Units(f, S) \cup Units(f, T) /\ Units(f, S) \cap Units(f, T) = {}
  BY DEF Units
<1>2. IsFiniteSet(Units(f, S)) /\ IsFiniteSet(Units(f, T))
  BY UnitsFinite
<1>3. PICK a \in Nat, b \in Nat : a = Cardinality(Units(f, S)) /\ b = Cardinality(Units(f, T))
  BY <1>2, FS_CardinalityType
<1>4. Cardinality(Units(f, S \cup T)) = a + b - Cardinality({})
  <2>1. Cardinality(Units(f, S) \cup Units(f, T)) =
          Cardinality(Units(f, S)) + Cardinality(Units(f, T))
            - Cardinality(Units(f, S) \cap Units(f, T))
    BY <1>2, FS_Union
  <2> QED
    BY <1>1, <1>3, <2>1
<1>5. Cardinality({}) = 0
  BY FS_EmptySet
<1>6. a + b - 0 = a + b
  OBVIOUS
<1>7. IsFiniteSet(S \cup T)
  BY FS_Union
<1>8. /\ SumFunctionOnSet(f, S \cup T) = Cardinality(Units(f, S \cup T))
      /\ SumFunctionOnSet(f, S) = a /\ SumFunctionOnSet(f, T) = b
  BY <1>3, <1>7, SumIsCardinality
<1> QED
  BY <1>4, <1>5, <1>6, <1>8

\* The sum over one element.
LEMMA SumSingle == ASSUME NEW f, NEW x, f[x] \in Nat PROVE SumFunctionOnSet(f, {x}) = f[x]
<1>1. {} \cup {x} = {x} /\ x \notin {}
  OBVIOUS
<1>2. IsFiniteSet({x}) /\ IsFiniteSet(Units(f, {})) /\ Cardinality(Units(f, {})) = 0
  BY NoUnits, FS_Singleton
<1>3. Cardinality(Units(f, {x})) = f[x] + 0
  BY <1>1, <1>2, UnitsAdd
<1>4. SumFunctionOnSet(f, {x}) = Cardinality(Units(f, {x}))
  BY <1>2, SumIsCardinality
<1>5. f[x] + 0 = f[x]
  OBVIOUS
<1> QED
  BY <1>3, <1>4, <1>5

\* One term of a sum.
LEMMA SumSplit ==
  ASSUME NEW f, NEW S, IsFiniteSet(S), NEW x \in S, \A y \in S : f[y] \in Nat
  PROVE  SumFunctionOnSet(f, S) = SumFunctionOnSet(f, S \ {x}) + f[x]
<1> DEFINE rest == S \ {x}
<1>1. IsFiniteSet(rest) /\ IsFiniteSet({x})
  BY FS_Singleton, FS_Subset
<1>2. rest \cap {x} = {} /\ rest \cup {x} = S /\ \A y \in rest \cup {x} : f[y] \in Nat
  OBVIOUS
<1> HIDE DEF rest
<1>3. SumFunctionOnSet(f, rest \cup {x}) = SumFunctionOnSet(f, rest) + SumFunctionOnSet(f, {x})
  BY <1>1, <1>2, SumUnion
<1>4. SumFunctionOnSet(f, {x}) = f[x]
  BY SumSingle
<1> QED
  BY <1>2, <1>3, <1>4 DEF rest

\* A sum changes by what one of its terms does.
LEMMA SumUpdate ==
  ASSUME NEW f, NEW g, NEW S, IsFiniteSet(S), NEW x \in S,
         \A y \in S : f[y] \in Nat /\ g[y] \in Nat /\ (y # x => g[y] = f[y])
  PROVE  SumFunctionOnSet(g, S) + f[x] = SumFunctionOnSet(f, S) + g[x]
<1>1. IsFiniteSet(S \ {x}) /\ \A y \in S \ {x} : f[y] \in Nat /\ g[y] = f[y]
  BY FS_Subset
<1>2. PICK n \in Nat : n = SumFunctionOnSet(f, S \ {x}) /\ n = SumFunctionOnSet(g, S \ {x})
  BY <1>1, SumSame, SumType
<1>3. SumFunctionOnSet(f, S) = n + f[x]
  <2>1. SumFunctionOnSet(f, S) = SumFunctionOnSet(f, S \ {x}) + f[x]
    BY SumSplit
  <2> QED
    BY <1>2, <2>1
<1>4. SumFunctionOnSet(g, S) = n + g[x]
  <2>1. SumFunctionOnSet(g, S) = SumFunctionOnSet(g, S \ {x}) + g[x]
    BY SumSplit
  <2> QED
    BY <1>2, <2>1
<1>5. f[x] \in Nat /\ g[x] \in Nat
  OBVIOUS
<1>6. n + g[x] + f[x] = n + f[x] + g[x]
  BY <1>5
<1> QED
  BY <1>3, <1>4, <1>6

\* A sum of terms that are no more than b each.
LEMMA SumBound ==
  ASSUME NEW f, NEW S, IsFiniteSet(S), NEW b \in Nat, \A x \in S : f[x] \in 0 .. b
  PROVE  SumFunctionOnSet(f, S) <= Cardinality(S) * b
<1>1. \A x \in S : f[x] \in Nat
  OBVIOUS
<1>2. IsFiniteSet(1 .. b) /\ Cardinality(1 .. b) = b
  <2>1. IsFiniteSet(1 .. b) /\ Cardinality(1 .. b) = IF 1 > b THEN 0 ELSE b - 1 + 1
    BY FS_Interval
  <2> QED
    BY <2>1
<1>3. Units(f, S) \in SUBSET (S \X (1 .. b))
  BY DEF Units
<1>4. IsFiniteSet(S \X (1 .. b)) /\ Cardinality(S \X (1 .. b)) = Cardinality(S) * b
  BY <1>2, FS_Product
<1>5. Cardinality(Units(f, S)) <= Cardinality(S \X (1 .. b))
  BY <1>3, <1>4, FS_Subset
<1> QED
  BY <1>1, <1>4, <1>5, SumIsCardinality

\* The sum over the values of an injective function.
LEMMA SumImage ==
  ASSUME NEW f, NEW g, NEW S, IsFiniteSet(S), NEW h,
         \A x \in S : f[x] \in Nat /\ g[h[x]] = f[x],
         \A x, y \in S : h[x] = h[y] => x = y,
         IsFiniteSet({h[x] : x \in S})
  PROVE  SumFunctionOnSet(g, {h[x] : x \in S}) = SumFunctionOnSet(f, S)
<1> DEFINE T == {h[x] : x \in S}
           move == [u \in Units(f, S) |-> <<h[u[1]], u[2]>>]
<1>1. \A y \in T : g[y] \in Nat
  OBVIOUS
<1>2. \A u \in Units(f, S) : u = <<u[1], u[2]>> /\ u[1] \in S /\ u[2] \in Nat /\ u[2] \in 1 .. f[u[1]]
  BY DEF Units
<1>3. \A v \in Units(g, T) : \E x \in S : v = <<h[x], v[2]>> /\ v[2] \in Nat /\ v[2] \in 1 .. f[x]
  BY DEF Units
<1>4. \A x \in S : \A k \in Nat : k \in 1 .. f[x] => /\ <<x, k>> \in Units(f, S)
                                                    /\ <<h[x], k>> \in Units(g, T)
  BY DEF Units
<1>5. move \in [Units(f, S) -> Units(g, T)]
  BY <1>2, <1>4
<1>6. \A u, v \in Units(f, S) : move[u] = move[v] => u = v
  BY <1>2
<1>7. \A v \in Units(g, T) : \E u \in Units(f, S) : move[u] = v
  <2> TAKE v \in Units(g, T)
  <2>1. PICK x \in S : v = <<h[x], v[2]>> /\ v[2] \in Nat /\ v[2] \in 1 .. f[x]
    BY <1>3
  <2>2. PICK u : u = <<x, v[2]>>
    OBVIOUS
  <2>3. u \in Units(f, S)
    BY <1>4, <2>1, <2>2
  <2>4. move[u] = <<h[u[1]], u[2]>>
    BY <2>3
  <2> QED
    BY <2>1, <2>2, <2>3, <2>4
<1> HIDE DEF move
<1>8. move \in Bijection(Units(f, S), Units(g, T))
  BY <1>5, <1>6, <1>7 DEF Bijection, Injection, Surjection, IsInjective
<1>9. Cardinality(Units(g, T)) = Cardinality(Units(f, S))
  BY <1>8, UnitsFinite, FS_Bijection DEF ExistsBijection
<1> QED
  BY <1>1, <1>9, SumIsCardinality
=============================================================================
