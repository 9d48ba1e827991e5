----------------------------- MODULE ListTheorems -----------------------------
(***************************************************************************)
(* Facts about numbers, finite sets and sums that the proofs of the        *)
(* components share.  An induction is stated over the set of what is       *)
(* already known to hold.                                                  *)
(***************************************************************************)
EXTENDS Lists, Functions, FiniteSetTheorems, WellFoundedInduction, TLAPS

Below == {p \in Nat \X Nat : p[1] < p[2]}

LEMMA BelowWF == IsWellFoundedOn(Below, Nat)
<1>1. OpToRel(<, Nat) = Below
  BY DEF OpToRel, Below
<1> QED
  BY <1>1, NatLessThanWellFounded

(* A set of naturals with an element has a least one.                      *)
LEMMA LeastNat ==
  ASSUME NEW T, T \in SUBSET Nat, T # {}
  PROVE  \E m \in T : \A n \in T : m <= n
<1>1. PICK x \in T : \A y \in T : <<y, x>> \notin Below
  BY BelowWF, WFMin
<1>2. ASSUME NEW y \in T PROVE x <= y
  <2>1. x \in Nat /\ y \in Nat
    BY <1>1
  <2>2. <<y, x>> \notin Below
    BY <1>1
  <2>3. ~(y < x)
    BY <2>1, <2>2 DEF Below
  <2> QED
    BY <2>1, <2>3
<1> QED
  BY <1>2

LEMMA Counting ==
  ASSUME NEW S, 0 \in S, \A n \in Nat : n \in S => n + 1 \in S
  PROVE  Nat \subseteq S
<1>1. SUFFICES ASSUME Nat \ S # {} PROVE FALSE
  OBVIOUS
<1>2. PICK m \in Nat \ S : \A n \in Nat \ S : m <= n
  BY <1>1, LeastNat
<1>3. m # 0 /\ m - 1 \in Nat
  BY <1>2
<1>4. m - 1 \in S
  BY <1>2, <1>3
<1>5. (m - 1) + 1 = m
  BY <1>2
<1> QED
  BY <1>2, <1>3, <1>4, <1>5

(* What holds of a set as soon as it holds of the set without any one of   *)
(* its elements holds of every part of a finite set.                       *)
LEMMA Shrinking ==
  ASSUME NEW S, IsFiniteSet(S), NEW G, {} \in G,
         \A T \in SUBSET S : T # {} /\ (\A x \in T : T \ {x} \in G) => T \in G
  PROVE  SUBSET S \subseteq G
<1> DEFINE Known == {n \in Nat : \A T \in SUBSET S : Cardinality(T) = n => T \in G}
<1>1. \A T \in SUBSET S : IsFiniteSet(T) /\ Cardinality(T) \in Nat
  BY FS_Subset, FS_CardinalityType
<1>2. 0 \in Known
  BY <1>1, FS_EmptySet
<1>3. ASSUME NEW n \in Nat, n \in Known PROVE n + 1 \in Known
  <2>1. SUFFICES ASSUME NEW T \in SUBSET S, Cardinality(T) = n + 1 PROVE T \in G
    OBVIOUS
  <2>2. T # {}
    BY <1>1, <2>1, FS_EmptySet
  <2>3. ASSUME NEW x \in T PROVE T \ {x} \in G
    <3>1. Cardinality(T \ {x}) = Cardinality(T) - 1
      BY <1>1, FS_RemoveElement
    <3>2. Cardinality(T \ {x}) = n
      BY <2>1, <3>1
    <3> QED
      BY <1>3, <3>2
  <2> QED
    BY <2>2, <2>3
<1>4. Nat \subseteq Known
  <2> HIDE DEF Known
  <2> QED
    BY <1>2, <1>3, Counting
<1> QED
  BY <1>1, <1>4
------------------------------------------------------------------------------
(* Sums over the sets of indices of a function.                            *)
OneOf(T) == CHOOSE x \in T : TRUE

SumRule(f, g, T) == IF T = {} THEN 0 ELSE f[OneOf(T)] + g[T \ {OneOf(T)}]

SumTable(f, S) == CHOOSE g : g = [T \in SUBSET S |-> SumRule(f, g, T)]

LEMMA SumIsTable ==
  ASSUME NEW f, NEW S
  PROVE  SumFunctionOnSet(f, S) = SumTable(f, S)[S]
BY DEF SumFunctionOnSet, FoldFunctionOnSet, MapThenFoldSet, SumTable, SumRule, OneOf

LEMMA SumTableExists ==
  ASSUME NEW S, IsFiniteSet(S), NEW f \in [S -> Int]
  PROVE  /\ SumTable(f, S) \in [SUBSET S -> Int]
         /\ \A T \in SUBSET S : SumTable(f, S)[T] = SumRule(f, SumTable(f, S), T)
<1> DEFINE Upto(n) == {T \in SUBSET S : Cardinality(T) <= n}
           Fits(g, n) == \A T \in Upto(n) : g[T] = SumRule(f, g, T)
           Reached == {n \in Nat : \E g \in [SUBSET S -> Int] : Fits(g, n)}
<1>1. \A T \in SUBSET S : IsFiniteSet(T) /\ Cardinality(T) \in Nat
  BY FS_Subset, FS_CardinalityType
<1>2. \A T \in SUBSET S : T # {} =>
        /\ OneOf(T) \in T /\ T \ {OneOf(T)} \in SUBSET S
        /\ Cardinality(T \ {OneOf(T)}) = Cardinality(T) - 1
  <2>1. SUFFICES ASSUME NEW T \in SUBSET S, T # {}
                 PROVE  /\ OneOf(T) \in T /\ T \ {OneOf(T)} \in SUBSET S
                        /\ Cardinality(T \ {OneOf(T)}) = Cardinality(T) - 1
    OBVIOUS
  <2>2. OneOf(T) \in T
    BY <2>1 DEF OneOf
  <2> QED
    BY <1>1, <2>2, FS_RemoveElement
<1>3. 0 \in Reached
  <2> DEFINE g == [T \in SUBSET S |-> 0]
  <2>1. g \in [SUBSET S -> Int]
    OBVIOUS
  <2>2. ASSUME NEW T \in Upto(0) PROVE g[T] = SumRule(f, g, T)
    <3>1. T = {}
      BY <1>1, <2>2, FS_EmptySet
    <3> QED
      BY <3>1 DEF SumRule
  <2>3. Fits(g, 0)
    BY <2>2
  <2> HIDE DEF g, Fits
  <2> QED
    BY <2>1, <2>3
<1>4. ASSUME NEW n \in Nat, n \in Reached PROVE n + 1 \in Reached
  <2>1. PICK h \in [SUBSET S -> Int] : Fits(h, n)
    BY <1>4
  <2> DEFINE g == [T \in SUBSET S |-> IF Cardinality(T) <= n THEN h[T] ELSE SumRule(f, h, T)]
  <2>2. \A T \in SUBSET S : SumRule(f, h, T) \in Int
    BY <1>2 DEF SumRule
  <2>3. g \in [SUBSET S -> Int]
    BY <2>2
  <2>4. ASSUME NEW T \in Upto(n + 1) PROVE g[T] = SumRule(f, g, T)
    <3>1. g[T] = SumRule(f, h, T)
      <4>1. CASE Cardinality(T) <= n
        BY <2>1, <4>1
      <4>2. CASE ~(Cardinality(T) <= n)
        BY <4>2
      <4> QED
        BY <4>1, <4>2
    <3>2. ASSUME T # {} PROVE g[T \ {OneOf(T)}] = h[T \ {OneOf(T)}]
      <4>1. T \ {OneOf(T)} \in Upto(n)
        BY <1>1, <1>2, <3>2
      <4> QED
        BY <4>1
    <3> QED
      BY <3>1, <3>2 DEF SumRule
  <2>5. Fits(g, n + 1)
    BY <2>4
  <2> HIDE DEF g, Fits
  <2> QED
    BY <2>3, <2>5
<1>5. Cardinality(S) \in Reached
  <2>1. Nat \subseteq Reached
    <3> HIDE DEF Reached
    <3> QED
      BY <1>3, <1>4, Counting
  <2> QED
    BY <1>1, <2>1
<1>6. PICK g \in [SUBSET S -> Int] : Fits(g, Cardinality(S))
  BY <1>5
<1>7. \A T \in SUBSET S : g[T] = SumRule(f, g, T)
  <2>1. \A T \in SUBSET S : Cardinality(T) <= Cardinality(S)
    BY FS_Subset
  <2> QED
    BY <1>6, <2>1
<1>8. g = [T \in SUBSET S |-> SumRule(f, g, T)]
  BY <1>6, <1>7
<1>9. SumTable(f, S) = [T \in SUBSET S |-> SumRule(f, SumTable(f, S), T)]
  BY <1>8 DEF SumTable
<1> DEFINE t == SumTable(f, S)
<1>10. \A T \in SUBSET S : t[T] = SumRule(f, t, T)
  BY <1>9
<1>11. DOMAIN t = SUBSET S /\ t = [T \in DOMAIN t |-> t[T]]
  BY <1>9
<1>12. \A T \in SUBSET S : t[T] \in Int
  <2> DEFINE G == {T \in SUBSET S : t[T] \in Int}
  <2>1. {} \in G
    <3>1. t[{}] = SumRule(f, t, {})
      BY <1>10
    <3> QED
      BY <3>1 DEF SumRule
  <2>2. ASSUME NEW T \in SUBSET S, T # {}, \A x \in T : T \ {x} \in G PROVE T \in G
    <3>1. t[T] = SumRule(f, t, T)
      BY <1>10
    <3>2. OneOf(T) \in S /\ t[T \ {OneOf(T)}] \in Int
      BY <1>2, <2>2
    <3>3. f[OneOf(T)] \in Int
      BY <3>2
    <3> HIDE DEF t
    <3> QED
      BY <2>2, <3>1, <3>2, <3>3 DEF SumRule
  <2>3. SUBSET S \subseteq G
    <3> HIDE DEF G
    <3> QED
      BY <2>1, <2>2, Shrinking
  <2> QED
    BY <2>3
<1> QED
  BY <1>10, <1>11, <1>12

(* The tables of a set and of a part of it agree.                          *)
LEMMA SumTablesAgree ==
  ASSUME NEW S, IsFiniteSet(S), NEW f \in [S -> Int], NEW T \in SUBSET S
  PROVE  SumFunctionOnSet(f, T) = SumTable(f, S)[T]
<1> DEFINE t == SumTable(f, S)
           r == [x \in T |-> f[x]]
           u == SumTable(f, T)
           G == {U \in SUBSET T : u[U] = t[U]}
<1>1. IsFiniteSet(T)
  BY FS_Subset
<1>2. \A U \in SUBSET T : t[U] = SumRule(f, t, U)
  BY SumTableExists
<1>3. u = [U \in SUBSET T |-> SumRule(f, u, U)]
  <2> DEFINE g == [U \in SUBSET T |-> t[U]]
  <2>1. ASSUME NEW U \in SUBSET T PROVE g[U] = SumRule(f, g, U)
    <3>1. U \ {OneOf(U)} \in SUBSET T
      OBVIOUS
    <3> QED
      BY <1>2, <3>1 DEF SumRule
  <2>2. g = [U \in SUBSET T |-> SumRule(f, g, U)]
    BY <2>1
  <2> HIDE DEF g
  <2> QED
    BY <2>2 DEF SumTable
<1>4. {} \in G
  BY <1>2, <1>3 DEF SumRule
<1>5. ASSUME NEW U \in SUBSET T, U # {}, \A x \in U : U \ {x} \in G PROVE U \in G
  <2>1. OneOf(U) \in U
    BY <1>5 DEF OneOf
  <2>2. u[U] = SumRule(f, u, U)
    BY <1>3
  <2>3. u[U \ {OneOf(U)}] = t[U \ {OneOf(U)}]
    BY <1>5, <2>1
  <2> QED
    BY <1>2, <2>2, <2>3 DEF SumRule
<1>6. T \in G
  <2> HIDE DEF G
  <2> QED
    BY <1>1, <1>4, <1>5, Shrinking
<1> QED
  BY <1>6, SumIsTable

(* A sum asks nothing of its summands but their values.                    *)
LEMMA SumAgrees ==
  ASSUME NEW f, NEW g, NEW T, \A x \in T : f[x] = g[x]
  PROVE  SumFunctionOnSet(f, T) = SumFunctionOnSet(g, T)
<1>1. \A h : \A U \in SUBSET T : SumRule(f, h, U) = SumRule(g, h, U)
  BY DEF SumRule, OneOf
<1>2. \A h : [U \in SUBSET T |-> SumRule(f, h, U)] = [U \in SUBSET T |-> SumRule(g, h, U)]
  BY <1>1
<1>3. SumTable(f, T) = SumTable(g, T)
  BY <1>2 DEF SumTable
<1>4. QED
  BY <1>3, SumIsTable

LEMMA SumEmpty == ASSUME NEW f PROVE SumFunctionOnSet(f, {}) = 0
<1> DEFINE g == [T \in SUBSET {} |-> 0]
<1>1. g = [T \in SUBSET {} |-> SumRule(f, g, T)]
  <2>1. \A T \in SUBSET {} : T = {}
    OBVIOUS
  <2>2. \A T \in SUBSET {} : SumRule(f, g, T) = 0
    BY <2>1 DEF SumRule
  <2> HIDE DEF g
  <2>3. g = [T \in SUBSET {} |-> 0]
    BY DEF g
  <2> QED
    BY <2>2, <2>3
<1>2. SumTable(f, {}) = [T \in SUBSET {} |-> SumRule(f, SumTable(f, {}), T)]
  <2> HIDE DEF g
  <2> QED
    BY <1>1 DEF SumTable
<1>3. SumTable(f, {})[{}] = SumRule(f, SumTable(f, {}), {})
  BY <1>2
<1> QED
  BY <1>3, SumIsTable DEF SumRule

LEMMA SumType ==
  ASSUME NEW S, IsFiniteSet(S), NEW f \in [S -> Int], NEW T \in SUBSET S
  PROVE  SumFunctionOnSet(f, T) \in Int
<1>1. SumFunctionOnSet(f, T) = SumTable(f, S)[T]
  BY SumTablesAgree
<1>2. SumTable(f, S) \in [SUBSET S -> Int]
  BY SumTableExists
<1> QED
  BY <1>1, <1>2

(* A sum is what any of its summands and the sum of the others add up to.  *)
LEMMA SumWithout ==
  ASSUME NEW S, IsFiniteSet(S), NEW f \in [S -> Int], NEW T \in SUBSET S, NEW x \in T
  PROVE  SumFunctionOnSet(f, T) = f[x] + SumFunctionOnSet(f, T \ {x})
<1> DEFINE sum(U) == SumFunctionOnSet(f, U)
           G == {U \in SUBSET S : \A y \in U : sum(U) = f[y] + sum(U \ {y})}
<1>1. \A U \in SUBSET S : sum(U) \in Int
  BY SumType
<1>2. ASSUME NEW U \in SUBSET S, U # {}
      PROVE  OneOf(U) \in U /\ sum(U) = f[OneOf(U)] + sum(U \ {OneOf(U)})
  <2>1. OneOf(U) \in U
    BY <1>2 DEF OneOf
  <2>2. SumTable(f, S)[U] = SumRule(f, SumTable(f, S), U)
    BY SumTableExists
  <2>3. U \ {OneOf(U)} \in SUBSET S
    OBVIOUS
  <2>4. sum(U) = SumTable(f, S)[U] /\ sum(U \ {OneOf(U)}) = SumTable(f, S)[U \ {OneOf(U)}]
    BY <2>3, SumTablesAgree
  <2> HIDE DEF sum
  <2> QED
    BY <1>2, <2>1, <2>2, <2>4 DEF SumRule
<1>3. {} \in G
  OBVIOUS
<1>4. ASSUME NEW U \in SUBSET S, U # {}, \A y \in U : U \ {y} \in G PROVE U \in G
  <2>1. SUFFICES ASSUME NEW y \in U PROVE sum(U) = f[y] + sum(U \ {y})
    OBVIOUS
  <2>2. PICK o \in U : sum(U) = f[o] + sum(U \ {o})
    BY <1>2, <1>4
  <2>3. CASE y = o
    BY <2>2, <2>3
  <2>4. CASE y # o
    <3>1. y \in U \ {o} /\ o \in U \ {y} /\ (U \ {o}) \ {y} = (U \ {y}) \ {o}
      BY <2>4
    <3>2. sum(U \ {o}) = f[y] + sum((U \ {o}) \ {y})
      BY <1>4, <3>1
    <3>3. sum(U \ {y}) = f[o] + sum((U \ {y}) \ {o})
      BY <1>4, <3>1
    <3>4. PICK rest : rest = sum((U \ {y}) \ {o})
      OBVIOUS
    <3>5. f[o] \in Int /\ f[y] \in Int /\ rest \in Int
      BY <1>1, <3>4
    <3>6. sum(U \ {o}) = f[y] + rest /\ sum(U \ {y}) = f[o] + rest
      BY <3>1, <3>2, <3>3, <3>4
    <3> HIDE DEF sum
    <3> QED
      BY <2>2, <3>5, <3>6
  <2> QED
    BY <2>3, <2>4
<1>5. T \in G
  <2> HIDE DEF G
  <2> QED
    BY <1>3, <1>4, Shrinking
<1> QED
  BY <1>5

(* A function with a sum over every part of its domain.                    *)
Summable(f, S) == IsFiniteSet(S) /\ f \in [S -> Int]

(* h gives every summand of f a place of its own in g.                     *)
Renames(h, f, S, g, R) ==
  /\ h \in [S -> R]
  /\ \A x \in S : f[x] = g[h[x]]
  /\ \A x, y \in S : h[x] = h[y] => x = y

(* Functions that agree on a set have the same sum over it.                *)
LEMMA SumSame ==
  ASSUME NEW S, NEW f, Summable(f, S), NEW R, NEW g, Summable(g, R),
         NEW T, T \subseteq S, T \subseteq R, \A x \in T : f[x] = g[x]
  PROVE  SumFunctionOnSet(f, T) = SumFunctionOnSet(g, T)
<1> USE DEF Summable
<1> DEFINE G == {U \in SUBSET T : SumFunctionOnSet(f, U) = SumFunctionOnSet(g, U)}
<1>1. {} \in G
  BY SumEmpty
<1>2. ASSUME NEW U \in SUBSET T, U # {}, \A x \in U : U \ {x} \in G PROVE U \in G
  <2>1. PICK x \in U : TRUE
    BY <1>2
  <2>2. SumFunctionOnSet(f, U) = f[x] + SumFunctionOnSet(f, U \ {x})
    BY SumWithout
  <2>3. SumFunctionOnSet(g, U) = g[x] + SumFunctionOnSet(g, U \ {x})
    BY SumWithout
  <2> QED
    BY <1>2, <2>2, <2>3
<1>3. IsFiniteSet(T)
  BY FS_Subset
<1>4. T \in G
  <2> HIDE DEF G
  <2> QED
    BY <1>1, <1>2, <1>3, Shrinking
<1> QED
  BY <1>4

(* The same summands under other names.                                    *)
LEMMA SumRenamed ==
  ASSUME NEW S, NEW f, Summable(f, S), NEW R, NEW g, Summable(g, R),
         NEW h, Renames(h, f, S, g, R), NEW T, T \subseteq S,
         NEW V, V = {h[x] : x \in T}
  PROVE  SumFunctionOnSet(f, T) = SumFunctionOnSet(g, V)
<1> USE DEF Summable, Renames
<1> DEFINE image(U) == {h[x] : x \in U}
           G == {U \in SUBSET T : SumFunctionOnSet(f, U) = SumFunctionOnSet(g, image(U))}
<1>1. {} \in G
  <2>1. image({}) = {}
    OBVIOUS
  <2> QED
    BY <2>1, SumEmpty
<1>2. ASSUME NEW U \in SUBSET T, U # {}, \A x \in U : U \ {x} \in G PROVE U \in G
  <2>1. PICK x \in U : TRUE
    BY <1>2
  <2>2. SumFunctionOnSet(f, U) = f[x] + SumFunctionOnSet(f, U \ {x})
    BY SumWithout
  <2>3. image(U) \in SUBSET R /\ h[x] \in image(U)
    OBVIOUS
  <2>4. SumFunctionOnSet(g, image(U)) = g[h[x]] + SumFunctionOnSet(g, image(U) \ {h[x]})
    BY <2>3, SumWithout
  <2>5. image(U) \ {h[x]} = image(U \ {x})
    OBVIOUS
  <2> QED
    BY <1>2, <2>2, <2>4, <2>5
<1>3. IsFiniteSet(T)
  BY FS_Subset
<1>4. T \in G
  <2> HIDE DEF G
  <2> QED
    BY <1>1, <1>2, <1>3, Shrinking
<1> QED
  BY <1>4

(* More summands, none of them negative: the sum is no smaller.            *)
LEMMA SumMore ==
  ASSUME NEW S, IsFiniteSet(S), NEW f \in [S -> Nat], NEW T \in SUBSET S,
         NEW U \in SUBSET T
  PROVE  SumFunctionOnSet(f, U) <= SumFunctionOnSet(f, T)
<1> DEFINE G == {V \in SUBSET T : U \subseteq V =>
                   SumFunctionOnSet(f, U) <= SumFunctionOnSet(f, V)}
<1>1. f \in [S -> Int] /\ \A V \in SUBSET S : SumFunctionOnSet(f, V) \in Int
  BY SumType
<1>2. {} \in G
  <2>1. U \subseteq {} => U = {}
    OBVIOUS
  <2> QED
    BY <1>1, <2>1
<1>3. ASSUME NEW V \in SUBSET T, V # {}, \A x \in V : V \ {x} \in G PROVE V \in G
  <2>1. SUFFICES ASSUME U \subseteq V
                 PROVE  SumFunctionOnSet(f, U) <= SumFunctionOnSet(f, V)
    OBVIOUS
  <2>2. CASE U = V
    BY <1>1, <2>2
  <2>3. CASE U # V
    <3>1. PICK x \in V : x \notin U
      BY <2>1, <2>3
    <3>2. SumFunctionOnSet(f, U) <= SumFunctionOnSet(f, V \ {x})
      BY <1>3, <2>1, <3>1
    <3>3. SumFunctionOnSet(f, V) = f[x] + SumFunctionOnSet(f, V \ {x})
      BY <1>1, SumWithout
    <3>4. f[x] \in Nat
      OBVIOUS
    <3> QED
      BY <1>1, <3>2, <3>3, <3>4
  <2> QED
    BY <2>2, <2>3
<1>4. IsFiniteSet(T)
  BY FS_Subset
<1>5. T \in G
  <2> HIDE DEF G
  <2> QED
    BY <1>2, <1>3, <1>4, Shrinking
<1> QED
  BY <1>5

(* No summand above k: the sum is at most k for each of them.              *)
LEMMA SumBounded ==
  ASSUME NEW S, IsFiniteSet(S), NEW k \in Nat, NEW f \in [S -> 0 .. k], NEW T \in SUBSET S
  PROVE  SumFunctionOnSet(f, T) <= Cardinality(T) * k
<1> DEFINE G == {V \in SUBSET T : SumFunctionOnSet(f, V) <= Cardinality(V) * k}
<1>1. f \in [S -> Int] /\ \A V \in SUBSET S : SumFunctionOnSet(f, V) \in Int
  BY SumType
<1>2. {} \in G
  BY SumEmpty, FS_EmptySet
<1>3. ASSUME NEW V \in SUBSET T, V # {}, \A x \in V : V \ {x} \in G PROVE V \in G
  <2>1. PICK x \in V : TRUE
    BY <1>3
  <2>2. SumFunctionOnSet(f, V) = f[x] + SumFunctionOnSet(f, V \ {x})
    BY <1>1, SumWithout
  <2>3. IsFiniteSet(V) /\ IsFiniteSet(V \ {x})
    BY FS_Subset
  <2>4. PICK n \in Nat : n = Cardinality(V \ {x}) /\ Cardinality(V) = n + 1
    BY <2>3, FS_CardinalityType, FS_RemoveElement
  <2>5. PICK rest \in Int : rest = SumFunctionOnSet(f, V \ {x}) /\ rest <= n * k
    BY <1>1, <1>3, <2>4
  <2>6. f[x] \in Int /\ f[x] <= k
    OBVIOUS
  <2>7. (n + 1) * k = n * k + k /\ n * k \in Int
    OBVIOUS
  <2>8. f[x] + rest <= (n + 1) * k
    BY <2>5, <2>6, <2>7
  <2> QED
    BY <2>2, <2>4, <2>5, <2>8
<1>4. IsFiniteSet(T)
  BY FS_Subset
<1>5. T \in G
  <2> HIDE DEF G
  <2> QED
    BY <1>2, <1>3, <1>4, Shrinking
<1> QED
  BY <1>5

(* One summand changed: the sum changes by as much.                        *)
LEMMA SumChanged ==
  ASSUME NEW S, NEW f, Summable(f, S), NEW g, Summable(g, S), NEW x \in S,
         \A y \in S \ {x} : g[y] = f[y]
  PROVE  SumFunctionOnSet(g, S) + f[x] = SumFunctionOnSet(f, S) + g[x]
<1>1. PICK rest : rest = SumFunctionOnSet(f, S \ {x}) /\ rest \in Int
  BY SumType DEF Summable
<1>2. SumFunctionOnSet(g, S \ {x}) = rest
  BY <1>1, SumSame
<1>3. SumFunctionOnSet(f, S) = f[x] + rest
  BY <1>1, SumWithout DEF Summable
<1>4. SumFunctionOnSet(g, S) = g[x] + rest
  BY <1>2, SumWithout DEF Summable
<1>5. f[x] \in Int /\ g[x] \in Int
  BY DEF Summable
<1> QED
  BY <1>1, <1>3, <1>4, <1>5

LEMMA SumNat ==
  ASSUME NEW S, IsFiniteSet(S), NEW f \in [S -> Nat], NEW T \in SUBSET S
  PROVE  SumFunctionOnSet(f, T) \in Nat
<1>1. SumFunctionOnSet(f, {}) <= SumFunctionOnSet(f, T)
  BY SumMore
<1>2. SumFunctionOnSet(f, T) \in Int
  BY SumType
<1> QED
  BY <1>1, <1>2, SumEmpty
------------------------------------------------------------------------------
(* Lists in the order of turns.                                            *)
LEMMA SoonerIsTransitive ==
  ASSUME NEW n \in Nat, NEW s \in [1..n -> Int], NEW t \in [1..n -> Int],
         NEW u \in [1..n -> Int], Sooner(s, t), Sooner(t, u)
  PROVE  Sooner(s, u)
<1>1. PICK i \in 1..n : s[i] < t[i] /\ \A m \in 1..(i - 1) : s[m] = t[m]
  BY DEF Sooner
<1>2. PICK j \in 1..n : t[j] < u[j] /\ \A m \in 1..(j - 1) : t[m] = u[m]
  BY DEF Sooner
<1>3. CASE i <= j
  <2>1. s[i] < u[i] /\ \A m \in 1..(i - 1) : s[m] = u[m]
    BY <1>1, <1>2, <1>3
  <2> QED
    BY <2>1 DEF Sooner
<1>4. CASE j < i
  <2>1. s[j] < u[j] /\ \A m \in 1..(j - 1) : s[m] = u[m]
    BY <1>1, <1>2, <1>4
  <2> QED
    BY <2>1 DEF Sooner
<1> QED
  BY <1>3, <1>4

LEMMA SoonerOrLater ==
  ASSUME NEW n \in Nat, NEW s \in [1..n -> Int], NEW t \in [1..n -> Int], s # t
  PROVE  Sooner(s, t) \/ Sooner(t, s)
<1> DEFINE D == {m \in 1..n : s[m] # t[m]}
<1>1. D # {} /\ D \in SUBSET Nat
  OBVIOUS
<1>2. PICK m \in D : \A k \in D : m <= k
  BY <1>1, LeastNat
<1>3. \A k \in 1..(m - 1) : s[k] = t[k] /\ t[k] = s[k]
  BY <1>2
<1>4. s[m] < t[m] \/ t[m] < s[m]
  BY <1>2
<1> QED
  BY <1>2, <1>3, <1>4 DEF Sooner

(* Of finitely many turns one is the last.                                 *)
LEMMA LastTurn ==
  ASSUME NEW n \in Nat, NEW S \in SUBSET [1..n -> Int], IsFiniteSet(S)
  PROVE  \A T \in SUBSET S : T # {} => \E x \in T : \A y \in T \ {x} : Sooner(y, x)
<1> DEFINE G == {T \in SUBSET S : T # {} => \E x \in T : \A y \in T \ {x} : Sooner(y, x)}
<1>1. {} \in G
  OBVIOUS
<1>2. ASSUME NEW T \in SUBSET S, T # {}, \A x \in T : T \ {x} \in G PROVE T \in G
  <2>1. PICK a \in T : TRUE
    BY <1>2
  <2>2. CASE T \ {a} = {}
    BY <2>2
  <2>3. CASE T \ {a} # {}
    <3>1. PICK b \in T \ {a} : \A y \in (T \ {a}) \ {b} : Sooner(y, b)
      BY <1>2, <2>3
    <3>2. CASE Sooner(a, b)
      <4>1. \A y \in T \ {b} : Sooner(y, b)
        BY <3>1, <3>2
      <4> QED
        BY <4>1
    <3>3. CASE Sooner(b, a)
      <4>1. ASSUME NEW y \in T \ {a} PROVE Sooner(y, a)
        <5>1. y = b \/ Sooner(y, b)
          BY <3>1
        <5>2. y \in [1..n -> Int] /\ a \in [1..n -> Int] /\ b \in [1..n -> Int]
          BY <2>1
        <5> QED
          BY <3>3, <5>1, <5>2, SoonerIsTransitive
      <4> QED
        BY <4>1
    <3>4. Sooner(a, b) \/ Sooner(b, a)
      <4>1. a \in [1..n -> Int] /\ b \in [1..n -> Int] /\ a # b
        BY <2>1, <3>1
      <4> QED
        BY <4>1, SoonerOrLater
    <3> QED
      BY <3>2, <3>3, <3>4
  <2> QED
    BY <2>2, <2>3
<1>3. SUBSET S \subseteq G
  <2> HIDE DEF G
  <2> QED
    BY <1>1, <1>2, Shrinking
<1> QED
  BY <1>3

InOrder(s) == \A k \in 2..Len(s) : Sooner(s[k - 1], s[k])

LEMMA ListOf ==
  ASSUME NEW n \in Nat, NEW X, NEW s \in [1..n -> X]
  PROVE  s \in Seq(X) /\ Len(s) = n /\ \A k \in 1..n : s[k] \in X
OBVIOUS

(* InTurn orders the elements of every finite set of turns.                *)
LEMMA InTurnExists ==
  ASSUME NEW n \in Nat, NEW S \in SUBSET [1..n -> Int], IsFiniteSet(S)
  PROVE  \A T \in SUBSET S : \E s \in [1..Cardinality(T) -> T] : InOrder(s)
<1> DEFINE G == {T \in SUBSET S : \E s \in [1..Cardinality(T) -> T] : InOrder(s)}
<1>1. {} \in G
  <2>1. Cardinality({}) = 0
    BY FS_EmptySet
  <2>2. <<>> \in [1..0 -> {}] /\ InOrder(<<>>)
    BY DEF InOrder
  <2> QED
    BY <2>1, <2>2
<1>2. ASSUME NEW T \in SUBSET S, T # {}, \A x \in T : T \ {x} \in G PROVE T \in G
  <2>1. PICK x \in T : \A y \in T \ {x} : Sooner(y, x)
    BY <1>2, LastTurn
  <2>2. PICK s \in [1..Cardinality(T \ {x}) -> T \ {x}] : InOrder(s)
    BY <1>2, <2>1
  <2>3. PICK c \in Nat : Cardinality(T \ {x}) = c /\ Cardinality(T) = c + 1
    <3>1. IsFiniteSet(T)
      BY FS_Subset
    <3>2. Cardinality(T) \in Nat /\ Cardinality(T \ {x}) \in Nat
      BY <3>1, FS_Subset, FS_CardinalityType
    <3>3. Cardinality(T \ {x}) = Cardinality(T) - 1
      BY <2>1, <3>1, FS_RemoveElement
    <3> QED
      BY <3>2, <3>3
  <2>4. s \in [1..c -> T \ {x}] /\ Len(s) = c /\ \A k \in 1..c : s[k] \in T \ {x}
    BY <2>2, <2>3, ListOf
  <2> DEFINE r == [k \in 1..(c + 1) |-> IF k = c + 1 THEN x ELSE s[k]]
  <2>5. r \in [1..(c + 1) -> T] /\ Len(r) = c + 1
    <3>1. \A k \in 1..(c + 1) : k # c + 1 => k \in 1..c
      BY <2>3
    <3>2. \A k \in 1..(c + 1) : (IF k = c + 1 THEN x ELSE s[k]) \in T
      BY <2>1, <2>4, <3>1
    <3>3. r \in [1..(c + 1) -> T]
      BY <3>2
    <3> HIDE DEF r
    <3> QED
      BY <2>3, <3>3, ListOf
  <2>6. ASSUME NEW k \in 2..(c + 1) PROVE Sooner(r[k - 1], r[k])
    <3>1. CASE k = c + 1
      <4>1. k \in 1..(c + 1) /\ k - 1 \in 1..c /\ k - 1 \in 1..(c + 1) /\ k - 1 # c + 1
        BY <2>3, <3>1
      <4>2. r[k] = x /\ r[k - 1] = s[k - 1] /\ s[k - 1] \in T \ {x}
        BY <2>4, <3>1, <4>1
      <4> QED
        BY <2>1, <4>2
    <3>2. CASE k # c + 1
      <4>1. k \in 2..c /\ k \in 1..(c + 1) /\ k - 1 \in 1..(c + 1) /\ k - 1 # c + 1
        BY <2>3, <3>2
      <4>2. r[k] = s[k] /\ r[k - 1] = s[k - 1]
        BY <3>2, <4>1
      <4> QED
        BY <2>2, <2>4, <4>1, <4>2 DEF InOrder
    <3> QED
      BY <3>1, <3>2
  <2>7. InOrder(r)
    <3> HIDE DEF r
    <3> QED
      BY <2>5, <2>6 DEF InOrder
  <2> QED
    BY <2>3, <2>5, <2>7
<1>3. SUBSET S \subseteq G
  <2> HIDE DEF G
  <2> QED
    BY <1>1, <1>2, Shrinking
<1> QED
  BY <1>3

LEMMA InTurnType ==
  ASSUME NEW n \in Nat, NEW T \in SUBSET [1..n -> Int], IsFiniteSet(T)
  PROVE  InTurn(T) \in Seq(T) /\ InOrder(InTurn(T))
<1>1. \E s \in [1..Cardinality(T) -> T] : InOrder(s)
  BY InTurnExists
<1>2. InTurn(T) \in [1..Cardinality(T) -> T] /\ InOrder(InTurn(T))
  BY <1>1 DEF InTurn, InOrder
<1>3. Cardinality(T) \in Nat
  BY FS_CardinalityType
<1> QED
  BY <1>2, <1>3

LEMMA AscendingType ==
  ASSUME NEW I \in SUBSET Int, IsFiniteSet(I)
  PROVE  Ascending(I) \in Seq(I)
<1> DEFINE T == {<<i>> : i \in I}
<1>1. T \in SUBSET [1..1 -> Int]
  OBVIOUS
<1>2. IsFiniteSet(T)
  <2> DEFINE f == [i \in I |-> <<i>>]
  <2>1. f \in [I -> T] /\ \A t \in T : \E i \in I : f[i] = t
    OBVIOUS
  <2>2. f \in Surjection(I, T)
    BY <2>1 DEF Surjection
  <2> QED
    BY <2>2, FS_Surjection
<1>3. InTurn(T) \in Seq(T)
  BY <1>1, <1>2, InTurnType
<1>4. \A t \in T : t[1] \in I
  OBVIOUS
<1> HIDE DEF T
<1>5. PICK s : s = InTurn(T)
  OBVIOUS
<1>6. [k \in DOMAIN s |-> s[k][1]] \in Seq(I)
  BY <1>3, <1>4, <1>5
<1> QED
  BY <1>5, <1>6 DEF Ascending, T

LEMMA AtType ==
  ASSUME NEW X, NEW s \in Seq(X), NEW I \in SUBSET DOMAIN s
  PROVE  At(s, I) \in Seq(X)
<1>1. I \in SUBSET Int /\ IsFiniteSet(I)
  <2>1. DOMAIN s = 1..Len(s) /\ Len(s) \in Nat
    OBVIOUS
  <2>2. IsFiniteSet(1..Len(s))
    BY <2>1, FS_Interval
  <2> QED
    BY <2>1, <2>2, FS_Subset
<1>2. PICK p : p = Ascending(I)
  OBVIOUS
<1>3. p \in Seq(I)
  BY <1>1, <1>2, AscendingType
<1>4. \A i \in I : s[i] \in X
  OBVIOUS
<1>5. [k \in DOMAIN p |-> s[p[k]]] \in Seq(X)
  BY <1>3, <1>4
<1> QED
  BY <1>2, <1>5 DEF At

LEMMA SliceType ==
  ASSUME NEW X, NEW s \in Seq(X), NEW limit \in Nat
  PROVE  Slice(s, limit) \in Seq(X) /\ Len(Slice(s, limit)) <= limit
<1>1. PICK n \in Nat : n = (IF limit < Len(s) THEN limit ELSE Len(s))
  OBVIOUS
<1>2. n <= limit /\ n <= Len(s)
  BY <1>1
<1>3. Slice(s, limit) = [k \in 1..n |-> s[k]]
  BY <1>1 DEF Slice
<1>4. \A k \in 1..n : s[k] \in X
  BY <1>2
<1> QED
  BY <1>2, <1>3, <1>4
=============================================================================
