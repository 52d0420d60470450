------------------------------ MODULE MoneyProofs ------------------------------
(***************************************************************************)
(* Theorems about amounts, for any baskets, costs and amounts and any      *)
(* number of requests at a time.  First what a sum over the rows of a      *)
(* table does, then that Distribute hands out every cent, then the life    *)
(* cycle of a sale: a receipt is paid as a whole, and its rows add up to   *)
(* what was received for it.  Last the reports: whatever is in the books,  *)
(* the parts of a page come to its headline figures, and a period to the   *)
(* difference between its two ends.                                        *)
(***************************************************************************)
EXTENDS SaleLifecycle, Balances, FiniteSetTheorems, TLAPS

-----------------------------------------------------------------------------
(* Sums over the rows of a table.                                          *)

\* Every set of subsets that is closed under growing holds the whole set.
LEMMA SubsetInduction ==
  ASSUME NEW S, IsFiniteSet(S), NEW P,
         \A T \in SUBSET S : (\A U \in SUBSET T : U # T => U \in P) => T \in P
  PROVE  S \in P
<1> SUFFICES ASSUME S \notin P PROVE FALSE
  OBVIOUS
<1> DEFINE bad == {T \in SUBSET S : T \notin P}
<1>1. bad # {} /\ bad \subseteq FiniteSubsetsOf(S)
  BY FS_FiniteSubsetsOfFinite
<1>2. IsWellFoundedOn(StrictSubsetOrdering(S), FiniteSubsetsOf(S))
  BY FS_StrictSubsetOrderingWellFounded
<1>3. PICK T \in bad : \A U \in bad : ~ (<<U, T>> \in StrictSubsetOrdering(S))
  <2> HIDE DEF bad
  <2>. QED
    BY <1>1, <1>2, WFMin
<1>4. \A U \in SUBSET T : U # T => U \in P
  BY <1>3 DEF StrictSubsetOrdering
<1>. QED
  BY <1>3, <1>4

LEMMA FiniteInduction ==
  ASSUME NEW S, IsFiniteSet(S), NEW P, {} \in P,
         \A T \in SUBSET S : \A x \in T : T \ {x} \in P => T \in P
  PROVE  S \in P
<1>1. \A T \in SUBSET S : (\A U \in SUBSET T : U # T => U \in P) => T \in P
  OBVIOUS
<1>. QED
  BY <1>1, SubsetInduction

Taken(s) == CHOOSE x \in s : TRUE
Recurs(f, S, g) ==
  g = [s \in SUBSET S |-> IF s = {} THEN 0 ELSE f[Taken(s)] + g[s \ {Taken(s)}]]

LEMMA SumIs ==
  ASSUME NEW f, NEW S
  PROVE  SumFunctionOnSet(f, S) = (CHOOSE g : Recurs(f, S, g))[S]
BY DEF SumFunctionOnSet, FoldFunctionOnSet, MapThenFoldSet, Recurs, Taken

LEMMA RecursOnce ==
  ASSUME NEW f, NEW S, IsFiniteSet(S), NEW g, NEW h, Recurs(f, S, g), Recurs(f, S, h)
  PROVE  \A T \in SUBSET S : g[T] = h[T]
<1> SUFFICES ASSUME NEW T \in SUBSET S PROVE g[T] = h[T]
  OBVIOUS
<1> DEFINE P == {s \in SUBSET S : g[s] = h[s]}
<1>1. \A U \in SUBSET T : (\A V \in SUBSET U : V # U => V \in P) => U \in P
  <2> SUFFICES ASSUME NEW U \in SUBSET T, \A V \in SUBSET U : V # U => V \in P PROVE U \in P
    OBVIOUS
  <2>1. CASE U = {}
    BY <2>1 DEF Recurs
  <2>2. CASE U # {}
    <3>1. Taken(U) \in U
      BY <2>2 DEF Taken
    <3>2. U \ {Taken(U)} \in P
      BY <3>1
    <3>3. g[U] = f[Taken(U)] + g[U \ {Taken(U)}]
      BY <2>2 DEF Recurs
    <3>4. h[U] = f[Taken(U)] + h[U \ {Taken(U)}]
      BY <2>2 DEF Recurs
    <3>. QED
      BY <3>2, <3>3, <3>4
  <2>. QED
    BY <2>1, <2>2
<1>2. IsFiniteSet(T)
  BY FS_Subset
<1>3. T \in P
  <2> HIDE DEF P
  <2>. QED
    BY <1>1, <1>2, SubsetInduction
<1>. QED
  BY <1>3

\* The recursion the sum is defined by has a solution over every finite set, and
\* the sum of each subset is its value there.
LEMMA SumRecurs ==
  ASSUME NEW f, NEW S, IsFiniteSet(S)
  PROVE  \E g : Recurs(f, S, g) /\ \A T \in SUBSET S : g[T] = SumFunctionOnSet(f, T)
<1> DEFINE Solved(T) == \E g : Recurs(f, T, g) /\ \A U \in SUBSET T : g[U] = SumFunctionOnSet(f, U)
           P == {T \in SUBSET S : Solved(T)}
<1>1. ASSUME NEW T \in SUBSET S, \A U \in SUBSET T : U # T => U \in P
      PROVE  T \in P
  <2>0. \A U \in SUBSET T : U # T => Solved(U)
    BY <1>1
  <2> HIDE DEF P
  <2> DEFINE g == [s \in SUBSET T |-> IF s = {} THEN 0 ELSE f[Taken(s)] + SumFunctionOnSet(f, s \ {Taken(s)})]
  <2>1. ASSUME NEW s \in SUBSET T, s # T PROVE g[s] = SumFunctionOnSet(f, s)
    <3>1. PICK h : Recurs(f, s, h) /\ \A U \in SUBSET s : h[U] = SumFunctionOnSet(f, U)
      BY <2>0, <2>1
    <3>2. h[s] = IF s = {} THEN 0 ELSE f[Taken(s)] + h[s \ {Taken(s)}]
      BY <3>1 DEF Recurs
    <3>3. h[s] = SumFunctionOnSet(f, s) /\ h[s \ {Taken(s)}] = SumFunctionOnSet(f, s \ {Taken(s)})
      BY <3>1
    <3>. QED
      BY <3>2, <3>3
  <2>2. Recurs(f, T, g)
    <3>1. ASSUME NEW s \in SUBSET T, s # {}
          PROVE  g[s \ {Taken(s)}] = SumFunctionOnSet(f, s \ {Taken(s)})
      <4>1. Taken(s) \in s
        BY <3>1 DEF Taken
      <4>2. s \ {Taken(s)} \in SUBSET T /\ s \ {Taken(s)} # T
        BY <4>1
      <4> HIDE DEF g
      <4>. QED
        BY <4>2, <2>1
    <3>. QED
      BY <3>1 DEF Recurs
  <2> HIDE DEF g
  <2>3. Recurs(f, T, CHOOSE h : Recurs(f, T, h))
    BY <2>2
  <2> DEFINE it == CHOOSE h : Recurs(f, T, h)
  <2>4. IsFiniteSet(T)
    BY FS_Subset
  <2>5. it[T] = SumFunctionOnSet(f, T)
    BY SumIs
  <2> HIDE DEF it
  <2>6. \A U \in SUBSET T : it[U] = SumFunctionOnSet(f, U)
    <3>1. \A U \in SUBSET T : it[U] = g[U]
      BY <2>2, <2>3, <2>4, RecursOnce DEF it
    <3>. QED
      BY <2>1, <2>5, <3>1
  <2>. QED
    BY <2>3, <2>6 DEF P, it
<1>2. S \in P
  <2> HIDE DEF P
  <2>. QED
    BY <1>1, SubsetInduction
<1>. QED
  BY <1>2

LEMMA SumEmpty == ASSUME NEW f PROVE SumFunctionOnSet(f, {}) = 0
<1>1. PICK g : Recurs(f, {}, g) /\ g[{}] = SumFunctionOnSet(f, {})
  BY SumRecurs, FS_EmptySet
<1>. QED
  BY <1>1 DEF Recurs

\* The defining equation.
LEMMA SumTaken ==
  ASSUME NEW f, NEW S, IsFiniteSet(S), S # {}
  PROVE  SumFunctionOnSet(f, S) = f[Taken(S)] + SumFunctionOnSet(f, S \ {Taken(S)})
<1>1. PICK g : Recurs(f, S, g) /\ \A T \in SUBSET S : g[T] = SumFunctionOnSet(f, T)
  BY SumRecurs
<1>2. g[S] = f[Taken(S)] + g[S \ {Taken(S)}]
  BY <1>1 DEF Recurs
<1>. QED
  BY <1>1, <1>2

LEMMA SumInt ==
  ASSUME NEW f, NEW S, IsFiniteSet(S), \A x \in S : f[x] \in Int
  PROVE  SumFunctionOnSet(f, S) \in Int
<1> DEFINE P == {T \in SUBSET S : SumFunctionOnSet(f, T) \in Int}
<1>1. ASSUME NEW T \in SUBSET S, \A U \in SUBSET T : U # T => U \in P
      PROVE  T \in P
  <2>1. CASE T = {}
    BY <2>1, SumEmpty
  <2>2. CASE T # {}
    <3>1. Taken(T) \in T
      BY <2>2 DEF Taken
    <3>2. T \ {Taken(T)} \in P
      BY <1>1, <3>1
    <3>3. IsFiniteSet(T)
      BY FS_Subset
    <3>4. SumFunctionOnSet(f, T) = f[Taken(T)] + SumFunctionOnSet(f, T \ {Taken(T)})
      BY <2>2, <3>3, SumTaken
    <3>. QED
      BY <3>1, <3>2, <3>4
  <2>. QED
    BY <2>1, <2>2
<1>2. S \in P
  <2> HIDE DEF P
  <2>. QED
    BY <1>1, SubsetInduction
<1>. QED
  BY <1>2

\* Any element may be taken out first.
LEMMA SumWithout ==
  ASSUME NEW f, NEW S, IsFiniteSet(S), \A x \in S : f[x] \in Int, NEW x \in S
  PROVE  SumFunctionOnSet(f, S) = f[x] + SumFunctionOnSet(f, S \ {x})
<1> DEFINE P == {T \in SUBSET S : \A y \in T : SumFunctionOnSet(f, T) = f[y] + SumFunctionOnSet(f, T \ {y})}
<1>1. ASSUME NEW T \in SUBSET S, \A U \in SUBSET T : U # T => U \in P
      PROVE  T \in P
  <2> SUFFICES ASSUME NEW y \in T
               PROVE  SumFunctionOnSet(f, T) = f[y] + SumFunctionOnSet(f, T \ {y})
    OBVIOUS
  <2> DEFINE c == Taken(T)
  <2>1. c \in T
    BY DEF Taken
  <2>2. IsFiniteSet(T) /\ IsFiniteSet(T \ {y}) /\ IsFiniteSet((T \ {c}) \ {y}) /\ IsFiniteSet(T \ {c})
    BY FS_Subset
  <2>3. SumFunctionOnSet(f, T) = f[c] + SumFunctionOnSet(f, T \ {c})
    BY <2>2, SumTaken
  <2>4. CASE y # c
    <3>1. T \ {c} \in P /\ T \ {y} \in P
      BY <1>1, <2>1
    <3>2. y \in T \ {c} /\ c \in T \ {y} /\ (T \ {c}) \ {y} = (T \ {y}) \ {c}
      BY <2>1, <2>4
    <3> DEFINE rest == SumFunctionOnSet(f, (T \ {c}) \ {y})
    <3>3. SumFunctionOnSet(f, T \ {c}) = f[y] + rest
      BY <3>1, <3>2
    <3>4. SumFunctionOnSet(f, T \ {y}) = f[c] + rest
      BY <3>1, <3>2
    <3>5. rest \in Int /\ f[c] \in Int /\ f[y] \in Int
      BY <2>1, <2>2, SumInt
    <3> HIDE DEF rest, c
    <3>. QED
      BY <2>3, <3>3, <3>4, <3>5
  <2>. QED
    BY <2>3, <2>4
<1>2. S \in P
  <2> HIDE DEF P
  <2>. QED
    BY <1>1, SubsetInduction
<1>. QED
  BY <1>2

LEMMA SumSame ==
  ASSUME NEW f, NEW g, NEW S, IsFiniteSet(S), \A x \in S : f[x] = g[x]
  PROVE  SumFunctionOnSet(f, S) = SumFunctionOnSet(g, S)
<1> DEFINE P == {T \in SUBSET S : SumFunctionOnSet(f, T) = SumFunctionOnSet(g, T)}
<1>1. ASSUME NEW T \in SUBSET S, \A U \in SUBSET T : U # T => U \in P
      PROVE  T \in P
  <2>1. CASE T = {}
    BY <2>1, SumEmpty
  <2>2. CASE T # {}
    <3>1. Taken(T) \in T
      BY <2>2 DEF Taken
    <3>2. T \ {Taken(T)} \in P
      BY <1>1, <3>1
    <3>3. IsFiniteSet(T)
      BY FS_Subset
    <3>4. SumFunctionOnSet(f, T) = f[Taken(T)] + SumFunctionOnSet(f, T \ {Taken(T)})
      BY <2>2, <3>3, SumTaken
    <3>5. SumFunctionOnSet(g, T) = g[Taken(T)] + SumFunctionOnSet(g, T \ {Taken(T)})
      BY <2>2, <3>3, SumTaken
    <3>. QED
      BY <3>1, <3>2, <3>4, <3>5
  <2>. QED
    BY <2>1, <2>2
<1>2. S \in P
  <2> HIDE DEF P
  <2>. QED
    BY <1>1, SubsetInduction
<1>. QED
  BY <1>2

\* Two columns are added row by row or as a whole.
Adds(h, f, g, S) ==
  IsFiniteSet(S) /\ \A x \in S : f[x] \in Int /\ g[x] \in Int /\ h[x] = f[x] + g[x]

LEMMA SumPlus ==
  ASSUME NEW f, NEW g, NEW h, NEW S, Adds(h, f, g, S)
  PROVE  SumFunctionOnSet(h, S) = SumFunctionOnSet(f, S) + SumFunctionOnSet(g, S)
<1> USE DEF Adds
<1> DEFINE P == {T \in SUBSET S :
                   SumFunctionOnSet(h, T) = SumFunctionOnSet(f, T) + SumFunctionOnSet(g, T)}
<1>1. {} \in P
  BY SumEmpty
<1>2. ASSUME NEW T \in SUBSET S, NEW x \in T, T \ {x} \in P
      PROVE  T \in P
  <2>1. IsFiniteSet(T) /\ IsFiniteSet(T \ {x})
    BY FS_Subset
  <2>2. SumFunctionOnSet(h, T) = h[x] + SumFunctionOnSet(h, T \ {x})
    BY <2>1, SumWithout
  <2>3. SumFunctionOnSet(f, T) = f[x] + SumFunctionOnSet(f, T \ {x})
    BY <2>1, SumWithout
  <2>4. SumFunctionOnSet(g, T) = g[x] + SumFunctionOnSet(g, T \ {x})
    BY <2>1, SumWithout
  <2>5. SumFunctionOnSet(f, T \ {x}) \in Int /\ SumFunctionOnSet(g, T \ {x}) \in Int
    BY <2>1, SumInt
  <2>. QED
    BY <1>2, <2>2, <2>3, <2>4, <2>5
<1>3. S \in P
  <2> HIDE DEF P
  <2>. QED
    BY <1>1, <1>2, FiniteInduction
<1>. QED
  BY <1>3

LEMMA SumZero ==
  ASSUME NEW f, NEW S, IsFiniteSet(S), \A x \in S : f[x] = 0
  PROVE  SumFunctionOnSet(f, S) = 0
<1>1. SumFunctionOnSet(f, S) = SumFunctionOnSet(f, S) + SumFunctionOnSet(f, S)
  BY SumPlus DEF Adds
<1>2. SumFunctionOnSet(f, S) \in Int
  BY SumInt
<1> DEFINE sum == SumFunctionOnSet(f, S)
<1>3. sum = sum + sum /\ sum \in Int
  BY <1>1, <1>2
<1> HIDE DEF sum
<1>4. sum = 0
  BY <1>3
<1>. QED
  BY <1>4 DEF sum

LEMMA SumNat ==
  ASSUME NEW f, NEW S, IsFiniteSet(S), \A x \in S : f[x] \in Nat
  PROVE  SumFunctionOnSet(f, S) \in Nat
<1> DEFINE P == {T \in SUBSET S : SumFunctionOnSet(f, T) \in Nat}
<1>1. {} \in P
  BY SumEmpty
<1>2. ASSUME NEW T \in SUBSET S, NEW x \in T, T \ {x} \in P
      PROVE  T \in P
  <2>1. IsFiniteSet(T)
    BY FS_Subset
  <2>2. SumFunctionOnSet(f, T) = f[x] + SumFunctionOnSet(f, T \ {x})
    BY <2>1, SumWithout
  <2>. QED
    BY <1>2, <2>2
<1>3. S \in P
  <2> HIDE DEF P
  <2>. QED
    BY <1>1, <1>2, FiniteInduction
<1>. QED
  BY <1>3

\* Two parts without a common row.
LEMMA SumParts ==
  ASSUME NEW f, NEW S, IsFiniteSet(S), \A x \in S : f[x] \in Int, NEW A \in SUBSET S
  PROVE  SumFunctionOnSet(f, S) = SumFunctionOnSet(f, A) + SumFunctionOnSet(f, S \ A)
<1> DEFINE P == {T \in SUBSET A :
                   SumFunctionOnSet(f, S) = SumFunctionOnSet(f, T) + SumFunctionOnSet(f, S \ T)}
<1>0. IsFiniteSet(A) /\ SumFunctionOnSet(f, S) \in Int
  BY FS_Subset, SumInt
<1>1. {} \in P
  BY <1>0, SumEmpty
<1>2. ASSUME NEW T \in SUBSET A, NEW x \in T, T \ {x} \in P
      PROVE  T \in P
  <2>1. IsFiniteSet(T) /\ IsFiniteSet(T \ {x}) /\ IsFiniteSet(S \ T) /\ IsFiniteSet(S \ (T \ {x}))
    BY FS_Subset
  <2>2. SumFunctionOnSet(f, T) = f[x] + SumFunctionOnSet(f, T \ {x})
    BY <2>1, SumWithout
  <2>3. x \in S \ (T \ {x}) /\ (S \ (T \ {x})) \ {x} = S \ T
    OBVIOUS
  <2>4. SumFunctionOnSet(f, S \ (T \ {x})) = f[x] + SumFunctionOnSet(f, S \ T)
    BY <2>1, <2>3, SumWithout
  <2>5. /\ SumFunctionOnSet(f, S \ T) \in Int /\ SumFunctionOnSet(f, T \ {x}) \in Int
        /\ f[x] \in Int
    BY <2>1, SumInt
  <2>6. SumFunctionOnSet(f, S) = SumFunctionOnSet(f, T \ {x}) + SumFunctionOnSet(f, S \ (T \ {x}))
    BY <1>2
  <2>. QED
    BY <2>2, <2>4, <2>5, <2>6
<1>3. A \in P
  <2> HIDE DEF P
  <2>. QED
    BY <1>0, <1>1, <1>2, FiniteInduction
<1>. QED
  BY <1>3

LEMMA SumBelow ==
  ASSUME NEW f, NEW g, NEW S, IsFiniteSet(S),
         \A x \in S : f[x] \in Int /\ g[x] \in Int /\ f[x] <= g[x]
  PROVE  SumFunctionOnSet(f, S) <= SumFunctionOnSet(g, S)
<1> DEFINE d == [x \in S |-> g[x] - f[x]]
<1>1. \A x \in S : d[x] \in Nat /\ g[x] = f[x] + d[x]
  OBVIOUS
<1> HIDE DEF d
<1>2. SumFunctionOnSet(g, S) = SumFunctionOnSet(f, S) + SumFunctionOnSet(d, S)
  BY <1>1, SumPlus DEF Adds
<1>3. SumFunctionOnSet(f, S) \in Int /\ SumFunctionOnSet(d, S) \in Nat
  BY <1>1, SumInt, SumNat
<1>. QED
  BY <1>2, <1>3

\* Rows sorted into groups: the groups' sums are the sum of all.
Group(S, key, k) == {x \in S : key[x] = k}

Grouped(f, S, key, K, part) ==
  /\ IsFiniteSet(S) /\ \A x \in S : f[x] \in Int /\ key[x] \in K
  /\ IsFiniteSet(K) /\ \A k \in K : part[k] = SumFunctionOnSet(f, Group(S, key, k))

LEMMA SumGroups ==
  ASSUME NEW f, NEW S, NEW key, NEW K, NEW part, Grouped(f, S, key, K, part)
  PROVE  SumFunctionOnSet(part, K) = SumFunctionOnSet(f, S)
<1> USE DEF Grouped
<1> DEFINE G(k) == Group(S, key, k)
           U(T) == {x \in S : key[x] \in T}
           P == {T \in SUBSET K : SumFunctionOnSet(part, T) = SumFunctionOnSet(f, U(T))}
<1>1. \A k \in K : part[k] \in Int
  <2>. SUFFICES ASSUME NEW k \in K PROVE SumFunctionOnSet(f, G(k)) \in Int
    OBVIOUS
  <2>1. IsFiniteSet(G(k))
    BY FS_Subset DEF Group
  <2>. QED
    BY <2>1, SumInt DEF Group
<1>2. {} \in P
  <2>1. U({}) = {}
    OBVIOUS
  <2> HIDE DEF U
  <2>. QED
    BY <2>1, SumEmpty
<1>3. ASSUME NEW T \in SUBSET K, NEW k \in T, T \ {k} \in P
      PROVE  T \in P
  <2>1. IsFiniteSet(T) /\ IsFiniteSet(U(T)) /\ \A x \in T : part[x] \in Int
    BY <1>1, FS_Subset
  <2>2. SumFunctionOnSet(part, T) = part[k] + SumFunctionOnSet(part, T \ {k})
    BY <2>1, SumWithout
  <2>3. G(k) \in SUBSET U(T) /\ U(T) \ G(k) = U(T \ {k}) /\ \A x \in U(T) : f[x] \in Int
    BY DEF Group
  <2>4. part[k] = SumFunctionOnSet(f, G(k))
    OBVIOUS
  <2> HIDE DEF U, G
  <2>5. SumFunctionOnSet(f, U(T)) = SumFunctionOnSet(f, G(k)) + SumFunctionOnSet(f, U(T) \ G(k))
    BY <2>1, <2>3, SumParts
  <2>. QED
    BY <1>3, <2>2, <2>3, <2>4, <2>5
<1>4. K \in P
  <2> HIDE DEF P
  <2>. QED
    BY <1>2, <1>3, FiniteInduction
<1>5. U(K) = S
  OBVIOUS
<1> HIDE DEF U
<1>. QED
  BY <1>4, <1>5
-----------------------------------------------------------------------------
(* Shares of an amount.                                                    *)

LEMMA SumTimes ==
  ASSUME NEW f, NEW g, NEW S, IsFiniteSet(S), NEW c \in Int,
         \A x \in S : f[x] \in Int /\ g[x] = c * f[x]
  PROVE  SumFunctionOnSet(g, S) = c * SumFunctionOnSet(f, S)
<1> DEFINE P == {T \in SUBSET S : SumFunctionOnSet(g, T) = c * SumFunctionOnSet(f, T)}
<1>1. {} \in P
  BY SumEmpty
<1>2. ASSUME NEW T \in SUBSET S, NEW x \in T, T \ {x} \in P
      PROVE  T \in P
  <2> DEFINE F == SumFunctionOnSet(f, T \ {x})
             G == SumFunctionOnSet(g, T \ {x})
  <2>1. IsFiniteSet(T) /\ IsFiniteSet(T \ {x}) /\ x \in S
    BY FS_Subset
  <2>2. \A y \in T : f[y] \in Int /\ g[y] \in Int /\ g[y] = c * f[y]
    OBVIOUS
  <2>3. SumFunctionOnSet(f, T) = f[x] + F
    BY <2>1, <2>2, SumWithout
  <2>4. SumFunctionOnSet(g, T) = g[x] + G
    BY <2>1, <2>2, SumWithout
  <2>5. F \in Int /\ G = c * F
    BY <1>2, <2>1, SumInt
  <2> HIDE DEF F, G
  <2>6. c * (f[x] + F) = c * f[x] + c * F
    BY <2>2, <2>5
  <2>. QED
    BY <2>2, <2>3, <2>4, <2>5, <2>6
<1>3. S \in P
  <2> HIDE DEF P
  <2>. QED
    BY <1>1, <1>2, FiniteInduction
<1>. QED
  BY <1>3

\* Counting is summing ones.
LEMMA SumCounts ==
  ASSUME NEW f, NEW S, IsFiniteSet(S), \A x \in S : f[x] = 1
  PROVE  SumFunctionOnSet(f, S) = Cardinality(S)
<1> DEFINE P == {T \in SUBSET S : SumFunctionOnSet(f, T) = Cardinality(T)}
<1>1. {} \in P
  BY SumEmpty, FS_EmptySet
<1>2. ASSUME NEW T \in SUBSET S, NEW x \in T, T \ {x} \in P
      PROVE  T \in P
  <2>1. IsFiniteSet(T)
    BY FS_Subset
  <2>2. SumFunctionOnSet(f, T) = f[x] + SumFunctionOnSet(f, T \ {x})
    BY <2>1, SumWithout
  <2>3. Cardinality(T \ {x}) = Cardinality(T) - 1 /\ Cardinality(T) \in Nat
    BY <2>1, FS_RemoveElement, FS_CardinalityType
  <2>. QED
    BY <1>2, <2>2, <2>3
<1>3. S \in P
  <2> HIDE DEF P
  <2>. QED
    BY <1>1, <1>2, FiniteInduction
<1>. QED
  BY <1>3

\* Members of a finite set of numbers have a turn each: 0, 1, ... in their order.
Turn(set, i) == Cardinality({j \in set : j < i})

LEMMA EveryTurnOnce ==
  ASSUME NEW set \in SUBSET Nat, IsFiniteSet(set)
  PROVE  /\ \A i \in set : Turn(set, i) \in 0..(Cardinality(set) - 1)
         /\ \A t \in 0..(Cardinality(set) - 1) : \E i \in set : Turn(set, i) = t
         /\ \A i, j \in set : Turn(set, i) = Turn(set, j) => i = j
<1> DEFINE n == Cardinality(set)
           f == [i \in set |-> Turn(set, i)]
           below(i) == {j \in set : j < i}
<1>1. n \in Nat
  BY FS_CardinalityType
<1>2. \A i \in set : IsFiniteSet(below(i))
  BY FS_Subset
<1>3. ASSUME NEW i \in set PROVE Turn(set, i) \in 0..(n - 1)
  <2>1. below(i) \in SUBSET set /\ below(i) # set
    OBVIOUS
  <2>2. Cardinality(below(i)) \in Nat /\ Cardinality(below(i)) <= n /\ Cardinality(below(i)) # n
    BY <1>2, <2>1, FS_CardinalityType, FS_Subset
  <2>. QED
    BY <1>1, <2>2 DEF Turn
<1>4. ASSUME NEW i \in set, NEW j \in set, i < j PROVE Turn(set, i) # Turn(set, j)
  <2>1. below(i) \in SUBSET below(j) /\ below(i) # below(j)
    <3>1. i \in below(j) /\ i \notin below(i)
      BY <1>4
    <3>2. \A k \in below(i) : k \in below(j)
      BY <1>4
    <3> HIDE DEF below
    <3>. QED
      BY <3>1, <3>2
  <2>2. Cardinality(below(i)) # Cardinality(below(j))
    BY <1>2, <2>1, FS_Subset
  <2>. QED
    BY <2>2 DEF Turn
<1>5. \A i, j \in set : Turn(set, i) = Turn(set, j) => i = j
  <2>1. \A i, j \in set : i < j \/ j < i \/ i = j
    OBVIOUS
  <2>. QED
    BY <1>4, <2>1
<1>6. f \in Injection(set, 0..(n - 1))
  BY <1>3, <1>5 DEF Injection, IsInjective
<1>7. IsFiniteSet(0..(n - 1)) /\ Cardinality(0..(n - 1)) = n
  <2>1. /\ IsFiniteSet(0..(n - 1))
        /\ Cardinality(0..(n - 1)) = IF 0 > n - 1 THEN 0 ELSE (n - 1) - 0 + 1
    BY <1>1, FS_Interval
  <2>. QED
    BY <1>1, <2>1
<1> HIDE DEF f
<1>8. f \in Surjection(set, 0..(n - 1))
  BY <1>6, <1>7, FS_Injection
<1>9. \A t \in 0..(n - 1) : \E i \in set : f[i] = t
  BY <1>8 DEF Surjection
<1>. QED
  BY <1>3, <1>5, <1>9 DEF f

\* What is left over, handed out in turns, is handed out completely.
LEMMA TurnsHandOut ==
  ASSUME NEW set \in SUBSET Nat, IsFiniteSet(set), set # {}, NEW rest \in Nat,
         NEW part, \A i \in set : part[i] = Cardinality({k \in 0..(rest - 1) : k % Cardinality(set) = Turn(set, i)})
  PROVE  SumFunctionOnSet(part, set) = rest /\ \A i \in set : part[i] \in Nat
<1> DEFINE n == Cardinality(set)
           cents == 0..(rest - 1)
           one == [k \in cents |-> 1]
           key == [k \in cents |-> CHOOSE i \in set : Turn(set, i) = k % n]
           group(i) == Group(cents, key, i)
           sums == [i \in set |-> SumFunctionOnSet(one, Group(cents, key, i))]
<1>1. n \in Nat /\ n > 0
  BY FS_CardinalityType, FS_EmptySet
<1>2. IsFiniteSet(cents) /\ Cardinality(cents) = rest
  <2>1. /\ IsFiniteSet(0..(rest - 1))
        /\ Cardinality(0..(rest - 1)) = IF 0 > rest - 1 THEN 0 ELSE (rest - 1) - 0 + 1
    BY FS_Interval
  <2>. QED
    BY <2>1
<1>3. ASSUME NEW k \in cents PROVE key[k] \in set /\ Turn(set, key[k]) = k % n
  <2>1. k % n \in 0..(n - 1)
    BY <1>1
  <2>2. \E i \in set : Turn(set, i) = k % n
    BY <2>1, EveryTurnOnce
  <2>. QED
    BY <2>2
<1>4. ASSUME NEW i \in set PROVE group(i) = {k \in cents : k % n = Turn(set, i)}
  <2>1. \A k \in cents : key[k] = i <=> k % n = Turn(set, i)
    BY <1>3, EveryTurnOnce
  <2> HIDE DEF key
  <2>. QED
    BY <2>1 DEF Group
<1>5. ASSUME NEW i \in set PROVE part[i] = sums[i] /\ part[i] \in Nat
  <2>1. IsFiniteSet(group(i)) /\ \A k \in group(i) : one[k] = 1
    BY <1>2, FS_Subset DEF Group
  <2>2. sums[i] = Cardinality(group(i))
    <3>1. SumFunctionOnSet(one, group(i)) = Cardinality(group(i))
      <4> HIDE DEF one, group
      <4>. QED
        BY <2>1, SumCounts
    <3>. QED
      BY <3>1
  <2>3. part[i] = Cardinality(group(i))
    <3> HIDE DEF group
    <3>. QED
      BY <1>4
  <2>. QED
    BY <2>1, <2>2, <2>3, FS_CardinalityType
<1>6. SumFunctionOnSet(sums, set) = SumFunctionOnSet(one, cents)
  <2>1. \A k \in cents : one[k] \in Int /\ key[k] \in set
    BY <1>3
  <2>2. \A i \in set : sums[i] = SumFunctionOnSet(one, Group(cents, key, i))
    OBVIOUS
  <2> HIDE DEF one, key, cents, sums
  <2>3. Grouped(one, cents, key, set, sums)
    BY <1>2, <2>1, <2>2 DEF Grouped
  <2>. QED
    BY <2>3, SumGroups
<1>7. SumFunctionOnSet(one, cents) = rest
  <2>1. \A k \in cents : one[k] = 1
    OBVIOUS
  <2> HIDE DEF one, cents
  <2>. QED
    BY <1>2, <2>1, SumCounts
<1>8. SumFunctionOnSet(part, set) = SumFunctionOnSet(sums, set)
  <2> HIDE DEF sums
  <2>. QED
    BY <1>5, SumSame
<1>. QED
  BY <1>5, <1>6, <1>7, <1>8

\* A share is rounded down, and the shares together are no more than the total.
LEMMA Quotient ==
  ASSUME NEW a \in Nat, NEW b \in Nat, b > 0
  PROVE  a \div b \in Nat /\ b * (a \div b) <= a
OBVIOUS

LEMMA SharesBelowTotal ==
  ASSUME NEW total \in Nat, NEW S, IsFiniteSet(S), NEW w, \A i \in S : w[i] \in Nat,
         NEW sum, sum = SumFunctionOnSet(w, S), sum > 0,
         NEW floor, \A i \in S : floor[i] = (total * w[i]) \div sum
  PROVE  /\ \A i \in S : floor[i] \in Nat
         /\ SumFunctionOnSet(floor, S) \in Nat
         /\ SumFunctionOnSet(floor, S) <= total
<1>1. sum \in Nat
  BY SumNat
<1>2. ASSUME NEW i \in S PROVE floor[i] \in Nat /\ sum * floor[i] <= total * w[i] /\ total * w[i] \in Nat
  <2>1. total * w[i] \in Nat
    <3>. SUFFICES ASSUME NEW a \in Nat, NEW b \in Nat PROVE a * b \in Nat
      OBVIOUS
    <3>. QED
      OBVIOUS
  <2>. QED
    BY <1>1, <2>1, Quotient
<1> DEFINE F == SumFunctionOnSet(floor, S)
           low == [i \in S |-> sum * floor[i]]
           high == [i \in S |-> total * w[i]]
<1>3. F \in Nat
  BY <1>2, SumNat
<1>4. SumFunctionOnSet(low, S) = sum * F
  <2>1. \A i \in S : floor[i] \in Int /\ low[i] = sum * floor[i]
    BY <1>2
  <2> HIDE DEF low
  <2>. QED
    BY <1>1, <2>1, SumTimes
<1>5. SumFunctionOnSet(high, S) = total * sum
  <2>1. \A i \in S : w[i] \in Int /\ high[i] = total * w[i]
    OBVIOUS
  <2> HIDE DEF high
  <2>. QED
    BY <2>1, SumTimes
<1>6. SumFunctionOnSet(low, S) <= SumFunctionOnSet(high, S)
  <2>1. \A i \in S : low[i] \in Int /\ high[i] \in Int /\ low[i] <= high[i]
    <3>1. \A i \in S : sum * floor[i] \in Int
      <4>. SUFFICES ASSUME NEW a \in Nat, NEW b \in Nat PROVE a * b \in Int
        BY <1>1, <1>2
      <4>. QED
        OBVIOUS
    <3>. QED
      BY <1>2, <3>1
  <2> HIDE DEF low, high
  <2>. QED
    BY <2>1, SumBelow
<1> HIDE DEF F
<1>7. sum * F <= total * sum
  BY <1>4, <1>5, <1>6
<1>8. F <= total
  <2>. SUFFICES ASSUME NEW a \in Nat, NEW b \in Nat, NEW c \in Nat, c > 0, c * a <= b * c
                PROVE  a <= b
    BY <1>1, <1>3, <1>7
  <2>1. CASE a > b
    <3>1. PICK d \in Nat : a = b + d /\ d > 0
      <4>. WITNESS a - b \in Nat
      <4>. QED
        BY <2>1
    <3>2. c * a = c * b + c * d /\ c * b = b * c /\ c * d > 0
      BY <3>1
    <3>. QED
      BY <3>2
  <2>. QED
    BY <2>1
<1>. QED
  BY <1>2, <1>3, <1>8 DEF F

LEMMA SumMasked ==
  ASSUME NEW f, NEW S, IsFiniteSet(S), NEW A \in SUBSET S,
         \A x \in A : f[x] \in Int, \A x \in S \ A : f[x] = 0
  PROVE  SumFunctionOnSet(f, S) = SumFunctionOnSet(f, A)
<1>1. IsFiniteSet(S \ A) /\ IsFiniteSet(A)
  BY FS_Subset
<1>2. \A x \in S : f[x] \in Int
  OBVIOUS
<1>3. SumFunctionOnSet(f, S) = SumFunctionOnSet(f, A) + SumFunctionOnSet(f, S \ A)
  BY <1>2, SumParts
<1>4. SumFunctionOnSet(f, S \ A) = 0 /\ SumFunctionOnSet(f, A) \in Int
  BY <1>1, SumZero, SumInt
<1>. QED
  BY <1>3, <1>4

LEMMA SumOfOne ==
  ASSUME NEW f, NEW S, IsFiniteSet(S), NEW x \in S, f[x] \in Int, \A y \in S \ {x} : f[y] = 0
  PROVE  SumFunctionOnSet(f, S) = f[x]
<1>1. \A y \in S : f[y] \in Int
  OBVIOUS
<1>2. SumFunctionOnSet(f, S) = f[x] + SumFunctionOnSet(f, S \ {x})
  BY <1>1, SumWithout
<1>3. IsFiniteSet(S \ {x})
  BY FS_Subset
<1>4. SumFunctionOnSet(f, S \ {x}) = 0
  BY <1>3, SumZero
<1>. QED
  BY <1>2, <1>4

\* The parts of Distribute where there is something to split.
Split(total, S, w, sum, positive, floor, rest, extra, more, shares) ==
  /\ total \in Nat /\ S \in SUBSET Nat /\ IsFiniteSet(S)
  /\ \A i \in S : w[i] \in Nat
  /\ sum = SumFunctionOnSet(w, S) /\ sum > 0
  /\ positive = {i \in S : w[i] > 0}
  /\ \A i \in S : floor[i] = (total * w[i]) \div sum
  /\ rest = total - SumFunctionOnSet(floor, S)
  /\ \A i \in positive :
       extra[i] = Cardinality({k \in 0..(rest - 1) : k % Cardinality(positive) = Turn(positive, i)})
  /\ \A i \in S : more[i] = IF i \in positive THEN extra[i] ELSE 0
  /\ \A i \in S : shares[i] = floor[i] + more[i]

\* Shares rounded down and the turns of what is left make up the total.
LEMMA SharesAndTurns ==
  ASSUME NEW total, NEW S, NEW w, NEW sum, NEW positive, NEW floor, NEW rest,
         NEW extra, NEW more, NEW shares,
         Split(total, S, w, sum, positive, floor, rest, extra, more, shares)
  PROVE  /\ \A i \in S : shares[i] \in Nat
         /\ SumFunctionOnSet(shares, S) = total
<1> USE DEF Split
<1>1. /\ \A i \in S : floor[i] \in Nat
      /\ SumFunctionOnSet(floor, S) \in Nat /\ SumFunctionOnSet(floor, S) <= total
  BY SharesBelowTotal
<1>2. rest \in Nat
  BY <1>1
<1>3. positive \in SUBSET S /\ positive \in SUBSET Nat /\ IsFiniteSet(positive)
  <2>1. positive \in SUBSET S
    OBVIOUS
  <2>. QED
    BY <2>1, FS_Subset
<1>4. positive # {}
  <2>1. ASSUME positive = {} PROVE FALSE
    <3>1. \A i \in S : w[i] = 0
      BY <2>1
    <3>2. SumFunctionOnSet(w, S) = 0
      BY <3>1, SumZero
    <3>. QED
      BY <3>2
  <2>. QED
    BY <2>1
<1>5. SumFunctionOnSet(extra, positive) = rest /\ \A i \in positive : extra[i] \in Nat
  BY <1>2, <1>3, <1>4, TurnsHandOut
<1>6. /\ \A i \in S : more[i] \in Nat
      /\ \A i \in positive : more[i] = extra[i]
      /\ \A i \in S \ positive : more[i] = 0
  BY <1>3, <1>5
<1>7. SumFunctionOnSet(more, S) = SumFunctionOnSet(more, positive)
  <2>1. \A i \in positive : more[i] \in Int
    BY <1>3, <1>6
  <2>. QED
    BY <1>3, <1>6, <2>1, SumMasked
<1>8. SumFunctionOnSet(more, positive) = SumFunctionOnSet(extra, positive)
  BY <1>3, <1>6, SumSame
<1>9. SumFunctionOnSet(shares, S) = SumFunctionOnSet(floor, S) + SumFunctionOnSet(more, S)
  <2>1. Adds(shares, floor, more, S)
    BY <1>1, <1>6 DEF Adds
  <2>. QED
    BY <2>1, SumPlus
<1>10. \A i \in S : shares[i] \in Nat
  BY <1>1, <1>6
<1>11. SumFunctionOnSet(shares, S) = SumFunctionOnSet(floor, S) + rest
  BY <1>5, <1>7, <1>8, <1>9
<1>12. SumFunctionOnSet(shares, S) = total
  BY <1>1, <1>11
<1>. QED
  BY <1>10, <1>12

\* services/money/money.go Distribute: every position gets a share of whole cents, none
\* is negative, and together they are the amount that was split.
THEOREM DistributeAddsUp ==
  ASSUME NEW total \in Nat, NEW weights \in Seq(Nat), weights # <<>>
  PROVE  /\ Distribute(total, weights) \in [DOMAIN weights -> Nat]
         /\ SumOf(Distribute(total, weights)) = total
<1> DEFINE dom == DOMAIN weights
           shares == Distribute(total, weights)
           sum == SumFunctionOnSet(weights, dom)
           positive == {i \in dom : weights[i] > 0}
           floor == [i \in dom |-> (total * weights[i]) \div sum]
           rest == total - SumFunctionOnSet(floor, dom)
           extra == [i \in dom |-> Cardinality({k \in 0..(rest - 1) : k % Cardinality(positive) = Turn(positive, i)})]
           more == [i \in dom |-> IF i \in positive THEN extra[i] ELSE 0]
<1>1. /\ 1 \in dom /\ dom \subseteq Nat
      /\ \A i \in dom : weights[i] \in Nat
  OBVIOUS
<1>2. IsFiniteSet(dom)
  <2>1. dom = 1..Len(weights) /\ Len(weights) \in Nat
    OBVIOUS
  <2>. QED
    BY <2>1, FS_Interval
<1>3. sum \in Nat
  <2> HIDE DEF dom
  <2>. QED
    BY <1>1, <1>2, SumNat
<1>4. shares = IF total <= 0
               THEN [i \in dom |-> 0]
               ELSE IF sum = 0
                    THEN [i \in dom |-> IF i = 1 THEN total ELSE 0]
                    ELSE [i \in dom |-> floor[i] + more[i]]
  <2>1. DOMAIN floor = dom
    OBVIOUS
  <2>2. \A i \in dom : extra[i] = Cardinality({k \in 0..(rest - 1) :
                                      k % Cardinality(positive) = Cardinality({j \in positive : j < i})})
    BY DEF Turn
  <2>3. shares = IF total <= 0
                 THEN [i \in dom |-> 0]
                 ELSE IF sum = 0
                      THEN [i \in dom |-> IF i = 1 THEN total ELSE 0]
                      ELSE [i \in dom |-> floor[i] +
                              (IF i \in positive
                               THEN Cardinality({k \in 0..(total - SumFunctionOnSet(floor, DOMAIN floor) - 1) :
                                      k % Cardinality(positive) = Cardinality({j \in positive : j < i})})
                               ELSE 0)]
    BY DEF Distribute, SumOf
  <2> HIDE DEF shares, sum, floor, positive, dom, extra
  <2>. QED
    BY <2>1, <2>2, <2>3
<1>5. (\A i \in dom : shares[i] \in Nat) /\ SumFunctionOnSet(shares, dom) = total
  <2>1. CASE total = 0
    <3>1. \A i \in dom : shares[i] = 0
      BY <1>4, <2>1
    <3> HIDE DEF shares, dom
    <3>. QED
      BY <1>2, <2>1, <3>1, SumZero
  <2>2. CASE total > 0 /\ sum = 0
    <3> HIDE DEF shares, sum, dom
    <3>1. shares[1] = total /\ (\A i \in dom \ {1} : shares[i] = 0) /\ \A i \in dom : shares[i] \in Nat /\ shares[i] \in Int
      BY <1>1, <1>4, <2>2
    <3>2. shares[1] \in Int /\ \A i \in dom \ {1} : shares[i] = 0
      BY <3>1
    <3>. QED
      BY <1>1, <1>2, <3>1, <3>2, SumOfOne
  <2>3. CASE total > 0 /\ sum > 0
    <3>1. \A i \in dom : floor[i] = (total * weights[i]) \div sum
      OBVIOUS
    <3>2. \A i \in positive : extra[i] = Cardinality({k \in 0..(rest - 1) : k % Cardinality(positive) = Turn(positive, i)})
      OBVIOUS
    <3>3. \A i \in dom : more[i] = IF i \in positive THEN extra[i] ELSE 0
      OBVIOUS
    <3>4. dom \in SUBSET Nat /\ positive = {i \in dom : weights[i] > 0} /\ sum = SumFunctionOnSet(weights, dom)
          /\ rest = total - SumFunctionOnSet(floor, dom)
      BY <1>1
    <3> HIDE DEF shares, sum, floor, more, positive, dom, extra, rest
    <3>5. \A i \in dom : shares[i] = floor[i] + more[i]
      BY <1>4, <2>3
    <3>6. Split(total, dom, weights, sum, positive, floor, rest, extra, more, shares)
      BY <1>1, <1>2, <2>3, <3>1, <3>2, <3>3, <3>4, <3>5 DEF Split
    <3>. QED
      BY <3>6, SharesAndTurns
  <2>. QED
    BY <1>3, <2>1, <2>2, <2>3
<1>6. shares = [i \in dom |-> shares[i]]
  <2> HIDE DEF sum, floor, more, dom, shares
  <2>. QED
    BY <1>4
<1>7. shares \in [dom -> Nat] /\ DOMAIN shares = dom
  <2> HIDE DEF dom, shares
  <2>. QED
    BY <1>5, <1>6
<1>8. SumOf(shares) = total
  <2> HIDE DEF dom, shares
  <2>. QED
    BY <1>5, <1>7 DEF SumOf
<1>. QED
  BY <1>7, <1>8
-----------------------------------------------------------------------------
(* A receipt is paid as a whole.                                           *)

\* A row has the two columns that are looked at; a receipt is paid as a whole.
Marked(row) == {"paid", "cancelled"} \subseteq DOMAIN row /\ row.paid \in BOOLEAN /\ row.cancelled \in BOOLEAN

\* What a request read is still true enough of the rows: a position once
\* cancelled stays so, a payment is not taken back.
Remembered(q) ==
  q.kind # "none" =>
    /\ q.kind \in {"cancel", "deliver", "pay"}
    /\ Positions # {}
    /\ q.kind = "deliver" => q.position \in Active(q.snapshot)
    /\ q.kind = "cancel" /\ q.arg = "item" => q.position \in Active(q.snapshot)
    /\ q.kind = "pay" =>
         \A i \in Active(rows) : i \in Active(q.snapshot) /\ (q.snapshot[i].paid => rows[i].paid)

Inductive ==
  /\ \A i \in Positions : Marked(rows[i])
  /\ DOMAIN op = Requests
  /\ \A r \in Requests : Remembered(op[r])
  /\ NeverHalfPaid

-----------------------------------------------------------------------------
(* One row after each of the writes.                                        *)

LEMMA RowMade ==
  ASSUME NEW due, NEW shipping, NEW discount, NEW donation, NEW given,
         NEW paid \in BOOLEAN, NEW received
  PROVE  LET row == Row(due, shipping, discount, donation, given, paid, received)
         IN  Marked(row) /\ row.paid = paid /\ ~row.cancelled
BY DEF Row, Marked

LEMMA RowCancelled ==
  ASSUME NEW row, Marked(row)
  PROVE  Marked(Cancelled(row)) /\ Cancelled(row).cancelled /\ Cancelled(row).paid = row.paid
BY DEF Cancelled, Marked

LEMMA RowDelivered ==
  ASSUME NEW row, Marked(row), NEW next
  PROVE  /\ Marked(Delivered(row, next)) /\ Delivered(row, next).cancelled = row.cancelled
         /\ Delivered(row, next).paid = row.paid
BY DEF Delivered, Marked

LEMMA RowPaid ==
  ASSUME NEW row, Marked(row), NEW due
  PROVE  Marked(Paid(row, due)) /\ Paid(row, due).cancelled = row.cancelled /\ Paid(row, due).paid
BY DEF Paid, Marked

-----------------------------------------------------------------------------
(* The steps.                                                               *)

\* Rows go on to be rows of the receipt: none is dropped, none revived, and no
\* payment taken back.
GoOn(old, new) ==
  /\ DOMAIN new = DOMAIN old
  /\ \A i \in DOMAIN new :
       Marked(new[i]) /\ (old[i].cancelled => new[i].cancelled) /\ (old[i].paid => new[i].paid)

LEMMA StillRemembered ==
  ASSUME GoOn(rows, rows'), \A i \in Positions : Marked(rows[i]), NEW q, Remembered(q)
  PROVE  Remembered(q)'
<1>1. Positions' = Positions /\ \A i \in Active(rows') : i \in Active(rows) /\ (rows[i].paid => rows'[i].paid)
  BY DEF GoOn, Positions, Active, Marked
<1>. QED
  BY <1>1 DEF Remembered

\* A request that ends leaves the others as they were.
LEMMA RequestEnds ==
  ASSUME Inductive, GoOn(rows, rows'), NEW r \in Requests, op' = [op EXCEPT ![r] = NoOp]
  PROVE  /\ \A i \in Positions' : Marked(rows'[i])
         /\ DOMAIN op' = Requests
         /\ \A s \in Requests : Remembered(op[s])'
         /\ \A s \in Requests : op'[s] = op[s] \/ op'[s] = NoOp
<1>1. \A s \in Requests : Remembered(op[s])
  BY DEF Inductive
<1>2. \A s \in Requests : op'[s] = op[s] \/ op'[s] = NoOp
  BY DEF Inductive
<1>3. ASSUME NEW q, Remembered(q) PROVE Remembered(q)'
  BY <1>3, StillRemembered DEF Inductive
<1>4. Remembered(NoOp)'
  BY DEF Remembered, NoOp
<1>. QED
  BY <1>1, <1>2, <1>3, <1>4 DEF Inductive, GoOn, Positions

\* A booking is the first step: nobody has read anything yet.
LEMMA FirstRows ==
  ASSUME Inductive, rows = <<>>, UNCHANGED op,
         NEW paid \in BOOLEAN, \A i \in DOMAIN rows' : Marked(rows'[i]) /\ rows'[i].paid = paid
  PROVE  Inductive'
<1>1. Positions = {}
  BY DEF Positions
<1>2. \A r \in Requests : op[r].kind = "none"
  BY <1>1 DEF Inductive, Remembered
<1>3. \A r \in Requests : Remembered(op[r])'
  BY <1>2 DEF Remembered
<1>4. \A i \in Positions' : Marked(rows'[i])
  BY DEF Positions
<1>5. NeverHalfPaid'
  BY DEF NeverHalfPaid, Active
<1>. QED
  BY <1>3, <1>4, <1>5 DEF Inductive

LEMMA BookingKeeps ==
  ASSUME Inductive, Booking
  PROVE  Inductive'
<1>1. ASSUME NEW goods \in Lines, NEW cost \in Costs, NEW paid \in BOOLEAN, NEW received \in BOOLEAN,
             Book(goods, cost, paid, received)
      PROVE  Inductive'
  <2>1. PICK given : rows' = Prepared(goods, cost, paid, received, given)
    BY <1>1 DEF Book
  <2>2. \A i \in DOMAIN rows' : Marked(rows'[i]) /\ rows'[i].paid = paid
    BY <2>1, RowMade DEF Prepared
  <2>. QED
    BY <1>1, <2>2, FirstRows DEF Book
<1>2. ASSUME NEW amount \in Amounts, NEW isDonation \in BOOLEAN, BookSpecial(amount, isDonation)
      PROVE  Inductive'
  <2>1. \E row : rows' = <<row>> /\ Marked(row) /\ row.paid = TRUE
    <3>1. CASE isDonation
      BY <1>2, <3>1, RowMade DEF BookSpecial
    <3>2. CASE ~isDonation
      BY <1>2, <3>2, RowMade DEF BookSpecial
    <3>. QED
      BY <3>1, <3>2
  <2>2. \A i \in DOMAIN rows' : Marked(rows'[i]) /\ rows'[i].paid = TRUE
    BY <2>1
  <2>. QED
    BY <1>2, <2>2, FirstRows DEF BookSpecial
<1>. QED
  BY <1>1, <1>2 DEF Booking

LEMMA ReadingKeeps ==
  ASSUME Inductive, NEW r \in Requests, Reading(r)
  PROVE  Inductive'
<1>1. ASSUME NEW kind, NEW i, NEW arg, Read(r, kind, i, arg),
             kind \in {"cancel", "deliver", "pay"}, Positions # {},
             kind = "deliver" \/ (kind = "cancel" /\ arg = "item") => i \in Active(rows)
      PROVE  Inductive'
  <2> DEFINE q == [kind |-> kind, position |-> i, snapshot |-> rows, arg |-> arg]
  <2>1. Remembered(q)
    BY <1>1 DEF Remembered, Active
  <2>2. op' = [op EXCEPT ![r] = q] /\ rows' = rows
    BY <1>1 DEF Read
  <2> HIDE DEF q
  <2>3. \A s \in Requests : Remembered(op'[s])
    BY <2>1, <2>2 DEF Inductive
  <2>4. \A s \in Requests : Remembered(op[s])'
    BY <2>2, <2>3 DEF Remembered, Positions
  <2>. QED
    BY <2>2, <2>4 DEF Inductive, NeverHalfPaid, Positions
<1>2. ASSUME NEW i \in Positions, NEW scope \in {"item", "receipt"}, ReadCancel(r, i, scope)
      PROVE  Inductive'
  BY <1>1, <1>2 DEF ReadCancel
<1>3. ASSUME NEW i \in Positions, NEW next, ReadDelivery(r, i, next)
      PROVE  Inductive'
  BY <1>1, <1>3 DEF ReadDelivery
<1>4. ASSUME NEW i \in Positions, ReadPaid(r, i)
      PROVE  Inductive'
  BY <1>1, <1>4 DEF ReadPaid
<1>. QED
  BY <1>2, <1>3, <1>4 DEF Reading

\* Whatever a commit writes, no row is dropped or revived, and a payment pays all
\* that is still there.
LEMMA CommitKeeps ==
  ASSUME Inductive, NEW r \in Requests, Commit(r)
  PROVE  Inductive'
<1> DEFINE q == op[r]
<1>1. /\ q.kind \in {"cancel", "deliver", "pay"}
      /\ rows' = [i \in Positions |-> IF i \in Written(q) THEN Updated(q, i) ELSE rows[i]]
      /\ Remembered(q)
  BY DEF Commit, Inductive, Remembered
<1>2. \A i \in Positions : Marked(rows[i])
  BY DEF Inductive
<1>3. ASSUME NEW i \in Positions
      PROVE  /\ Marked(Updated(q, i)) /\ (rows[i].cancelled => Updated(q, i).cancelled)
             /\ q.kind # "pay" => Updated(q, i).paid = rows[i].paid
             /\ q.kind = "pay" => Updated(q, i).paid
  <2>1. CASE q.kind = "cancel"
    BY <1>2, <2>1, RowCancelled DEF Updated
  <2>2. CASE q.kind = "deliver"
    BY <1>2, <2>2, RowDelivered DEF Updated
  <2>3. CASE q.kind = "pay"
    BY <1>2, <2>3, RowPaid DEF Updated
  <2>. QED
    BY <1>1, <2>1, <2>2, <2>3
<1>4. GoOn(rows, rows')
  <2>1. DOMAIN rows' = DOMAIN rows
    BY <1>1 DEF Positions
  <2>2. ASSUME NEW i \in DOMAIN rows'
        PROVE  /\ Marked(rows'[i])
               /\ (rows[i].cancelled => rows'[i].cancelled) /\ (rows[i].paid => rows'[i].paid)
    <3>1. i \in Positions /\ (rows'[i] = Updated(q, i) \/ rows'[i] = rows[i])
      BY <1>1, <2>1 DEF Positions
    <3>. QED
      BY <1>1, <1>2, <1>3, <3>1
  <2>. QED
    BY <2>1, <2>2 DEF GoOn
<1>5. \A i \in Active(rows') : i \in Active(rows)
  BY <1>4 DEF GoOn, Active, Positions
<1>6. NeverHalfPaid'
  <2>1. CASE q.kind = "pay"
    <3>1. \A i \in Active(rows') : rows'[i].paid
      <4>. SUFFICES ASSUME NEW i \in Active(rows') PROVE rows'[i].paid
        OBVIOUS
      <4>1. i \in Active(rows) /\ i \in Active(q.snapshot) /\ (q.snapshot[i].paid => rows[i].paid)
        BY <1>1, <1>5, <2>1 DEF Remembered
      <4>2. CASE q.snapshot[i].paid
        BY <1>4, <4>1, <4>2 DEF GoOn, Active
      <4>3. CASE ~q.snapshot[i].paid
        <5>1. i \in Written(q)
          BY <2>1, <4>1, <4>3 DEF Written, SettledBy, Outstanding
        <5>2. i \in Positions
          BY <4>1 DEF Active, Positions
        <5>. QED
          BY <1>1, <1>3, <2>1, <5>1, <5>2
      <4>. QED
        BY <4>2, <4>3
    <3>. QED
      BY <1>4, <3>1 DEF NeverHalfPaid, GoOn, Active, Marked
  <2>2. CASE q.kind # "pay"
    <3>1. \A i \in Positions : rows'[i].paid = rows[i].paid
      BY <1>1, <1>3, <2>2
    <3>. QED
      BY <1>5, <3>1 DEF NeverHalfPaid, Inductive, Active, Positions
  <2>. QED
    BY <2>1, <2>2
<1>. QED
  BY <1>4, <1>6, RequestEnds DEF Commit, Inductive

LEMMA AbortKeeps ==
  ASSUME Inductive, NEW r \in Requests, Abort(r)
  PROVE  Inductive'
<1>1. GoOn(rows, rows') /\ NeverHalfPaid'
  BY DEF Abort, GoOn, Inductive, NeverHalfPaid, Active, Positions
<1>. QED
  BY <1>1, RequestEnds DEF Abort, Inductive

\* New prices change neither what is paid nor what is cancelled.
LEMMA RowsRepriced ==
  ASSUME NEW active, NEW cost, NEW k \in DOMAIN active, Marked(rows[active[k]])
  PROVE  LET new == Repriced(active, cost)[k]
         IN  /\ Marked(new) /\ new.cancelled = rows[active[k]].cancelled
             /\ new.paid = rows[active[k]].paid
<1> DEFINE row(j)    == rows[active[j]]
           paid      == row(1).paid
           goods     == [j \in DOMAIN active |-> Goods(row(j))]
           collected == SumOf([j \in DOMAIN active |-> row(j).given])
           total     == RepricedTotal(cost, goods, SumOf([j \in DOMAIN active |-> row(j).shipping]))
           shipping  == Distribute(cost, goods)
           discount  == Distribute(IF paid THEN Discount(total, collected) ELSE 0, goods)
           donation  == Distribute(IF paid THEN Donation(total, collected) ELSE 0, goods)
           due(j)    == goods[j] + shipping[j]
           given     == IF paid THEN due(k) - discount[k] + donation[k] ELSE 0
<1>1. Repriced(active, cost) =
        [j \in DOMAIN active |->
           [row(j) EXCEPT
              !.shipping = shipping[j], !.due = due(j), !.discount = discount[j],
              !.donation = donation[j],
              !.given = IF paid THEN due(j) - discount[j] + donation[j] ELSE 0]]
  BY DEF Repriced
<1>2. Repriced(active, cost)[k] =
        [rows[active[k]] EXCEPT
           !.shipping = shipping[k], !.due = due(k), !.discount = discount[k],
           !.donation = donation[k], !.given = given]
  <2> HIDE DEF collected, total, shipping, discount, donation, goods
  <2>. QED
    BY <1>1
<1> HIDE DEF row, paid, goods, collected, total, shipping, discount, donation, due, given
<1>. QED
  BY <1>2 DEF Marked

LEMMA ShippingKeeps ==
  ASSUME Inductive, NEW cost \in Costs, UpdateShippingCost(cost)
  PROVE  Inductive'
<1>1. PICK active \in InOrder(Active(rows)) :
        rows' = [i \in Positions |->
                   IF i \in Active(rows)
                   THEN Repriced(active, cost)[CHOOSE k \in DOMAIN active : active[k] = i]
                   ELSE rows[i]]
  BY DEF UpdateShippingCost
<1>2. ASSUME NEW i \in Positions
      PROVE  /\ Marked(rows'[i]) /\ rows'[i].cancelled = rows[i].cancelled
             /\ rows'[i].paid = rows[i].paid
  <2>1. Marked(rows[i])
    BY DEF Inductive
  <2>2. CASE i \notin Active(rows)
    BY <1>1, <2>1, <2>2
  <2>3. CASE i \in Active(rows)
    <3> DEFINE k == CHOOSE n \in DOMAIN active : active[n] = i
    <3>1. \E n \in DOMAIN active : active[n] = i
      BY <2>3 DEF InOrder, Range
    <3>2. k \in DOMAIN active /\ active[k] = i
      BY <3>1
    <3>3. rows'[i] = Repriced(active, cost)[k]
      BY <1>1, <2>3
    <3> HIDE DEF k
    <3>. QED
      BY <2>1, <3>2, <3>3, RowsRepriced
  <2>. QED
    BY <2>2, <2>3
<1>3. Positions' = Positions /\ UNCHANGED op
  BY <1>1 DEF Positions, UpdateShippingCost
<1>4. GoOn(rows, rows')
  BY <1>2, <1>3 DEF GoOn, Positions
<1>5. \A r \in Requests : Remembered(op[r])'
  <2>1. ASSUME NEW q, Remembered(q) PROVE Remembered(q)'
    BY <1>4, <2>1, StillRemembered DEF Inductive
  <2>. QED
    BY <1>3, <2>1 DEF Inductive
<1>6. NeverHalfPaid'
  BY <1>2, <1>3 DEF NeverHalfPaid, Inductive, Active, Positions
<1>. QED
  BY <1>2, <1>3, <1>5, <1>6 DEF Inductive

LEMMA Starts == Init => Inductive
BY DEF Init, Inductive, Remembered, NoOp, NeverHalfPaid, Active, Positions

LEMMA Steps == Inductive /\ [Next]_vars => Inductive'
<1>1. ASSUME Inductive, UNCHANGED vars PROVE Inductive'
  <2>1. UNCHANGED <<rows, op>>
    BY <1>1 DEF vars
  <2>. QED
    BY <1>1, <2>1 DEF Inductive, Remembered, NeverHalfPaid, Active, Positions
<1>. QED
  BY <1>1, BookingKeeps, ReadingKeeps, CommitKeeps, AbortKeeps, ShippingKeeps DEF Next

LEMMA Invariant == Spec => []Inductive
BY Starts, Steps, PTL DEF Spec

\* services/sales/lifecycle.go MarkPaid: "a receipt can never be left half paid".
\* Whatever overlaps, a payment settles all that was outstanding when it read, and
\* what is still there was there then.
THEOREM ReceiptPaidAsAWhole == Spec => []NeverHalfPaid
<1>1. Inductive => NeverHalfPaid
  BY DEF Inductive
<1>. QED
  BY <1>1, Invariant, PTL

-----------------------------------------------------------------------------
\* A write hits an active row only: the ids it names were active when they were
\* read, and a row that changed since makes the transaction fail.
LEMMA FrozenStep ==
  ASSUME SnapshotIsolation, Inductive, [Next]_vars
  PROVE  \A i \in Positions : rows[i].cancelled => rows'[i] = rows[i]
<1>. SUFFICES ASSUME NEW i \in Positions, rows[i].cancelled PROVE rows'[i] = rows[i]
  OBVIOUS
<1>1. CASE Booking
  <2>1. rows = <<>>
    BY <1>1 DEF Booking, Book, BookSpecial
  <2>. QED
    BY <2>1 DEF Positions
<1>2. ASSUME NEW r \in Requests, Commit(r) PROVE rows'[i] = rows[i]
  <2> DEFINE q == op[r]
  <2>1. /\ Remembered(q) /\ q.kind # "none"
        /\ \A j \in Written(q) : rows[j] = q.snapshot[j]
        /\ rows' = [j \in Positions |-> IF j \in Written(q) THEN Updated(q, j) ELSE rows[j]]
    BY <1>2 DEF Commit, Inductive
  <2>2. i \notin Written(q)
    <3>. SUFFICES ASSUME i \in Written(q) PROVE FALSE
      OBVIOUS
    <3>1. ~(i \in Active(q.snapshot)) /\ i \notin Active(rows)
      BY <2>1 DEF Active
    <3>2. CASE q.kind = "cancel"
      BY <2>1, <3>1, <3>2 DEF Written, Remembered
    <3>3. CASE q.kind = "deliver"
      BY <2>1, <3>1, <3>3 DEF Written, Remembered
    <3>4. CASE q.kind = "pay"
      BY <3>1, <3>4 DEF Written, SettledBy, Outstanding
    <3>. QED
      BY <2>1, <3>2, <3>3, <3>4 DEF Remembered
  <2>. QED
    BY <2>1, <2>2
<1>3. ASSUME NEW r \in Requests, Reading(r) \/ Abort(r) PROVE rows'[i] = rows[i]
  BY <1>3 DEF Reading, ReadCancel, ReadDelivery, ReadPaid, Read, Abort
<1>4. ASSUME NEW cost \in Costs, UpdateShippingCost(cost) PROVE rows'[i] = rows[i]
  <2>1. i \notin Active(rows)
    BY DEF Active
  <2>. QED
    BY <1>4, <2>1 DEF UpdateShippingCost
<1>5. CASE UNCHANGED vars
  BY <1>5 DEF vars
<1>. QED
  BY <1>1, <1>2, <1>3, <1>4, <1>5 DEF Next

\* services/sales/lifecycle.go Cancel: what was cancelled never changes again, whoever
\* was about to write it.  A database that lets a transaction write a row changed
\* since its snapshot would deliver or pay a cancelled position.
THEOREM CancelledStays == ASSUME SnapshotIsolation PROVE Spec => CancelledFrozen
<1>1. ASSUME Inductive, [Next]_vars
      PROVE  [\A i \in Positions : rows[i].cancelled => rows'[i] = rows[i]]_vars
  BY <1>1, FrozenStep
<1>. QED
  BY <1>1, Invariant, PTL DEF Spec, CancelledFrozen
-----------------------------------------------------------------------------
(* What was received for a receipt.                                        *)

\* What was given is what was due, less the discount and plus the donation.
LedgerRow(row) ==
  /\ {"due", "shipping", "discount", "donation", "given"} \subseteq DOMAIN row
  /\ row.due \in Int /\ row.shipping \in Int /\ row.given \in Int
  /\ row.discount \in Int /\ row.donation \in Int
  /\ Goods(row) \in Nat
  /\ row.paid => row.given = row.due - row.discount + row.donation
  /\ ~row.paid => row.discount = 0 /\ row.donation = 0

\* A request in flight has seen all positions, and one of them open if it settles.
Seen(q) ==
  q.kind # "none" =>
    /\ DOMAIN q.snapshot = Positions
    /\ q.kind = "pay" => Outstanding(q.snapshot) # {}

Ledger ==
  /\ \E n \in Nat : Positions = 1..n
  /\ \A i \in Positions : LedgerRow(rows[i])
  /\ \A r \in Requests : Seen(op[r])
  /\ PositionsAddUp

\* What was given for a receipt as a whole.
GivenFor(table) == SumFunctionOnSet([i \in DOMAIN table |-> table[i].given], DOMAIN table)

LEMMA AddUpSays ==
  PositionsAddUp <=>
    (rows # <<>> /\ Active(rows) = Positions /\ Outstanding(rows) = {} => GivenFor(rows) = handed)
BY DEF PositionsAddUp, TotalOf, GivenFor, Positions

LEMMA PositionsFinite == Ledger => IsFiniteSet(Positions)
<1>. SUFFICES ASSUME Ledger PROVE IsFiniteSet(Positions)
  OBVIOUS
<1>1. PICK n \in Nat : Positions = 1..n
  BY DEF Ledger
<1>. QED
  BY <1>1, FS_Interval

-----------------------------------------------------------------------------
(* What a basket comes to.                                                  *)

LEMMA DistributeNothing ==
  ASSUME NEW weights
  PROVE  Distribute(0, weights) = [i \in DOMAIN weights |-> 0]
BY DEF Distribute

LEMMA Settlement ==
  ASSUME NEW total \in Int, NEW given \in Int
  PROVE  /\ Discount(total, given) \in Nat /\ Donation(total, given) \in Nat
         /\ total - Discount(total, given) + Donation(total, given) = given
BY DEF Discount, Donation

\* Shares of shipping, discount and donation: what each position pays comes to what
\* was handed over.
Priced(goods, cost, given, shipping, discount, donation, amount) ==
  /\ goods \in Seq(Nat) /\ goods # <<>> /\ cost \in Nat /\ given \in Int
  /\ shipping = Distribute(cost, goods)
  /\ discount = Distribute(Discount(SumOf(goods) + cost, given), goods)
  /\ donation = Distribute(Donation(SumOf(goods) + cost, given), goods)
  /\ \A i \in DOMAIN goods : amount[i] = (goods[i] + shipping[i]) - discount[i] + donation[i]

LEMMA AmountsAddUp ==
  ASSUME NEW goods, NEW cost, NEW given, NEW shipping, NEW discount, NEW donation, NEW amount,
         Priced(goods, cost, given, shipping, discount, donation, amount)
  PROVE  /\ \A i \in DOMAIN goods : amount[i] \in Int
         /\ SumFunctionOnSet(amount, DOMAIN goods) = given
<1> DEFINE dom == DOMAIN goods
           total == SumOf(goods) + cost
           due == [i \in dom |-> goods[i] + shipping[i]]
           less == [i \in dom |-> due[i] - discount[i]]
<1>1. IsFiniteSet(dom) /\ \A i \in dom : goods[i] \in Nat
  <2>1. dom = 1..Len(goods) /\ Len(goods) \in Nat /\ \A i \in dom : goods[i] \in Nat
    BY DEF Priced
  <2>. QED
    BY <2>1, FS_Interval
<1>2. SumFunctionOnSet(goods, dom) \in Nat /\ SumOf(goods) = SumFunctionOnSet(goods, dom)
  <2> HIDE DEF dom
  <2>1. SumFunctionOnSet(goods, dom) \in Nat
    BY <1>1, SumNat
  <2>. QED
    BY <2>1 DEF SumOf, dom
<1>3. /\ total \in Int
      /\ Discount(total, given) \in Nat /\ Donation(total, given) \in Nat
      /\ total - Discount(total, given) + Donation(total, given) = given
  <2>1. total \in Int
    BY <1>2 DEF Priced
  <2>. QED
    BY <2>1, Settlement DEF Priced
<1>4. ASSUME NEW amt \in Nat, NEW share, share = Distribute(amt, goods)
      PROVE  (\A i \in dom : share[i] \in Nat) /\ SumFunctionOnSet(share, dom) = amt
  <2>1. share \in [dom -> Nat] /\ SumOf(share) = amt
    BY <1>4, DistributeAddsUp DEF Priced
  <2>. QED
    BY <2>1 DEF SumOf
<1>5. (\A i \in dom : shipping[i] \in Nat) /\ SumFunctionOnSet(shipping, dom) = cost
  BY <1>4 DEF Priced
<1>6. /\ \A i \in dom : discount[i] \in Nat
      /\ SumFunctionOnSet(discount, dom) = Discount(total, given)
  BY <1>3, <1>4 DEF Priced
<1>7. /\ \A i \in dom : donation[i] \in Nat
      /\ SumFunctionOnSet(donation, dom) = Donation(total, given)
  BY <1>3, <1>4 DEF Priced
<1>8. \A i \in dom : amount[i] = (goods[i] + shipping[i]) - discount[i] + donation[i]
  BY DEF Priced
<1>9. /\ Adds(due, goods, shipping, dom)
      /\ Adds(due, less, discount, dom)
      /\ Adds(amount, less, donation, dom)
      /\ \A i \in dom : amount[i] \in Int /\ less[i] \in Int
  BY <1>1, <1>5, <1>6, <1>7, <1>8 DEF Adds
<1> HIDE DEF dom, due, less
<1>10. /\ SumFunctionOnSet(due, dom) = SumFunctionOnSet(goods, dom) + SumFunctionOnSet(shipping, dom)
       /\ SumFunctionOnSet(due, dom) = SumFunctionOnSet(less, dom) + SumFunctionOnSet(discount, dom)
       /\ SumFunctionOnSet(amount, dom) = SumFunctionOnSet(less, dom) + SumFunctionOnSet(donation, dom)
  BY <1>9, SumPlus
<1>11. SumFunctionOnSet(less, dom) \in Int
  BY <1>1, <1>9, SumInt
<1>12. SumFunctionOnSet(amount, dom) = total - Discount(total, given) + Donation(total, given)
  <2>1. total = SumFunctionOnSet(goods, dom) + cost
    BY <1>2
  <2>2. cost \in Int
    BY DEF Priced
  <2> HIDE DEF total
  <2>. QED
    BY <1>2, <1>3, <1>5, <1>6, <1>7, <1>10, <1>11, <2>1, <2>2
<1>. QED
  BY <1>3, <1>9, <1>12 DEF dom

LEMMA SharesTyped ==
  ASSUME NEW goods \in Seq(Nat), goods # <<>>, NEW amount \in Nat
  PROVE  \A i \in DOMAIN goods : Distribute(amount, goods)[i] \in Nat
BY DistributeAddsUp

\* The first rows of the receipt: nobody has read it yet.
LEMMA LedgerStarts ==
  ASSUME Inductive, rows = <<>>, UNCHANGED op,
         NEW n \in Nat, DOMAIN rows' = 1..n,
         \A i \in 1..n : Marked(rows'[i]) /\ LedgerRow(rows'[i]),
         (\A i \in 1..n : rows'[i].paid) => GivenFor(rows') = handed'
  PROVE  Ledger'
<1>1. Positions = {} /\ Positions' = 1..n
  BY DEF Positions
<1>2. \A r \in Requests : op'[r].kind = "none"
  BY <1>1 DEF Inductive, Remembered
<1>3. \A r \in Requests : Seen(op[r])'
  BY <1>2 DEF Seen
<1>4. PositionsAddUp'
  <2>. SUFFICES ASSUME Active(rows') = Positions', Outstanding(rows') = {}
                PROVE  GivenFor(rows') = handed'
    BY DEF PositionsAddUp, TotalOf, GivenFor, Positions
  <2>1. \A i \in 1..n : rows'[i].paid
    <3>1. \A i \in 1..n : rows'[i].paid \in BOOLEAN
      BY DEF Marked
    <3>. QED
      BY <1>1, <3>1 DEF Outstanding, Active
  <2>. QED
    BY <1>1, <2>1
<1>. QED
  BY <1>1, <1>3, <1>4 DEF Ledger

LEMMA BookingLedger ==
  ASSUME LifecycleAssumption, Inductive, Booking
  PROVE  Ledger'
<1>1. ASSUME NEW goods \in Lines, NEW cost \in Costs, NEW paid \in BOOLEAN, NEW received \in BOOLEAN,
             Book(goods, cost, paid, received)
      PROVE  Ledger'
  <2>1. goods \in Seq(Nat) /\ goods # <<>> /\ cost \in Nat
    BY DEF LifecycleAssumption
  <2>2. DOMAIN goods = 1..Len(goods) /\ Len(goods) \in Nat /\ \A i \in DOMAIN goods : goods[i] \in Nat
    BY <2>1
  <2>3. SumOf(goods) \in Nat
    <3>1. IsFiniteSet(DOMAIN goods)
      BY <2>2, FS_Interval
    <3>2. SumFunctionOnSet(goods, DOMAIN goods) \in Nat
      BY <2>2, <3>1, SumNat
    <3>. QED
      BY <3>2 DEF SumOf
  <2>4. PICK given \in Amounts \cup {SumOf(goods) + cost} :
          rows' = Prepared(goods, cost, paid, received, given) /\ handed' = IF paid THEN given ELSE 0
    BY <1>1 DEF Book
  <2>5. given \in Int
    BY <2>1, <2>3 DEF LifecycleAssumption
  <2> DEFINE dom      == DOMAIN goods
             total    == SumOf(goods) + cost
             shipping == Distribute(cost, goods)
             discount == Distribute(IF paid THEN Discount(total, given) ELSE 0, goods)
             donation == Distribute(IF paid THEN Donation(total, given) ELSE 0, goods)
             due(i)   == goods[i] + shipping[i]
             amount(i) == IF paid THEN due(i) - discount[i] + donation[i] ELSE 0
             row(i)   == Row(due(i), shipping[i], discount[i], donation[i], amount(i), paid, received)
  <2>6. rows' = [i \in dom |-> row(i)]
    BY <2>4 DEF Prepared
  <2>7. \A i \in dom :
          /\ goods[i] \in Nat /\ shipping[i] \in Nat /\ discount[i] \in Nat /\ donation[i] \in Nat
          /\ ~paid => discount[i] = 0 /\ donation[i] = 0
    <3>1. total \in Int /\ \A i \in dom : goods[i] \in Nat
      BY <2>1, <2>2, <2>3
    <3>2. \A i \in dom : shipping[i] \in Nat
      BY <2>1, SharesTyped
    <3>3. CASE paid
      <4>1. /\ discount = Distribute(Discount(total, given), goods)
            /\ donation = Distribute(Donation(total, given), goods)
        BY <3>3
      <4>2. Discount(total, given) \in Nat /\ Donation(total, given) \in Nat
        BY <2>5, <3>1, Settlement
      <4> HIDE DEF discount, donation, total
      <4>3. \A i \in dom : discount[i] \in Nat /\ donation[i] \in Nat
        BY <2>1, <4>1, <4>2, SharesTyped
      <4>. QED
        BY <3>1, <3>2, <3>3, <4>3
    <3>4. CASE ~paid
      <4>1. discount = Distribute(0, goods) /\ donation = Distribute(0, goods)
        BY <3>4
      <4> HIDE DEF discount, donation
      <4>2. \A i \in dom : discount[i] = 0 /\ donation[i] = 0
        BY <4>1, DistributeNothing
      <4>. QED
        BY <3>1, <3>2, <4>2
    <3>. QED
      BY <3>3, <3>4
  <2>8. \A i \in dom :
          LET new == rows'[i]
          IN  /\ Marked(new) /\ new.paid = paid
              /\ {"due", "shipping", "discount", "donation", "given"} \subseteq DOMAIN new
              /\ new.due = due(i) /\ new.shipping = shipping[i] /\ new.given = amount(i)
              /\ new.discount = discount[i] /\ new.donation = donation[i]
    <3>. SUFFICES ASSUME NEW i \in dom
                  PROVE  LET new == row(i)
                         IN  /\ Marked(new) /\ new.paid = paid
                             /\ {"due", "shipping", "discount", "donation", "given"} \subseteq DOMAIN new
                             /\ new.due = due(i) /\ new.shipping = shipping[i] /\ new.given = amount(i)
                             /\ new.discount = discount[i] /\ new.donation = donation[i]
      <4> HIDE DEF row, dom, due, amount, shipping, discount, donation
      <4>. QED
        BY <2>6
    <3> HIDE DEF shipping, discount, donation, due, amount
    <3>. QED
      BY DEF Row, Marked
  <2>9. \A i \in dom : Marked(rows'[i]) /\ LedgerRow(rows'[i])
    <3>. SUFFICES ASSUME NEW i \in dom PROVE Marked(rows'[i]) /\ LedgerRow(rows'[i])
      OBVIOUS
    <3> DEFINE new == rows'[i]
    <3>1. /\ goods[i] \in Nat /\ shipping[i] \in Nat /\ discount[i] \in Nat /\ donation[i] \in Nat
          /\ ~paid => discount[i] = 0 /\ donation[i] = 0
      BY <2>7
    <3>2. /\ Marked(new) /\ new.paid = paid
          /\ {"due", "shipping", "discount", "donation", "given"} \subseteq DOMAIN new
          /\ new.due = due(i) /\ new.shipping = shipping[i] /\ new.given = amount(i)
          /\ new.discount = discount[i] /\ new.donation = donation[i]
      BY <2>8
    <3> HIDE DEF shipping, discount, donation, dom, row, new
    <3>3. due(i) \in Int /\ amount(i) \in Int /\ due(i) - shipping[i] \in Nat
      <4>1. due(i) \in Int /\ due(i) - shipping[i] = goods[i]
        BY <3>1
      <4> HIDE DEF due
      <4>2. due(i) - discount[i] + donation[i] \in Int
        BY <3>1, <4>1
      <4>. QED
        BY <3>1, <4>1, <4>2
    <3>4. paid => amount(i) = due(i) - discount[i] + donation[i]
      OBVIOUS
    <3> HIDE DEF due, amount
    <3>5. LedgerRow(new)
      BY <3>1, <3>2, <3>3, <3>4 DEF LedgerRow, Goods
    <3>. QED
      BY <3>2, <3>5 DEF new
  <2>10. (\A i \in dom : rows'[i].paid) => GivenFor(rows') = handed'
    <3>1. SUFFICES ASSUME \A i \in dom : rows'[i].paid PROVE GivenFor(rows') = handed'
      OBVIOUS
    <3>2. paid
      <4>1. 1 \in dom
        BY <2>1
      <4> HIDE DEF shipping, discount, donation, due, amount, dom
      <4>. QED
        BY <2>8, <3>1, <4>1
    <3> DEFINE f == [i \in DOMAIN rows' |-> rows'[i].given]
    <3>3. DOMAIN rows' = dom
      BY <2>6
    <3>4. \A i \in dom : f[i] = due(i) - discount[i] + donation[i]
      <4>1. \A i \in dom : rows'[i].given = amount(i)
        <5> HIDE DEF shipping, discount, donation, due, amount, dom
        <5>. QED
          BY <2>8
      <4> HIDE DEF shipping, discount, donation, due, dom
      <4>. QED
        BY <3>2, <3>3, <4>1
    <3>5. /\ discount = Distribute(Discount(SumOf(goods) + cost, given), goods)
          /\ donation = Distribute(Donation(SumOf(goods) + cost, given), goods)
      BY <3>2
    <3>6. Priced(goods, cost, given, shipping, discount, donation, f)
      <4> HIDE DEF discount, donation, f
      <4>. QED
        BY <2>1, <2>5, <3>4, <3>5 DEF Priced
    <3>7. SumFunctionOnSet(f, dom) = given
      <4> HIDE DEF discount, donation, f, shipping
      <4>. QED
        BY <3>6, AmountsAddUp
    <3>8. GivenFor(rows') = SumFunctionOnSet(f, dom)
      <4> HIDE DEF dom
      <4>. QED
        BY <3>3 DEF GivenFor
    <3>. QED
      BY <2>4, <3>2, <3>7, <3>8
  <2>11. rows = <<>> /\ UNCHANGED op /\ DOMAIN rows' = 1..Len(goods)
    <3>1. DOMAIN rows' = dom
      BY <2>6
    <3>. QED
      BY <1>1, <2>2, <3>1 DEF Book
  <2> HIDE DEF dom
  <2>. QED
    BY <2>2, <2>9, <2>10, <2>11, LedgerStarts DEF dom
<1>2. ASSUME NEW amount \in Amounts, NEW isDonation \in BOOLEAN, BookSpecial(amount, isDonation)
      PROVE  Ledger'
  <2>1. amount \in Nat
    BY DEF LifecycleAssumption
  <2>2. \E row : rows' = <<row>> /\ Marked(row) /\ LedgerRow(row) /\ row.given = amount
    <3> DEFINE row == IF isDonation THEN Row(0, 0, 0, amount, amount, TRUE, TRUE)
                                    ELSE Row(amount, 0, 0, 0, amount, TRUE, TRUE)
    <3>1. rows' = <<row>>
      BY <1>2 DEF BookSpecial
    <3>2. CASE isDonation
      <4>1. row = Row(0, 0, 0, amount, amount, TRUE, TRUE)
        BY <3>2
      <4> HIDE DEF row
      <4>2. Marked(row) /\ LedgerRow(row) /\ row.given = amount
        BY <2>1, <4>1 DEF Row, LedgerRow, Goods, Marked
      <4>. QED
        BY <3>1, <4>2
    <3>3. CASE ~isDonation
      <4>1. row = Row(amount, 0, 0, 0, amount, TRUE, TRUE)
        BY <3>3
      <4> HIDE DEF row
      <4>2. Marked(row) /\ LedgerRow(row) /\ row.given = amount
        BY <2>1, <4>1 DEF Row, LedgerRow, Goods, Marked
      <4>. QED
        BY <3>1, <4>2
    <3>. QED
      BY <3>2, <3>3
  <2>3. DOMAIN rows' = 1..1 /\ \A i \in 1..1 : Marked(rows'[i]) /\ LedgerRow(rows'[i]) /\ rows'[i].given = amount
    BY <2>2
  <2>4. rows = <<>> /\ UNCHANGED op /\ handed' = amount
    BY <1>2 DEF BookSpecial
  <2>5. GivenFor(rows') = amount
    <3> DEFINE dom == 1..1
               f == [i \in dom |-> rows'[i].given]
    <3>1. IsFiniteSet(dom) /\ 1 \in dom /\ f[1] = amount
      <4>1. IsFiniteSet(dom)
        <5>1. dom = {1}
          OBVIOUS
        <5>2. IsFiniteSet({1})
          BY FS_Singleton
        <5> HIDE DEF dom
        <5>. QED
          BY <5>1, <5>2
      <4>. QED
        BY <2>3, <4>1
    <3>2. f[1] \in Int /\ \A y \in dom \ {1} : f[y] = 0
      BY <2>1, <3>1
    <3>3. GivenFor(rows') = SumFunctionOnSet(f, dom)
      BY <2>3 DEF GivenFor
    <3> HIDE DEF f, dom
    <3>4. SumFunctionOnSet(f, dom) = f[1]
      BY <3>1, <3>2, SumOfOne
    <3>. QED
      BY <3>1, <3>3, <3>4
  <2>. QED
    BY <2>3, <2>4, <2>5, LedgerStarts
<1>. QED
  BY <1>1, <1>2 DEF Booking

-----------------------------------------------------------------------------
(* The ledger after a commit.                                               *)

LEMMA LedgerCancelled ==
  ASSUME NEW row, Marked(row), LedgerRow(row)
  PROVE  LedgerRow(Cancelled(row)) /\ Cancelled(row).given = row.given
BY DEF LedgerRow, Cancelled, Goods, Marked

LEMMA LedgerDelivered ==
  ASSUME NEW row, Marked(row), LedgerRow(row), NEW next
  PROVE  LedgerRow(Delivered(row, next)) /\ Delivered(row, next).given = row.given
BY DEF LedgerRow, Delivered, Goods, Marked

LEMMA LedgerPaid ==
  ASSUME NEW row, Marked(row), LedgerRow(row)
  PROVE  LedgerRow(Paid(row, row.due)) /\ Paid(row, row.due).given = row.due
BY DEF LedgerRow, Paid, Goods, Marked

\* Requests that have seen all positions go on to have, as long as there are the same.
LEMMA StillSeen ==
  ASSUME Ledger, Positions' = Positions, DOMAIN op = Requests, NEW r \in Requests,
         op' = [op EXCEPT ![r] = NoOp]
  PROVE  \A s \in Requests : Seen(op[s])'
<1>1. \A s \in Requests : op'[s] = op[s] \/ op'[s] = NoOp
  OBVIOUS
<1>2. \A s \in Requests : Seen(op[s])
  BY DEF Ledger
<1>3. ASSUME NEW q, Seen(q) PROVE Seen(q)'
  BY <1>3 DEF Seen
<1>4. Seen(NoOp)'
  BY DEF Seen, NoOp
<1>. QED
  BY <1>1, <1>2, <1>3, <1>4

LEMMA CommitLedger ==
  ASSUME SnapshotIsolation, Inductive, Ledger, NEW r \in Requests, Commit(r)
  PROVE  Ledger'
<1> DEFINE q == op[r]
<1>1. /\ q.kind \in {"cancel", "deliver", "pay"}
      /\ rows' = [i \in Positions |-> IF i \in Written(q) THEN Updated(q, i) ELSE rows[i]]
      /\ \A i \in Written(q) : rows[i] = q.snapshot[i]
      /\ handed' = IF q.kind = "pay"
                   THEN SumFunctionOnSet([i \in Positions |-> q.snapshot[i].due], SettledBy(q))
                   ELSE handed
      /\ op' = [op EXCEPT ![r] = NoOp]
      /\ Remembered(q) /\ Seen(q)
  BY DEF Commit, Inductive, Remembered, Ledger
<1>2. \A i \in Positions : Marked(rows[i]) /\ LedgerRow(rows[i])
  BY DEF Inductive, Ledger
<1>3. Positions' = Positions /\ DOMAIN op = Requests
  BY <1>1 DEF Positions, Inductive
<1>4. ASSUME NEW i \in Positions, i \in Written(q)
      PROVE  /\ LedgerRow(Updated(q, i))
             /\ q.kind # "pay" => Updated(q, i).given = rows[i].given
             /\ q.kind = "pay" => Updated(q, i).given = q.snapshot[i].due
             /\ q.kind = "cancel" => Updated(q, i).cancelled
             /\ q.kind # "cancel" => Updated(q, i).cancelled = rows[i].cancelled
             /\ q.kind # "pay" => Updated(q, i).paid = rows[i].paid
  <2>1. CASE q.kind = "cancel"
    BY <1>2, <2>1, LedgerCancelled, RowCancelled DEF Updated
  <2>2. CASE q.kind = "deliver"
    BY <1>2, <2>2, LedgerDelivered, RowDelivered DEF Updated
  <2>3. CASE q.kind = "pay"
    <3>1. Updated(q, i) = Paid(rows[i], rows[i].due) /\ rows[i].due = q.snapshot[i].due
      BY <1>1, <1>4, <2>3 DEF Updated
    <3>. QED
      BY <1>2, <2>3, <3>1, LedgerPaid, RowPaid
  <2>. QED
    BY <1>1, <2>1, <2>2, <2>3
<1>5. \A i \in Positions : LedgerRow(rows'[i])
  BY <1>1, <1>2, <1>4
<1>6. GivenFor(rows') = handed'
      \/ Active(rows') # Positions \/ Outstanding(rows') # {} \/ rows' = <<>>
  <2>. SUFFICES ASSUME Active(rows') = Positions, Outstanding(rows') = {}, rows' # <<>>
                PROVE  GivenFor(rows') = handed'
    OBVIOUS
  <2> DEFINE f == [i \in Positions |-> rows[i].given]
             g == [i \in Positions |-> rows'[i].given]
  <2>1. IsFiniteSet(Positions)
    BY PositionsFinite
  <2>2. /\ GivenFor(rows') = SumFunctionOnSet(g, Positions)
        /\ GivenFor(rows) = SumFunctionOnSet(f, Positions)
    BY <1>3 DEF GivenFor, Positions
  <2>3. CASE q.kind = "pay"
    <3> DEFINE d == [i \in Positions |-> q.snapshot[i].due]
    <3>1. Active(rows) = Positions
      <4>1. \A i \in Positions : rows'[i].cancelled = rows[i].cancelled
        BY <1>1, <1>4, <2>3
      <4>. QED
        BY <1>3, <4>1 DEF Active, Positions
    <3>2. PICK j : j \in Outstanding(q.snapshot)
      BY <1>1, <2>3 DEF Seen
    <3>3. j \in Positions /\ j \in Written(q) /\ ~rows[j].paid
      BY <1>1, <2>3, <3>2 DEF Written, SettledBy, Outstanding, Active, Seen
    <3>4. \A i \in Positions : ~rows[i].paid
      BY <3>1, <3>3 DEF Inductive, NeverHalfPaid, Marked
    <3>5. \A i \in Positions : i \in Outstanding(q.snapshot)
      BY <1>1, <2>3, <3>1, <3>4 DEF Remembered, Outstanding
    <3>6. SettledBy(q) = Positions /\ Written(q) = Positions
      <4>1. \A i \in Outstanding(q.snapshot) : i \in Positions
        BY <1>1, <2>3 DEF Outstanding, Active, Seen
      <4>2. Outstanding(q.snapshot) = Positions
        BY <3>5, <4>1
      <4>. QED
        BY <2>3, <4>2 DEF SettledBy, Written
    <3>7. \A i \in Positions : g[i] = d[i]
      BY <1>1, <1>4, <2>3, <3>6
    <3>8. handed' = SumFunctionOnSet(d, Positions)
      BY <1>1, <2>3, <3>6
    <3> HIDE DEF g, d
    <3>. QED
      BY <2>1, <2>2, <3>7, <3>8, SumSame
  <2>4. CASE q.kind # "pay"
    <3>1. \A i \in Positions : g[i] = f[i] /\ rows'[i].paid = rows[i].paid
      BY <1>1, <1>4, <2>4
    <3>2. \A i \in Positions : ~rows[i].cancelled
      <4>1. CASE q.kind = "cancel"
        <5>0. \A i \in Positions : ~rows'[i].cancelled
          BY DEF Active
        <5>1. ASSUME NEW i \in Positions PROVE i \notin Written(q)
          <6>1. CASE i \in Written(q)
            <7>1. rows'[i] = Updated(q, i) /\ Updated(q, i).cancelled
              BY <1>1, <1>4, <4>1, <6>1
            <7>. QED
              BY <5>0, <7>1
          <6>. QED
            BY <6>1
        <5>2. \A i \in Positions : rows'[i] = rows[i]
          BY <1>1, <5>1
        <5>. QED
          BY <5>0, <5>2
      <4>2. CASE q.kind = "deliver"
        <5>1. \A i \in Positions : rows'[i].cancelled = rows[i].cancelled
          BY <1>1, <1>4, <4>2
        <5>. QED
          BY <1>3, <5>1 DEF Active
      <4>. QED
        BY <1>1, <2>4, <4>1, <4>2
    <3>3. Active(rows) = Positions /\ Outstanding(rows) = {}
      <4>1. Active(rows) = Positions
        BY <3>2 DEF Active, Positions
      <4>2. \A i \in Positions : rows'[i].paid
        BY <1>3 DEF Outstanding
      <4>. QED
        BY <3>1, <4>1, <4>2 DEF Outstanding
    <3>4. rows # <<>>
      BY <1>1 DEF Remembered, Positions
    <3>5. GivenFor(rows) = handed
      BY <3>3, <3>4, AddUpSays DEF Ledger
    <3>6. SumFunctionOnSet(g, Positions) = SumFunctionOnSet(f, Positions)
      <4> HIDE DEF f, g
      <4>. QED
        BY <2>1, <3>1, SumSame
    <3>. QED
      BY <1>1, <2>2, <2>4, <3>5, <3>6
  <2>. QED
    BY <2>3, <2>4
<1>7. PositionsAddUp'
  BY <1>3, <1>6 DEF PositionsAddUp, TotalOf, GivenFor, Positions
<1>8. \A s \in Requests : Seen(op[s])'
  BY <1>1, <1>3, StillSeen
<1>. QED
  BY <1>3, <1>5, <1>7, <1>8 DEF Ledger

LEMMA ReadingLedger ==
  ASSUME Inductive, Ledger, NEW r \in Requests, Reading(r)
  PROVE  Ledger'
<1>1. ASSUME NEW kind, NEW i, NEW arg, Read(r, kind, i, arg), kind = "pay" => Outstanding(rows) # {}
      PROVE  Ledger'
  <2> DEFINE q == [kind |-> kind, position |-> i, snapshot |-> rows, arg |-> arg]
  <2>1. UNCHANGED <<rows, handed>> /\ op' = [op EXCEPT ![r] = q]
    BY <1>1 DEF Read
  <2>2. Seen(q)
    BY <1>1 DEF Seen, Positions
  <2> HIDE DEF q
  <2>3. \A s \in Requests : Seen(op'[s])
    BY <2>1, <2>2 DEF Ledger, Inductive
  <2>4. \A s \in Requests : Seen(op[s])'
    BY <2>1, <2>3 DEF Seen, Positions
  <2>. QED
    BY <2>1, <2>4 DEF Ledger, PositionsAddUp, TotalOf, Positions
<1>2. ASSUME NEW i, NEW scope, ReadCancel(r, i, scope) PROVE Ledger'
  BY <1>1, <1>2 DEF ReadCancel
<1>3. ASSUME NEW i, NEW next, ReadDelivery(r, i, next) PROVE Ledger'
  BY <1>1, <1>3 DEF ReadDelivery
<1>4. ASSUME NEW i, ReadPaid(r, i) PROVE Ledger'
  BY <1>1, <1>4 DEF ReadPaid
<1>. QED
  BY <1>2, <1>3, <1>4 DEF Reading

LEMMA AbortLedger ==
  ASSUME Inductive, Ledger, NEW r \in Requests, Abort(r)
  PROVE  Ledger'
<1>1. UNCHANGED <<rows, handed>> /\ op' = [op EXCEPT ![r] = NoOp] /\ Positions' = Positions
  BY DEF Abort, Positions
<1>2. \A s \in Requests : Seen(op[s])'
  BY <1>1, StillSeen DEF Inductive
<1>. QED
  BY <1>1, <1>2 DEF Ledger, PositionsAddUp, TotalOf, Positions

-----------------------------------------------------------------------------
(* The ledger after a change of the shipping cost.                          *)

LEMMA LeastNumber ==
  ASSUME NEW T, T \subseteq Nat, T # {}
  PROVE  \E x \in T : \A y \in T : x <= y
<1>1. \E x \in T : \A y \in T : ~ (<<y, x>> \in OpToRel(<, Nat))
  BY NatLessThanWellFounded, WFMin
<1>2. PICK x \in T : \A y \in T : ~ (<<y, x>> \in OpToRel(<, Nat))
  BY <1>1
<1>3. ASSUME NEW y \in T PROVE x <= y
  <2>1. x \in Nat /\ y \in Nat /\ ~ (y < x)
    BY <1>2 DEF OpToRel
  <2>. QED
    BY <2>1
<1>. QED
  BY <1>3

\* All positions in order of id are the positions.
LEMMA InOrderOfAll ==
  ASSUME NEW n \in Nat, NEW s \in InOrder(1..n)
  PROVE  DOMAIN s = 1..n /\ \A k \in 1..n : s[k] = k
<1>1. Cardinality(1..n) = n
  <2>1. Cardinality(1..n) = IF 1 > n THEN 0 ELSE n - 1 + 1
    BY FS_Interval
  <2>. QED
    BY <2>1
<1>2. /\ s \in [1..n -> 1..n] /\ Range(s) = 1..n
      /\ \A j, k \in 1..n : j < k => s[j] < s[k]
  BY <1>1 DEF InOrder
<1>3. SUFFICES ASSUME NEW k \in 1..n, s[k] # k PROVE FALSE
  BY <1>2
<1> DEFINE T == {j \in 1..n : s[j] # j}
<1>4. PICK m \in T : \A j \in T : m <= j
  <2>1. T \subseteq Nat /\ T # {}
    BY <1>3
  <2> HIDE DEF T
  <2>. QED
    BY <2>1, LeastNumber
<1>5. m \in 1..n /\ s[m] # m /\ \A j \in 1..n : j < m => s[j] = j
  BY <1>4
<1>6. s[m] >= m
  <2>1. CASE m = 1
    BY <1>2, <1>5, <2>1
  <2>2. CASE m # 1
    <3>1. m - 1 \in 1..n /\ m - 1 < m
      BY <1>5, <2>2
    <3>2. s[m - 1] = m - 1 /\ s[m - 1] < s[m]
      BY <1>2, <1>5, <3>1
    <3>. QED
      BY <1>2, <1>5, <3>2
  <2>. QED
    BY <2>1, <2>2
<1>7. PICK j \in 1..n : s[j] = m
  BY <1>2, <1>5 DEF Range
<1>8. CASE j < m
  BY <1>5, <1>7, <1>8
<1>9. CASE j = m
  BY <1>5, <1>7, <1>9
<1>10. CASE j > m
  <2>1. s[m] < s[j]
    BY <1>2, <1>5, <1>10
  <2>. QED
    BY <1>2, <1>5, <1>6, <1>7, <2>1
<1>. QED
  BY <1>5, <1>7, <1>8, <1>9, <1>10

LEMMA Repricing ==
  ASSUME Inductive, Ledger, NEW cost \in Nat, NEW active \in InOrder(Active(rows)), Active(rows) # {},
         \A i, j \in Active(rows) : rows[i].paid = rows[j].paid
  PROVE  /\ DOMAIN Repriced(active, cost) = DOMAIN active
         /\ \A k \in DOMAIN active : LedgerRow(Repriced(active, cost)[k])
         /\ rows[active[1]].paid =>
              GivenFor(Repriced(active, cost)) = GivenFor([k \in DOMAIN active |-> rows[active[k]]])
<1> DEFINE row(j)    == rows[active[j]]
           paid      == row(1).paid
           goods     == [j \in DOMAIN active |-> Goods(row(j))]
           collected == SumOf([j \in DOMAIN active |-> row(j).given])
           total     == RepricedTotal(cost, goods, SumOf([j \in DOMAIN active |-> row(j).shipping]))
           shipping  == Distribute(cost, goods)
           discount  == Distribute(IF paid THEN Discount(total, collected) ELSE 0, goods)
           donation  == Distribute(IF paid THEN Donation(total, collected) ELSE 0, goods)
           due(j)    == goods[j] + shipping[j]
           given(j)  == IF paid THEN due(j) - discount[j] + donation[j] ELSE 0
<1>1. Repriced(active, cost) =
        [j \in DOMAIN active |->
           [row(j) EXCEPT
              !.shipping = shipping[j], !.due = due(j), !.discount = discount[j],
              !.donation = donation[j],
              !.given = IF paid THEN due(j) - discount[j] + donation[j] ELSE 0]]
  BY DEF Repriced
<1>2. /\ DOMAIN active = 1..Cardinality(Active(rows)) /\ IsFiniteSet(Active(rows))
      /\ Cardinality(Active(rows)) \in Nat \ {0}
      /\ \A j \in DOMAIN active : active[j] \in Active(rows) /\ active[j] \in Positions
  <2>1. IsFiniteSet(Active(rows))
    BY PositionsFinite, FS_Subset DEF Active, Positions
  <2>2. Cardinality(Active(rows)) \in Nat \ {0}
    BY <2>1, FS_CardinalityType, FS_EmptySet
  <2>. QED
    BY <2>1, <2>2 DEF InOrder, Active, Positions
<1>3. \A j \in DOMAIN active : Marked(row(j)) /\ LedgerRow(row(j)) /\ row(j).paid = paid
  BY <1>2 DEF Inductive, Ledger
<1>4. goods \in Seq(Nat) /\ goods # <<>> /\ DOMAIN goods = DOMAIN active
  <2>1. \A j \in DOMAIN active : goods[j] \in Nat
    BY <1>3 DEF LedgerRow
  <2>2. goods \in [1..Cardinality(Active(rows)) -> Nat] /\ DOMAIN goods # {}
    <3> HIDE DEF row
    <3>. QED
      BY <1>2, <2>1
  <2> HIDE DEF goods
  <2>3. goods \in Seq(Nat)
    BY <1>2, <2>2
  <2>. QED
    BY <1>2, <2>2, <2>3
<1>5. total \in Int /\ collected \in Int
  <2>1. IsFiniteSet(DOMAIN active)
    BY <1>2, FS_Interval
  <2>2. SumOf(goods) \in Int
    <3> HIDE DEF goods
    <3>1. \A j \in DOMAIN goods : goods[j] \in Int
      BY <1>4
    <3>2. SumFunctionOnSet(goods, DOMAIN goods) \in Int
      BY <1>4, <2>1, <3>1, SumInt
    <3>. QED
      BY <3>2 DEF SumOf
  <2>3. collected \in Int
    <3> DEFINE f == [j \in DOMAIN active |-> row(j).given]
    <3>1. DOMAIN f = DOMAIN active /\ \A j \in DOMAIN active : f[j] \in Int
      BY <1>3 DEF LedgerRow
    <3> HIDE DEF f
    <3>2. SumFunctionOnSet(f, DOMAIN active) \in Int
      BY <2>1, <3>1, SumInt
    <3>. QED
      BY <3>1, <3>2 DEF SumOf, f
  <2> HIDE DEF goods, collected
  <2>. QED
    BY <2>2, <2>3 DEF RepricedTotal
<1>6. ASSUME NEW k \in DOMAIN active
      PROVE  LedgerRow(Repriced(active, cost)[k]) /\ Repriced(active, cost)[k].given = given(k)
  <2>1. Repriced(active, cost)[k] =
          [rows[active[k]] EXCEPT
             !.shipping = shipping[k], !.due = due(k), !.discount = discount[k],
             !.donation = donation[k], !.given = given(k)]
    <3> HIDE DEF collected, total, shipping, discount, donation, goods
    <3>. QED
      BY <1>1
  <2>2. /\ goods[k] \in Nat /\ shipping[k] \in Nat /\ discount[k] \in Nat /\ donation[k] \in Nat
        /\ ~paid => discount[k] = 0 /\ donation[k] = 0
    <3> HIDE DEF goods, collected, total, paid
    <3>1. goods[k] \in Nat /\ shipping[k] \in Nat
      BY <1>4, SharesTyped
    <3>2. CASE paid
      <4>1. discount = Distribute(Discount(total, collected), goods) /\ donation = Distribute(Donation(total, collected), goods)
        BY <3>2
      <4>2. Discount(total, collected) \in Nat /\ Donation(total, collected) \in Nat
        BY <1>5, Settlement
      <4> HIDE DEF discount, donation, shipping
      <4>3. discount[k] \in Nat /\ donation[k] \in Nat
        BY <1>4, <4>1, <4>2, SharesTyped
      <4>. QED
        BY <3>1, <3>2, <4>3
    <3>3. CASE ~paid
      <4>1. discount = Distribute(0, goods) /\ donation = Distribute(0, goods)
        BY <3>3
      <4> HIDE DEF discount, donation, shipping
      <4>2. discount[k] = 0 /\ donation[k] = 0
        BY <1>4, <4>1, DistributeNothing
      <4>. QED
        BY <3>1, <4>2
    <3>. QED
      BY <3>2, <3>3
  <2>3. paid \in BOOLEAN /\ Marked(rows[active[k]]) /\ LedgerRow(rows[active[k]]) /\ rows[active[k]].paid = paid
    BY <1>3 DEF Marked
  <2> DEFINE new == Repriced(active, cost)[k]
  <2>4. /\ new.due = due(k) /\ new.shipping = shipping[k] /\ new.discount = discount[k]
        /\ new.donation = donation[k] /\ new.given = given(k) /\ new.paid = paid
        /\ {"due", "shipping", "discount", "donation", "given"} \subseteq DOMAIN new
    <3> HIDE DEF shipping, discount, donation, goods, due, given, paid
    <3>. QED
      BY <2>1, <2>3 DEF LedgerRow, Marked
  <2>5. due(k) \in Int /\ given(k) \in Int /\ due(k) - shipping[k] \in Nat
    <3> HIDE DEF shipping, discount, donation, goods, paid
    <3>1. due(k) \in Int /\ due(k) - shipping[k] = goods[k]
      BY <2>2
    <3> HIDE DEF due
    <3>2. due(k) - discount[k] + donation[k] \in Int
      BY <2>2, <3>1
    <3>. QED
      BY <2>2, <3>1, <3>2
  <2>6. paid => given(k) = due(k) - discount[k] + donation[k]
    OBVIOUS
  <2> HIDE DEF shipping, discount, donation, goods, paid, due, given, new
  <2>7. LedgerRow(new)
    BY <2>2, <2>4, <2>5, <2>6 DEF LedgerRow, Goods
  <2>. QED
    BY <2>4, <2>7 DEF new, given, due, paid, discount, shipping, donation, goods
<1>7. DOMAIN Repriced(active, cost) = DOMAIN active
  BY <1>1
<1>8. ASSUME paid
      PROVE  GivenFor(Repriced(active, cost)) = GivenFor([k \in DOMAIN active |-> rows[active[k]]])
  <2> DEFINE dom == DOMAIN active
             f   == [k \in dom |-> Repriced(active, cost)[k].given]
             old == [k \in dom |-> rows[active[k]]]
  <2>1. \A k \in dom : f[k] = (goods[k] + shipping[k]) - discount[k] + donation[k]
    <3>1. \A k \in dom : f[k] = given(k)
      BY <1>6
    <3> HIDE DEF f, shipping, discount, donation, goods
    <3>. QED
      BY <1>8, <3>1
  <2>2. /\ discount = Distribute(Discount(SumOf(goods) + cost, collected), goods)
        /\ donation = Distribute(Donation(SumOf(goods) + cost, collected), goods)
    BY <1>8 DEF RepricedTotal
  <2>3. Priced(goods, cost, collected, shipping, discount, donation, f)
    <3> HIDE DEF f, discount, donation, goods, collected
    <3>. QED
      BY <1>4, <1>5, <2>1, <2>2 DEF Priced
  <2>4. SumFunctionOnSet(f, dom) = collected
    <3> HIDE DEF f, discount, donation, goods, collected, shipping
    <3>. QED
      BY <1>4, <2>3, AmountsAddUp
  <2>5. GivenFor(Repriced(active, cost)) = SumFunctionOnSet(f, dom)
    BY <1>7 DEF GivenFor
  <2>6. collected = GivenFor(old)
    <3>1. DOMAIN old = dom /\ [k \in dom |-> row(k).given] = [k \in DOMAIN old |-> old[k].given]
      OBVIOUS
    <3> HIDE DEF old, row
    <3>2. SumOf([k \in dom |-> row(k).given]) = SumFunctionOnSet([k \in dom |-> row(k).given], dom)
      BY DEF SumOf
    <3>. QED
      BY <3>1, <3>2 DEF GivenFor
  <2> HIDE DEF f, collected
  <2>. QED
    BY <2>4, <2>5, <2>6
<1>. QED
  BY <1>6, <1>7, <1>8

LEMMA ShippingLedger ==
  ASSUME LifecycleAssumption, Inductive, Ledger, NEW cost \in Costs, UpdateShippingCost(cost)
  PROVE  Ledger'
<1>1. PICK active \in InOrder(Active(rows)) :
        rows' = [i \in Positions |->
                   IF i \in Active(rows)
                   THEN Repriced(active, cost)[CHOOSE k \in DOMAIN active : active[k] = i]
                   ELSE rows[i]]
  BY DEF UpdateShippingCost
<1>2. /\ cost \in Nat /\ Active(rows) # {} /\ UNCHANGED <<handed, op>>
      /\ \A i, j \in Active(rows) : rows[i].paid = rows[j].paid
  BY DEF LifecycleAssumption, UpdateShippingCost
<1>3. /\ DOMAIN Repriced(active, cost) = DOMAIN active
      /\ \A k \in DOMAIN active : LedgerRow(Repriced(active, cost)[k])
      /\ rows[active[1]].paid =>
           GivenFor(Repriced(active, cost)) = GivenFor([k \in DOMAIN active |-> rows[active[k]]])
  BY <1>2, Repricing
<1>4. Positions' = Positions
  BY <1>1 DEF Positions
<1>5. ASSUME NEW i \in Active(rows)
      PROVE  \E k \in DOMAIN active : active[k] = i /\ rows'[i] = Repriced(active, cost)[k]
  <2> DEFINE k == CHOOSE n \in DOMAIN active : active[n] = i
  <2>1. k \in DOMAIN active /\ active[k] = i
    <3>1. \E n \in DOMAIN active : active[n] = i
      BY DEF InOrder, Range
    <3>. QED
      BY <3>1
  <2>2. rows'[i] = Repriced(active, cost)[k]
    BY <1>1 DEF Active, Positions
  <2> HIDE DEF k
  <2>. QED
    BY <2>1, <2>2
<1>6. ASSUME NEW i \in Positions
      PROVE  /\ LedgerRow(rows'[i])
             /\ rows'[i].cancelled = rows[i].cancelled /\ rows'[i].paid = rows[i].paid
  <2>1. CASE i \in Active(rows)
    <3>1. PICK k \in DOMAIN active : active[k] = i /\ rows'[i] = Repriced(active, cost)[k]
      BY <1>5, <2>1
    <3>2. Marked(rows[active[k]])
      BY <3>1 DEF Inductive
    <3>. QED
      BY <1>3, <3>1, <3>2, RowsRepriced
  <2>2. CASE i \notin Active(rows)
    BY <1>1, <2>2 DEF Ledger
  <2>. QED
    BY <2>1, <2>2
<1>7. \A r \in Requests : Seen(op[r])'
  BY <1>2, <1>4 DEF Ledger, Seen
<1>8. ASSUME Active(rows') = Positions, Outstanding(rows') = {}, rows' # <<>>
      PROVE  GivenFor(rows') = handed'
  <2>1. Active(rows) = Positions /\ \A i \in Positions : rows[i].paid
    <3>1. \A i \in Positions : ~rows[i].cancelled
      BY <1>6, <1>8 DEF Active
    <3>2. \A i \in Positions : rows'[i].paid
      BY <1>8 DEF Outstanding
    <3>. QED
      BY <1>6, <3>1, <3>2 DEF Active, Positions
  <2>2. PICK n \in Nat : Positions = 1..n
    BY DEF Ledger
  <2>3. DOMAIN active = Positions /\ \A k \in Positions : active[k] = k
    BY <2>1, <2>2, InOrderOfAll
  <2>4. 1 \in Positions
    BY <1>2, <2>1, <2>2
  <2>5. GivenFor(rows') = GivenFor(Repriced(active, cost))
    <3> DEFINE f == [i \in Positions |-> rows'[i].given]
               g == [i \in Positions |-> Repriced(active, cost)[i].given]
    <3>1. \A i \in Positions : f[i] = g[i]
      <4>. SUFFICES ASSUME NEW i \in Positions PROVE rows'[i] = Repriced(active, cost)[i]
        OBVIOUS
      <4>1. PICK k \in DOMAIN active : active[k] = i /\ rows'[i] = Repriced(active, cost)[k]
        BY <1>5, <2>1
      <4>. QED
        BY <2>3, <4>1
    <3>2. GivenFor(rows') = SumFunctionOnSet(f, Positions)
      BY <1>4 DEF GivenFor, Positions
    <3>3. GivenFor(Repriced(active, cost)) = SumFunctionOnSet(g, Positions)
      BY <1>3, <2>3 DEF GivenFor
    <3> HIDE DEF f, g
    <3>. QED
      BY <3>1, <3>2, <3>3, PositionsFinite, SumSame
  <2>6. GivenFor([k \in DOMAIN active |-> rows[active[k]]]) = GivenFor(rows)
    <3> DEFINE old == [k \in DOMAIN active |-> rows[active[k]]]
               f == [i \in Positions |-> old[i].given]
               g == [i \in Positions |-> rows[i].given]
    <3>1. \A i \in Positions : f[i] = g[i]
      BY <2>3
    <3>2. GivenFor(old) = SumFunctionOnSet(f, Positions)
      BY <2>3 DEF GivenFor
    <3>3. GivenFor(rows) = SumFunctionOnSet(g, Positions)
      BY DEF GivenFor, Positions
    <3> HIDE DEF f, g
    <3>. QED
      BY <3>1, <3>2, <3>3, PositionsFinite, SumSame
  <2>7. GivenFor(rows) = handed
    <3>1. rows # <<>> /\ Outstanding(rows) = {}
      BY <2>1, <2>4 DEF Outstanding, Positions
    <3>. QED
      BY <2>1, <3>1, AddUpSays DEF Ledger
  <2>8. rows[active[1]].paid
    BY <2>1, <2>3, <2>4
  <2>. QED
    BY <1>2, <1>3, <2>5, <2>6, <2>7, <2>8
<1>9. PositionsAddUp'
  BY <1>4, <1>8 DEF PositionsAddUp, TotalOf, GivenFor, Positions
<1>. QED
  BY <1>4, <1>6, <1>7, <1>9 DEF Ledger

LEMMA LedgerInit == Init => Ledger
<1>. SUFFICES ASSUME Init PROVE Ledger
  OBVIOUS
<1>1. Positions = 1..0
  BY DEF Init, Positions
<1>2. \A r \in Requests : Seen(op[r])
  BY DEF Init, Seen, NoOp
<1>. QED
  BY <1>1, <1>2 DEF Ledger, PositionsAddUp, Init

LEMMA LedgerNext == LifecycleAssumption /\ SnapshotIsolation /\ Inductive /\ Ledger /\ [Next]_vars => Ledger'
<1>. SUFFICES ASSUME LifecycleAssumption, SnapshotIsolation, Inductive, Ledger, [Next]_vars PROVE Ledger'
  OBVIOUS
<1>1. CASE UNCHANGED vars
  BY <1>1 DEF vars, Ledger, Seen, PositionsAddUp, TotalOf, Positions
<1>. QED
  BY <1>1, BookingLedger, ReadingLedger, CommitLedger, AbortLedger, ShippingLedger DEF Next

LEMMA LedgerInvariant == ASSUME SnapshotIsolation PROVE Spec => []Ledger
<1>1. LifecycleAssumption
  BY LifecycleAssumption
<1>2. SnapshotIsolation
  OBVIOUS
<1>3. Inductive /\ Ledger /\ [Next]_vars => Ledger'
  BY <1>1, <1>2, LedgerNext
<1>. QED
  BY <1>3, LedgerInit, Invariant, PTL DEF Spec

\* services/sales: what a position brought is what was due for it, less the discount
\* and plus the donation, whoever wrote the row last.
THEOREM EveryRowBalances == ASSUME SnapshotIsolation PROVE Spec => []RowsBalance
<1>1. Ledger => RowsBalance
  BY DEF Ledger, LedgerRow, RowsBalance
<1>. QED
  BY <1>1, LedgerInvariant, PTL

\* money.go, prepare.go and lifecycle.go: a paid receipt's positions add back up to
\* what the band received, to the cent, for every basket, cost and amount, however often
\* the cost changes.
THEOREM ReceiptAddsUp == ASSUME SnapshotIsolation PROVE Spec => []PositionsAddUp
<1>1. Ledger => PositionsAddUp
  BY DEF Ledger
<1>. QED
  BY <1>1, LedgerInvariant, PTL

-----------------------------------------------------------------------------
(* The reports: what a page adds up.                                        *)

LEMMA SumOver ==
  ASSUME NEW f, NEW g, NEW S, IsFiniteSet(S), DOMAIN g = S, \A x \in S : g[x] = f[x]
  PROVE  SumOf(g) = SumFunctionOnSet(f, S)
BY SumSame DEF SumOf

LEMMA SumPositive ==
  ASSUME NEW f, NEW S, IsFiniteSet(S), \A x \in S : f[x] \in Nat \ {0}, NEW x \in S
  PROVE  SumFunctionOnSet(f, S) > 0
<1>1. IsFiniteSet(S \ {x}) /\ \A y \in S : f[y] \in Int
  BY FS_Subset
<1>2. SumFunctionOnSet(f, S) = f[x] + SumFunctionOnSet(f, S \ {x})
  BY <1>1, SumWithout
<1>3. SumFunctionOnSet(f, S \ {x}) \in Nat
  BY <1>1, SumNat
<1>. QED
  BY <1>2, <1>3

LEMMA ImageFinite ==
  ASSUME NEW key, NEW S, IsFiniteSet(S)
  PROVE  IsFiniteSet({key[x] : x \in S})
<1> DEFINE f == [x \in S |-> key[x]]
<1>1. f \in Surjection(S, {key[x] : x \in S})
  BY DEF Surjection
<1> HIDE DEF f
<1>. QED
  BY <1>1, FS_Surjection

\* The groups of a query come to all its rows.
GroupedBy(f, S, key, part) ==
  /\ IsFiniteSet(S) /\ \A x \in S : f[x] \in Int
  /\ DOMAIN part = {key[x] : x \in S}
  /\ \A k \in DOMAIN part : part[k] = SumFunctionOnSet(f, Group(S, key, k))

LEMMA GroupsAddUp ==
  ASSUME NEW f, NEW S, NEW key, NEW part, GroupedBy(f, S, key, part)
  PROVE  SumOf(part) = SumFunctionOnSet(f, S)
<1>1. IsFiniteSet({key[x] : x \in S})
  BY ImageFinite DEF GroupedBy
<1>2. Grouped(f, S, key, DOMAIN part, part)
  BY <1>1 DEF GroupedBy, Grouped
<1>. QED
  BY <1>2, SumGroups DEF SumOf

-----------------------------------------------------------------------------
(* Books as they may be.                                                    *)

SaleRow ==
  [receipt : Nat, on : Nat, line : {"merchandise", "donation", "misc_income"},
   variant : Variants \cup {NoVariant}, quantity : Nat \ {0}, goods : Nat, due : Int,
   discount : Int, donation : Int, paid : BOOLEAN, ships : BOOLEAN, cancelled : BOOLEAN,
   event : {x.event : x \in Baskets \cup Specials}, method : {x.method : x \in Baskets \cup Specials}]

PurchaseRow ==
  [receipt : Nat, on : Nat, variant : Variants, quantity : Nat \ {0}, cost : Nat,
   shipping : Nat, holder : Holders, cancelled : BOOLEAN]

TransactionRow ==
  [type : {"income", "expense"}, amount : Nat, category : {t.category : t \in Transactions},
   holder : Holders, asset : BOOLEAN, on : Nat, settled : BOOLEAN, cancelled : BOOLEAN]

\* Donations and other income are paid when they are entered; what is not paid yet is
\* not given.
SoundSale(row) ==
  /\ row.line = "merchandise" <=> row.variant # NoVariant
  /\ row.line # "merchandise" => row.paid /\ row.discount = 0 /\ ~row.ships
  /\ row.line = "donation" => row.due = 0
  /\ row.line = "misc_income" => row.donation = 0
  /\ ~row.paid => row.donation = 0

Sound(b) ==
  /\ b.sales \in Seq(SaleRow) /\ \A i \in DOMAIN b.sales : SoundSale(b.sales[i])
  /\ b.purchases \in Seq(PurchaseRow)
  /\ \A i, j \in DOMAIN b.purchases :
       b.purchases[i].receipt = b.purchases[j].receipt =>
         /\ b.purchases[i].on = b.purchases[j].on
         /\ b.purchases[i].holder = b.purchases[j].holder
         /\ b.purchases[i].shipping = b.purchases[j].shipping
  /\ b.transactions \in Seq(TransactionRow)
  /\ DOMAIN b.active = Variants

\* A period as the reports see it.
Span == [from : Int \cup {Open}, to : Int \cup {Open}]

LEMMA RowsOfSeq ==
  ASSUME NEW S, NEW s \in Seq(S)
  PROVE  /\ IsFiniteSet(DOMAIN s) /\ \A i \in DOMAIN s : s[i] \in S
         /\ \A T \in SUBSET DOMAIN s : IsFiniteSet(T)
<1>1. IsFiniteSet(DOMAIN s)
  <2>1. DOMAIN s = 1..Len(s) /\ 1 \in Int /\ Len(s) \in Int
    OBVIOUS
  <2>. QED
    BY <2>1, FS_Interval
<1>. QED
  BY <1>1, FS_Subset

LEMMA LiveRows ==
  ASSUME NEW b, Sound(b), NEW p
  PROVE  /\ LiveIn(b.sales, p) \subseteq DOMAIN b.sales /\ IsFiniteSet(LiveIn(b.sales, p))
         /\ LiveIn(b.purchases, p) \subseteq DOMAIN b.purchases /\ IsFiniteSet(LiveIn(b.purchases, p))
         /\ LiveIn(b.transactions, p) \subseteq DOMAIN b.transactions /\ IsFiniteSet(LiveIn(b.transactions, p))
<1>1. /\ LiveIn(b.sales, p) \subseteq DOMAIN b.sales
      /\ LiveIn(b.purchases, p) \subseteq DOMAIN b.purchases
      /\ LiveIn(b.transactions, p) \subseteq DOMAIN b.transactions
  BY DEF LiveIn
<1>. QED
  BY <1>1, RowsOfSeq DEF Sound

-----------------------------------------------------------------------------
(* The columns of the sales.                                                *)

NetColumn(b) == [i \in DOMAIN b.sales |-> Net(b.sales[i])]
IncomeColumn(b) == [i \in DOMAIN b.sales |-> Income(b.sales[i])]
DonatedColumn(b) == [i \in DOMAIN b.sales |-> Donated(b.sales[i])]
CollectedColumn(b) == [i \in DOMAIN b.sales |-> Collected(b.sales[i])]
OwedColumn(b) == [i \in DOMAIN b.sales |-> IF b.sales[i].paid THEN 0 ELSE Net(b.sales[i])]
BookedColumn(b) == [i \in DOMAIN b.sales |-> Net(b.sales[i]) + b.sales[i].donation]

LEMMA SaleColumns ==
  ASSUME NEW b, Sound(b), NEW i \in DOMAIN b.sales
  PROVE  /\ NetColumn(b)[i] \in Int /\ IncomeColumn(b)[i] \in Int /\ DonatedColumn(b)[i] \in Int
         /\ CollectedColumn(b)[i] \in Int /\ OwedColumn(b)[i] \in Int /\ BookedColumn(b)[i] \in Int
         /\ CollectedColumn(b)[i] = IncomeColumn(b)[i] + DonatedColumn(b)[i]
         /\ NetColumn(b)[i] = IncomeColumn(b)[i] + OwedColumn(b)[i]
         /\ BookedColumn(b)[i] = CollectedColumn(b)[i] + OwedColumn(b)[i]
<1>1. b.sales[i] \in SaleRow /\ SoundSale(b.sales[i])
  BY RowsOfSeq DEF Sound
<1>2. b.sales[i].due \in Int /\ b.sales[i].discount \in Int /\ b.sales[i].donation \in Int /\ b.sales[i].paid \in BOOLEAN
  BY <1>1 DEF SaleRow
<1>3. ~b.sales[i].paid => b.sales[i].donation = 0
  BY <1>1 DEF SoundSale
<1>. QED
  BY <1>2, <1>3 DEF NetColumn, IncomeColumn, DonatedColumn, CollectedColumn, OwedColumn, BookedColumn, Net, Income, Donated, Collected

LEMMA SaleSums ==
  ASSUME NEW b, Sound(b), NEW ids, ids \subseteq DOMAIN b.sales
  PROVE  /\ NetOf(b, ids) = SumFunctionOnSet(NetColumn(b), ids)
         /\ DonatedOf(b, ids) = SumFunctionOnSet(DonatedColumn(b), ids)
         /\ CollectedOf(b, ids) = SumFunctionOnSet(CollectedColumn(b), ids)
         /\ SumFunctionOnSet(NetColumn(b), ids) \in Int
         /\ SumFunctionOnSet(DonatedColumn(b), ids) \in Int
         /\ SumFunctionOnSet(IncomeColumn(b), ids) \in Int
         /\ SumFunctionOnSet(OwedColumn(b), ids) \in Int
         /\ SumFunctionOnSet(CollectedColumn(b), ids) =
              SumFunctionOnSet(IncomeColumn(b), ids) + SumFunctionOnSet(DonatedColumn(b), ids)
         /\ SumFunctionOnSet(NetColumn(b), ids) =
              SumFunctionOnSet(IncomeColumn(b), ids) + SumFunctionOnSet(OwedColumn(b), ids)
         /\ SumFunctionOnSet(BookedColumn(b), ids) =
              SumFunctionOnSet(CollectedColumn(b), ids) + SumFunctionOnSet(OwedColumn(b), ids)
<1>1. IsFiniteSet(ids)
  BY RowsOfSeq DEF Sound
<1>2. \A i \in ids : NetColumn(b)[i] = Net(b.sales[i]) /\ DonatedColumn(b)[i] = Donated(b.sales[i])
                     /\ CollectedColumn(b)[i] = Collected(b.sales[i])
  BY DEF NetColumn, DonatedColumn, CollectedColumn
<1>3. NetOf(b, ids) = SumFunctionOnSet(NetColumn(b), ids)
  BY <1>1, <1>2, SumOver DEF NetOf
<1>4. DonatedOf(b, ids) = SumFunctionOnSet(DonatedColumn(b), ids)
  BY <1>1, <1>2, SumOver DEF DonatedOf
<1>5. CollectedOf(b, ids) = SumFunctionOnSet(CollectedColumn(b), ids)
  BY <1>1, <1>2, SumOver DEF CollectedOf
<1>6. /\ Adds(CollectedColumn(b), IncomeColumn(b), DonatedColumn(b), ids)
      /\ Adds(NetColumn(b), IncomeColumn(b), OwedColumn(b), ids)
      /\ Adds(BookedColumn(b), CollectedColumn(b), OwedColumn(b), ids)
  BY <1>1, SaleColumns DEF Adds
<1>7. \A i \in ids : NetColumn(b)[i] \in Int /\ DonatedColumn(b)[i] \in Int /\ IncomeColumn(b)[i] \in Int /\ OwedColumn(b)[i] \in Int
  BY SaleColumns
<1>8. /\ SumFunctionOnSet(NetColumn(b), ids) \in Int /\ SumFunctionOnSet(DonatedColumn(b), ids) \in Int
      /\ SumFunctionOnSet(IncomeColumn(b), ids) \in Int /\ SumFunctionOnSet(OwedColumn(b), ids) \in Int
  BY <1>1, <1>7, SumInt
<1>. QED
  BY <1>3, <1>4, <1>5, <1>6, <1>8, SumPlus

-----------------------------------------------------------------------------
(* The table of variants: what was used is listed.                          *)

Sellings(b, p) == {i \in LiveIn(b.sales, p) : b.sales[i].line = "merchandise"}
SpecialIncome(b, p) == {i \in LiveIn(b.sales, p) : b.sales[i].line # "merchandise"}

LEMMA UpToHolds ==
  ASSUME NEW p \in Span, NEW table
  PROVE  LiveIn(table, p) \subseteq LiveIn(table, UpTo(p))
BY DEF LiveIn, UpTo, Within, Span

LEMMA SoldIsListed ==
  ASSUME NEW b, Sound(b), NEW p \in Span, NEW i \in Sellings(b, p)
  PROVE  b.sales[i].variant \in Listed(b, p)
<1> DEFINE v == b.sales[i].variant
           S == {j \in LiveIn(b.sales, UpTo(p)) : b.sales[j].line = "merchandise" /\ b.sales[j].variant = v}
           f == [j \in S |-> b.sales[j].quantity]
<1>1. S \subseteq DOMAIN b.sales /\ IsFiniteSet(S)
  BY LiveRows, FS_Subset
<1>2. i \in S
  BY UpToHolds DEF Sellings
<1>3. \A j \in S : f[j] \in Nat \ {0}
  <2>. SUFFICES ASSUME NEW j \in S PROVE b.sales[j].quantity \in Nat \ {0}
    OBVIOUS
  <2>1. b.sales[j] \in SaleRow
    BY <1>1, RowsOfSeq DEF Sound
  <2>. QED
    BY <2>1 DEF SaleRow
<1>4. Sold(b, p, v) = SumFunctionOnSet(f, S)
  BY DEF Sold, SumOf
<1>5. v \in DOMAIN b.active
  <2>1. b.sales[i] \in SaleRow /\ SoundSale(b.sales[i]) /\ b.sales[i].line = "merchandise"
    BY <1>1, <1>2, RowsOfSeq DEF Sound
  <2>. QED
    BY <2>1 DEF SaleRow, SoundSale, Sound
<1> HIDE DEF S, f, v
<1>6. SumFunctionOnSet(f, S) > 0
  BY <1>1, <1>2, <1>3, SumPositive
<1>. QED
  BY <1>4, <1>5, <1>6 DEF Listed, v

LEMMA BoughtIsListed ==
  ASSUME NEW b, Sound(b), NEW p \in Span, NEW i \in LiveIn(b.purchases, p)
  PROVE  b.purchases[i].variant \in Listed(b, p)
<1> DEFINE v == b.purchases[i].variant
           S == {j \in LiveIn(b.purchases, UpTo(p)) : b.purchases[j].variant = v}
           f == [j \in S |-> b.purchases[j].quantity]
<1>1. S \subseteq DOMAIN b.purchases /\ IsFiniteSet(S)
  BY LiveRows, FS_Subset
<1>2. i \in S
  BY UpToHolds
<1>3. \A j \in S : f[j] \in Nat \ {0}
  <2>. SUFFICES ASSUME NEW j \in S PROVE b.purchases[j].quantity \in Nat \ {0}
    OBVIOUS
  <2>1. b.purchases[j] \in PurchaseRow
    BY <1>1, RowsOfSeq DEF Sound
  <2>. QED
    BY <2>1 DEF PurchaseRow
<1>4. Purchased(b, p, v) = SumFunctionOnSet(f, S)
  BY DEF Purchased, SumOf
<1>5. v \in DOMAIN b.active
  <2>1. b.purchases[i] \in PurchaseRow
    BY <1>1, <1>2, RowsOfSeq DEF Sound
  <2>. QED
    BY <2>1 DEF PurchaseRow, Sound
<1> HIDE DEF S, f, v
<1>6. SumFunctionOnSet(f, S) > 0
  BY <1>1, <1>2, <1>3, SumPositive
<1>. QED
  BY <1>4, <1>5, <1>6 DEF Listed, v

LEMMA ListedFinite ==
  ASSUME NEW b, Sound(b), NEW p
  PROVE  IsFiniteSet(Listed(b, p)) /\ Listed(b, p) \subseteq Variants
BY FS_Subset, BalancesAssumption DEF Listed, Sound, BalancesAssumption

\* What the variants come to, column by column.
LEMMA VariantsSellings ==
  ASSUME NEW b, Sound(b), NEW p \in Span, NEW f, \A i \in DOMAIN b.sales : f[i] \in Int,
         NEW part, DOMAIN part = Listed(b, p), \A v \in Listed(b, p) : part[v] = SumFunctionOnSet(f, SoldOf(b, p, v))
  PROVE  SumOf(part) = SumFunctionOnSet(f, Sellings(b, p))
<1> DEFINE S == Sellings(b, p)
           K == Listed(b, p)
           key == [i \in S |-> b.sales[i].variant]
<1>1. S \subseteq DOMAIN b.sales /\ IsFiniteSet(S)
  BY LiveRows, FS_Subset DEF Sellings
<1>2. \A i \in S : f[i] \in Int /\ key[i] \in K
  BY <1>1, SoldIsListed
<1>3. IsFiniteSet(K) /\ K \subseteq Variants
  BY ListedFinite
<1>4. ASSUME NEW v \in K PROVE SoldOf(b, p, v) = Group(S, key, v)
  <2>1. v # NoVariant
    BY <1>3, BalancesAssumption DEF BalancesAssumption
  <2>2. \A i \in LiveIn(b.sales, p) : b.sales[i].line = "merchandise" <=> b.sales[i].variant # NoVariant
    BY LiveRows DEF Sound, SoundSale
  <2>. QED
    BY <2>1, <2>2 DEF SoldOf, Group, Sellings
<1>5. Grouped(f, S, key, K, part)
  <2> HIDE DEF S, K, key
  <2>1. \A v \in K : part[v] = SumFunctionOnSet(f, Group(S, key, v))
    BY <1>4 DEF K
  <2>. QED
    BY <1>1, <1>2, <1>3, <2>1 DEF Grouped
<1>. QED
  BY <1>5, SumGroups DEF SumOf

LEMMA VariantsPurchases ==
  ASSUME NEW b, Sound(b), NEW p \in Span, NEW f, \A i \in DOMAIN b.purchases : f[i] \in Int,
         NEW part, DOMAIN part = Listed(b, p), \A v \in Listed(b, p) : part[v] = SumFunctionOnSet(f, BoughtOf(b, p, v))
  PROVE  SumOf(part) = SumFunctionOnSet(f, LiveIn(b.purchases, p))
<1> DEFINE S == LiveIn(b.purchases, p)
           K == Listed(b, p)
           key == [i \in S |-> b.purchases[i].variant]
<1>1. S \subseteq DOMAIN b.purchases /\ IsFiniteSet(S)
  BY LiveRows
<1>2. \A i \in S : f[i] \in Int /\ key[i] \in K
  BY <1>1, BoughtIsListed
<1>3. IsFiniteSet(K)
  BY ListedFinite
<1>4. ASSUME NEW v \in K PROVE BoughtOf(b, p, v) = Group(S, key, v)
  BY DEF BoughtOf, Group
<1>5. Grouped(f, S, key, K, part)
  <2> HIDE DEF S, K, key
  <2>1. \A v \in K : part[v] = SumFunctionOnSet(f, Group(S, key, v))
    BY <1>4 DEF K
  <2>. QED
    BY <1>1, <1>2, <1>3, <2>1 DEF Grouped
<1>. QED
  BY <1>5, SumGroups DEF SumOf

-----------------------------------------------------------------------------
(* The headline figures, by column.                                         *)

CostColumn(b) == [i \in DOMAIN b.purchases |-> b.purchases[i].cost]
AmountColumn(b) == [i \in DOMAIN b.transactions |-> b.transactions[i].amount]

LEMMA GoodsSums ==
  ASSUME NEW b, Sound(b), NEW ids, ids \subseteq DOMAIN b.purchases
  PROVE  /\ GoodsOf(b, ids) = SumFunctionOnSet(CostColumn(b), ids)
         /\ SumFunctionOnSet(CostColumn(b), ids) \in Int
<1>1. IsFiniteSet(ids)
  BY RowsOfSeq DEF Sound
<1>2. \A i \in DOMAIN b.purchases : b.purchases[i] \in PurchaseRow
  BY RowsOfSeq DEF Sound
<1>3. \A i \in ids : CostColumn(b)[i] = b.purchases[i].cost /\ CostColumn(b)[i] \in Int
  BY <1>2 DEF CostColumn, PurchaseRow
<1>. QED
  BY <1>1, <1>3, SumOver, SumInt DEF GoodsOf

LEMMA AmountSums ==
  ASSUME NEW b, Sound(b), NEW ids, ids \subseteq DOMAIN b.transactions
  PROVE  /\ AmountOf(b, ids) = SumFunctionOnSet(AmountColumn(b), ids)
         /\ SumFunctionOnSet(AmountColumn(b), ids) \in Int
<1>1. IsFiniteSet(ids)
  BY RowsOfSeq DEF Sound
<1>2. \A i \in DOMAIN b.transactions : b.transactions[i] \in TransactionRow
  BY RowsOfSeq DEF Sound
<1>3. \A i \in ids : AmountColumn(b)[i] = b.transactions[i].amount /\ AmountColumn(b)[i] \in Int
  BY <1>2 DEF AmountColumn, TransactionRow
<1>. QED
  BY <1>1, <1>3, SumOver, SumInt DEF AmountOf

ShippingTotal(b, ids) == SumOf([r \in ReceiptsOf(b, ids) |-> ShippingOf(b, ids, r)])

LEMMA SalesInTwo ==
  ASSUME NEW b, Sound(b), NEW p, NEW f, \A i \in DOMAIN b.sales : f[i] \in Int
  PROVE  /\ Sellings(b, p) \subseteq DOMAIN b.sales /\ SpecialIncome(b, p) \subseteq DOMAIN b.sales
         /\ SumFunctionOnSet(f, LiveIn(b.sales, p)) =
              SumFunctionOnSet(f, Sellings(b, p)) + SumFunctionOnSet(f, SpecialIncome(b, p))
         /\ SumFunctionOnSet(f, Sellings(b, p)) \in Int /\ SumFunctionOnSet(f, SpecialIncome(b, p)) \in Int
<1>1. /\ LiveIn(b.sales, p) \subseteq DOMAIN b.sales /\ IsFiniteSet(LiveIn(b.sales, p))
      /\ Sellings(b, p) \in SUBSET LiveIn(b.sales, p)
      /\ SpecialIncome(b, p) = LiveIn(b.sales, p) \ Sellings(b, p)
  BY LiveRows DEF Sellings, SpecialIncome
<1>2. IsFiniteSet(Sellings(b, p)) /\ IsFiniteSet(SpecialIncome(b, p))
  BY <1>1, FS_Subset
<1>3. \A i \in LiveIn(b.sales, p) : f[i] \in Int
  BY <1>1
<1>. QED
  BY <1>1, <1>2, <1>3, SumParts, SumInt

\* What is no merchandise: other income without a donation, donations without a price.
LEMMA SpecialSums ==
  ASSUME NEW b, Sound(b), NEW p
  PROVE  /\ SumOf([i \in SpecialIncome(b, p) |->
                     IF b.sales[i].line = "misc_income" /\ b.sales[i].paid THEN b.sales[i].due ELSE 0])
              = SumFunctionOnSet(IncomeColumn(b), SpecialIncome(b, p))
         /\ SumOf([i \in SpecialIncome(b, p) |-> IF b.sales[i].line = "donation" THEN Donated(b.sales[i]) ELSE 0])
              = SumFunctionOnSet(DonatedColumn(b), SpecialIncome(b, p))
         /\ SumFunctionOnSet(OwedColumn(b), SpecialIncome(b, p)) = 0
<1>1. SpecialIncome(b, p) \subseteq DOMAIN b.sales /\ IsFiniteSet(SpecialIncome(b, p))
  BY LiveRows, FS_Subset DEF SpecialIncome
<1>2. ASSUME NEW i \in SpecialIncome(b, p)
      PROVE  /\ (IF b.sales[i].line = "misc_income" /\ b.sales[i].paid THEN b.sales[i].due ELSE 0) = IncomeColumn(b)[i]
             /\ (IF b.sales[i].line = "donation" THEN Donated(b.sales[i]) ELSE 0) = DonatedColumn(b)[i]
             /\ OwedColumn(b)[i] = 0
  <2>1. b.sales[i] \in SaleRow /\ SoundSale(b.sales[i])
    BY <1>1, RowsOfSeq DEF Sound
  <2>2. b.sales[i].line \in {"donation", "misc_income"}
    BY <2>1 DEF SpecialIncome, SaleRow
  <2>3. b.sales[i].paid /\ b.sales[i].discount = 0 /\ b.sales[i].due \in Int /\ b.sales[i].donation \in Int
    BY <2>1, <2>2 DEF SoundSale, SaleRow
  <2>4. (b.sales[i].line = "donation" => b.sales[i].due = 0) /\ (b.sales[i].line = "misc_income" => b.sales[i].donation = 0)
    BY <2>1 DEF SoundSale
  <2>. QED
    BY <1>1, <2>2, <2>3, <2>4 DEF IncomeColumn, DonatedColumn, OwedColumn, Income, Net, Donated
<1>. QED
  BY <1>1, <1>2, SumOver, SumZero

LEMMA PageByColumn ==
  ASSUME NEW b, Sound(b), NEW p \in Span
  PROVE  LET live   == LiveIn(b.sales, p)
             bought == LiveIn(b.purchases, p)
             page   == Summary(b, p)
         IN  /\ page.collected = SumFunctionOnSet(CollectedColumn(b), live)
             /\ page.donation = SumFunctionOnSet(DonatedColumn(b), live)
             /\ page.misc = SumFunctionOnSet(IncomeColumn(b), SpecialIncome(b, p))
             /\ page.revenue = SumFunctionOnSet(NetColumn(b), live)
             /\ page.outstanding = SumFunctionOnSet(OwedColumn(b), live)
             /\ page.cost = SumFunctionOnSet(CostColumn(b), bought) + ShippingTotal(b, bought)
             /\ page.income = AmountOf(b, Settled(b, p, "income"))
             /\ page.expense = AmountOf(b, Settled(b, p, "expense"))
             /\ page.overall = (page.collected - page.cost) + (page.income - page.expense)
             /\ page.stock = SumOf([v \in Listed(b, p) |-> OnHandOf(b, p, v)])
<1> DEFINE live     == LiveIn(b.sales, p)
           bought   == LiveIn(b.purchases, p)
           listed   == Listed(b, p)
           special  == SpecialIncome(b, p)
           net      == [v \in listed |-> NetOf(b, SoldOf(b, p, v))]
           donated  == [v \in listed |-> DonatedOf(b, SoldOf(b, p, v))]
           received == [v \in listed |-> CollectedOf(b, SoldOf(b, p, v))]
           goods    == [v \in listed |-> GoodsOf(b, BoughtOf(b, p, v))]
           page     == Summary(b, p)
<1>1. /\ page.collected = SumOf(received) + CollectedOf(b, special)
      /\ page.cost = SumOf(goods) + ShippingTotal(b, bought)
      /\ page.overall = (page.collected - page.cost) + (page.income - page.expense)
  BY DEF Summary, ShippingTotal, SpecialIncome
<1>2. /\ page.donation = SumOf(donated)
           + SumOf([i \in special |-> IF b.sales[i].line = "donation" THEN Donated(b.sales[i]) ELSE 0])
      /\ page.misc = SumOf([i \in special |->
           IF b.sales[i].line = "misc_income" /\ b.sales[i].paid THEN b.sales[i].due ELSE 0])
      /\ page.revenue = SumOf(net) + page.misc
  BY DEF Summary, SpecialIncome
<1>3. /\ page.outstanding = NetOf(b, {i \in live : ~b.sales[i].paid})
      /\ page.income = AmountOf(b, Settled(b, p, "income"))
      /\ page.expense = AmountOf(b, Settled(b, p, "expense"))
      /\ page.stock = SumOf([v \in listed |-> OnHandOf(b, p, v)])
  BY DEF Summary
<1>4. /\ live \subseteq DOMAIN b.sales /\ IsFiniteSet(live)
      /\ bought \subseteq DOMAIN b.purchases /\ IsFiniteSet(bought)
      /\ \A v : SoldOf(b, p, v) \subseteq DOMAIN b.sales /\ BoughtOf(b, p, v) \subseteq DOMAIN b.purchases
      /\ special \subseteq DOMAIN b.sales /\ Sellings(b, p) \subseteq DOMAIN b.sales
  BY LiveRows DEF SoldOf, BoughtOf, SpecialIncome, Sellings
<1>5. /\ SumOf(net) = SumFunctionOnSet(NetColumn(b), Sellings(b, p))
      /\ SumOf(donated) = SumFunctionOnSet(DonatedColumn(b), Sellings(b, p))
      /\ SumOf(received) = SumFunctionOnSet(CollectedColumn(b), Sellings(b, p))
  <2>1. \A v \in listed : /\ net[v] = SumFunctionOnSet(NetColumn(b), SoldOf(b, p, v))
                          /\ donated[v] = SumFunctionOnSet(DonatedColumn(b), SoldOf(b, p, v))
                          /\ received[v] = SumFunctionOnSet(CollectedColumn(b), SoldOf(b, p, v))
    BY <1>4, SaleSums
  <2>2. DOMAIN net = listed /\ DOMAIN donated = listed /\ DOMAIN received = listed
    OBVIOUS
  <2>3. \A i \in DOMAIN b.sales : NetColumn(b)[i] \in Int /\ DonatedColumn(b)[i] \in Int /\ CollectedColumn(b)[i] \in Int
    BY SaleColumns
  <2> HIDE DEF net, donated, received
  <2>. QED
    BY <2>1, <2>2, <2>3, VariantsSellings
<1>6. SumOf(goods) = SumFunctionOnSet(CostColumn(b), bought)
  <2>1. \A v \in listed : goods[v] = SumFunctionOnSet(CostColumn(b), BoughtOf(b, p, v))
    BY <1>4, GoodsSums
  <2>2. \A i \in DOMAIN b.purchases : CostColumn(b)[i] \in Int
    <3>1. \A i \in DOMAIN b.purchases : b.purchases[i] \in PurchaseRow
      BY RowsOfSeq DEF Sound
    <3>. QED
      BY <3>1 DEF CostColumn, PurchaseRow
  <2>3. DOMAIN goods = listed
    OBVIOUS
  <2> HIDE DEF goods
  <2>. QED
    BY <2>1, <2>2, <2>3, VariantsPurchases
<1>7. page.outstanding = SumFunctionOnSet(OwedColumn(b), live)
  <2> DEFINE open == {i \in live : ~b.sales[i].paid}
  <2>1. open \in SUBSET live /\ IsFiniteSet(open) /\ open \subseteq DOMAIN b.sales
    BY <1>4, FS_Subset
  <2>2. \A i \in open : OwedColumn(b)[i] = NetColumn(b)[i] /\ OwedColumn(b)[i] \in Int
    BY <1>4, SaleColumns DEF OwedColumn, NetColumn
  <2>3. \A i \in live \ open : OwedColumn(b)[i] = 0
    BY <1>4 DEF OwedColumn
  <2> HIDE DEF open
  <2>4. SumFunctionOnSet(OwedColumn(b), live) = SumFunctionOnSet(OwedColumn(b), open)
    BY <1>4, <2>1, <2>2, <2>3, SumMasked
  <2>5. SumFunctionOnSet(OwedColumn(b), open) = SumFunctionOnSet(NetColumn(b), open)
    BY <2>1, <2>2, SumSame
  <2>. QED
    BY <1>3, <2>1, <2>4, <2>5, SaleSums DEF open
<1> HIDE DEF live, bought, listed, special, net, donated, received, goods, page
<1>8. page.collected = SumFunctionOnSet(CollectedColumn(b), live)
  <2>1. CollectedOf(b, special) = SumFunctionOnSet(CollectedColumn(b), special)
    BY <1>4, SaleSums
  <2>2. \A i \in DOMAIN b.sales : CollectedColumn(b)[i] \in Int
    BY SaleColumns
  <2>3. SumFunctionOnSet(CollectedColumn(b), live) =
          SumFunctionOnSet(CollectedColumn(b), Sellings(b, p)) + SumFunctionOnSet(CollectedColumn(b), special)
    BY <2>2, SalesInTwo DEF live, special
  <2>. QED
    BY <1>1, <1>5, <2>1, <2>3
<1>9. page.donation = SumFunctionOnSet(DonatedColumn(b), live)
  BY <1>2, <1>4, <1>5, SpecialSums, SalesInTwo, SaleColumns DEF live, special
<1>10. page.misc = SumFunctionOnSet(IncomeColumn(b), special)
  BY <1>2, SpecialSums DEF special
<1>11. page.revenue = SumFunctionOnSet(NetColumn(b), live)
  <2>1. SumFunctionOnSet(NetColumn(b), special) = SumFunctionOnSet(IncomeColumn(b), special)
    <3>1. /\ SumFunctionOnSet(NetColumn(b), special) =
               SumFunctionOnSet(IncomeColumn(b), special) + SumFunctionOnSet(OwedColumn(b), special)
          /\ SumFunctionOnSet(IncomeColumn(b), special) \in Int
      BY <1>4, SaleSums
    <3>2. SumFunctionOnSet(OwedColumn(b), special) = 0
      BY SpecialSums DEF special
    <3>. QED
      BY <3>1, <3>2
  <2>. QED
    BY <1>2, <1>5, <1>10, <2>1, SalesInTwo, SaleColumns DEF live, special
<1>. QED
  BY <1>1, <1>3, <1>6, <1>7, <1>8, <1>9, <1>10, <1>11 DEF live, bought, listed, special, page

-----------------------------------------------------------------------------
(* The breakdowns of a page come to its headline figures.                   *)

\* Days, payment methods and categories.
LEMMA DaysAddUp ==
  ASSUME NEW b, Sound(b), NEW p \in Span
  PROVE  SumOf(DailyIncome(b, p)) = Summary(b, p).collected
<1> DEFINE live == LiveIn(b.sales, p)
           paid == {i \in live : b.sales[i].paid}
           key  == [i \in paid |-> b.sales[i].on]
           part == DailyIncome(b, p)
           f    == CollectedColumn(b)
<1>1. /\ live \subseteq DOMAIN b.sales /\ IsFiniteSet(live) /\ paid \in SUBSET live /\ IsFiniteSet(paid)
  BY LiveRows, FS_Subset
<1>2. \A i \in live : f[i] \in Int /\ (i \notin paid => f[i] = 0)
  <2>1. \A i \in live : f[i] \in Int
    BY <1>1, SaleColumns
  <2>2. \A i \in live : i \notin paid => f[i] = 0
    BY <1>1 DEF CollectedColumn, Collected
  <2>. QED
    BY <2>1, <2>2
<1>3. DOMAIN part = {key[i] : i \in paid} /\ \A d \in DOMAIN part : part[d] = CollectedOf(b, Group(paid, key, d))
  BY DEF DailyIncome, Group
<1>4. \A d \in DOMAIN part : part[d] = SumFunctionOnSet(f, Group(paid, key, d))
  <2>1. \A d : Group(paid, key, d) \subseteq DOMAIN b.sales
    BY <1>1 DEF Group
  <2> HIDE DEF key, part, paid
  <2>. QED
    BY <1>3, <2>1, SaleSums
<1> HIDE DEF live, paid, key, part, f
<1>5. SumOf(part) = SumFunctionOnSet(f, paid)
  BY <1>1, <1>2, <1>3, <1>4, GroupsAddUp DEF GroupedBy
<1>6. SumFunctionOnSet(f, live) = SumFunctionOnSet(f, paid)
  BY <1>1, <1>2, SumMasked
<1>. QED
  BY <1>5, <1>6, PageByColumn DEF part, f, live

LEMMA MethodsAddUp ==
  ASSUME NEW b, Sound(b), NEW p \in Span
  PROVE  /\ Column(Methods(b, p), "collected") = Summary(b, p).collected
         /\ Column(Methods(b, p), "booked") = Summary(b, p).collected + Summary(b, p).outstanding
<1> DEFINE live  == LiveIn(b.sales, p)
           key   == [i \in live |-> b.sales[i].method]
           byMethod == Methods(b, p)
           got   == [k \in DOMAIN byMethod |-> byMethod[k]["collected"]]
           all   == [k \in DOMAIN byMethod |-> byMethod[k]["booked"]]
<1>1. live \subseteq DOMAIN b.sales /\ IsFiniteSet(live)
  BY LiveRows
<1>2. /\ DOMAIN byMethod = {key[i] : i \in live}
      /\ \A k \in DOMAIN byMethod :
           /\ got[k] = CollectedOf(b, Group(live, key, k))
           /\ all[k] = SumOf([i \in Group(live, key, k) |-> Net(b.sales[i]) + b.sales[i].donation])
  BY DEF Methods, Group
<1>3. \A k : Group(live, key, k) \subseteq DOMAIN b.sales /\ IsFiniteSet(Group(live, key, k))
  BY <1>1, FS_Subset DEF Group
<1>4. DOMAIN got = DOMAIN byMethod /\ DOMAIN all = DOMAIN byMethod
  OBVIOUS
<1>5. \A i \in live : CollectedColumn(b)[i] \in Int /\ BookedColumn(b)[i] \in Int
  BY <1>1, SaleColumns
<1>6. Column(byMethod, "collected") = SumOf(got) /\ Column(byMethod, "booked") = SumOf(all)
  BY DEF Column
<1> HIDE DEF live, key, byMethod, got, all
<1>7. \A k \in DOMAIN byMethod : got[k] = SumFunctionOnSet(CollectedColumn(b), Group(live, key, k))
  BY <1>2, <1>3, SaleSums
<1>8. \A k \in DOMAIN byMethod : all[k] = SumFunctionOnSet(BookedColumn(b), Group(live, key, k))
  <2>. SUFFICES ASSUME NEW k \in DOMAIN byMethod
       PROVE SumOf([i \in Group(live, key, k) |-> Net(b.sales[i]) + b.sales[i].donation])
               = SumFunctionOnSet(BookedColumn(b), Group(live, key, k))
    BY <1>2
  <2>1. \A i \in Group(live, key, k) : Net(b.sales[i]) + b.sales[i].donation = BookedColumn(b)[i]
    BY <1>3 DEF BookedColumn
  <2>. QED
    BY <1>3, <2>1, SumOver
<1>9. SumOf(got) = SumFunctionOnSet(CollectedColumn(b), live)
  <2>1. DOMAIN got = {key[i] : i \in live}
    BY <1>2, <1>4
  <2>2. \A k \in DOMAIN got : got[k] = SumFunctionOnSet(CollectedColumn(b), Group(live, key, k))
    BY <1>4, <1>7
  <2>3. GroupedBy(CollectedColumn(b), live, key, got)
    BY <1>1, <1>5, <2>1, <2>2 DEF GroupedBy
  <2>. QED
    BY <2>3, GroupsAddUp
<1>10. SumOf(all) = SumFunctionOnSet(BookedColumn(b), live)
  <2>1. DOMAIN all = {key[i] : i \in live}
    BY <1>2, <1>4
  <2>2. \A k \in DOMAIN all : all[k] = SumFunctionOnSet(BookedColumn(b), Group(live, key, k))
    BY <1>4, <1>8
  <2>3. GroupedBy(BookedColumn(b), live, key, all)
    BY <1>1, <1>5, <2>1, <2>2 DEF GroupedBy
  <2>. QED
    BY <2>3, GroupsAddUp
<1>11. SumFunctionOnSet(BookedColumn(b), live) =
         SumFunctionOnSet(CollectedColumn(b), live) + SumFunctionOnSet(OwedColumn(b), live)
  BY <1>1, SaleSums
<1>. QED
  BY <1>6, <1>9, <1>10, <1>11, PageByColumn DEF live, byMethod

LEMMA SettledRows ==
  ASSUME NEW b, Sound(b), NEW p, NEW type
  PROVE  Settled(b, p, type) \subseteq DOMAIN b.transactions /\ IsFiniteSet(Settled(b, p, type))
BY LiveRows, FS_Subset DEF Settled

LEMMA CategoriesAddUp ==
  ASSUME NEW b, Sound(b), NEW p, NEW type
  PROVE  SumOf(Categories(b, p, type)) = AmountOf(b, Settled(b, p, type))
<1> DEFINE S    == Settled(b, p, type)
           key  == [i \in S |-> b.transactions[i].category]
           part == Categories(b, p, type)
<1>1. S \subseteq DOMAIN b.transactions /\ IsFiniteSet(S)
  BY SettledRows
<1>2. DOMAIN part = {key[i] : i \in S} /\ \A k \in DOMAIN part : part[k] = AmountOf(b, Group(S, key, k))
  BY DEF Categories, Group
<1>3. \A k : Group(S, key, k) \subseteq DOMAIN b.transactions
  BY <1>1 DEF Group
<1>4. \A i \in S : AmountColumn(b)[i] \in Int
  <2>1. \A i \in DOMAIN b.transactions : b.transactions[i] \in TransactionRow
    BY RowsOfSeq DEF Sound
  <2>. QED
    BY <1>1, <2>1 DEF AmountColumn, TransactionRow
<1> HIDE DEF S, key, part
<1>5. \A k \in DOMAIN part : part[k] = SumFunctionOnSet(AmountColumn(b), Group(S, key, k))
  BY <1>2, <1>3, AmountSums
<1>6. SumOf(part) = SumFunctionOnSet(AmountColumn(b), S)
  BY <1>1, <1>2, <1>4, <1>5, GroupsAddUp DEF GroupedBy
<1>. QED
  BY <1>1, <1>6, AmountSums DEF S, part

\* What is on hand.
LEMMA InventoryAddsUp ==
  ASSUME NEW b, Sound(b), NEW p \in Span
  PROVE  Column(Inventory(b, p), "onHand") = Summary(b, p).stock
<1> DEFINE listed == Listed(b, p)
           left   == {v \in listed : OnHandOf(b, p, v) # 0}
           f      == [v \in listed |-> OnHandOf(b, p, v)]
           g      == [v \in DOMAIN Inventory(b, p) |-> Inventory(b, p)[v]["onHand"]]
<1>1. IsFiniteSet(listed) /\ left \in SUBSET listed /\ IsFiniteSet(left)
  BY ListedFinite, FS_Subset
<1>2. DOMAIN g = left /\ \A v \in left : g[v] = f[v]
  BY DEF Inventory
<1>3. \A v \in listed : f[v] \in Int
  <2>. SUFFICES ASSUME NEW v \in listed PROVE Purchased(b, p, v) \in Int /\ Sold(b, p, v) \in Int
    BY DEF OnHandOf
  <2> DEFINE P == {j \in LiveIn(b.purchases, UpTo(p)) : b.purchases[j].variant = v}
             S == {j \in LiveIn(b.sales, UpTo(p)) : b.sales[j].line = "merchandise" /\ b.sales[j].variant = v}
             fp == [i \in P |-> b.purchases[i].quantity]
             fs == [i \in S |-> b.sales[i].quantity]
  <2>1. P \subseteq DOMAIN b.purchases /\ IsFiniteSet(P) /\ S \subseteq DOMAIN b.sales /\ IsFiniteSet(S)
    BY LiveRows, FS_Subset
  <2>2. (\A i \in DOMAIN b.purchases : b.purchases[i] \in PurchaseRow) /\ \A i \in DOMAIN b.sales : b.sales[i] \in SaleRow
    BY RowsOfSeq DEF Sound
  <2>3. (\A i \in P : fp[i] \in Int) /\ \A i \in S : fs[i] \in Int
    BY <2>1, <2>2 DEF PurchaseRow, SaleRow
  <2>4. Purchased(b, p, v) = SumFunctionOnSet(fp, P) /\ Sold(b, p, v) = SumFunctionOnSet(fs, S)
    BY DEF Purchased, Sold, SumOf
  <2> HIDE DEF P, S, fp, fs
  <2>. QED
    BY <2>1, <2>3, <2>4, SumInt
<1>4. \A v \in listed \ left : f[v] = 0
  OBVIOUS
<1>5. Column(Inventory(b, p), "onHand") = SumOf(g) /\ SumOf(f) = SumFunctionOnSet(f, listed)
  BY DEF Column, SumOf
<1>6. Summary(b, p).stock = SumOf(f)
  BY PageByColumn
<1> HIDE DEF listed, left, f, g
<1>7. SumOf(g) = SumFunctionOnSet(f, left)
  BY <1>1, <1>2, SumOver
<1>8. SumFunctionOnSet(f, listed) = SumFunctionOnSet(f, left)
  BY <1>1, <1>3, <1>4, SumMasked
<1>. QED
  BY <1>5, <1>6, <1>7, <1>8

-----------------------------------------------------------------------------
(* Rankings and the timeline of events.                                     *)

PiecesColumn(b) == [i \in DOMAIN b.sales |-> Pieces(b.sales[i])]
CostOfColumn(b, p) ==
  [i \in DOMAIN b.sales |->
     IF b.sales[i].variant # NoVariant THEN Pieces(b.sales[i]) * CostBasis(b, p, b.sales[i].variant) ELSE 0]
ProfitColumn(b, p) == [i \in DOMAIN b.sales |-> Income(b.sales[i]) - CostOfColumn(b, p)[i]]

RankColumn(b, p, c) ==
  IF c = "quantity" THEN PiecesColumn(b) ELSE IF c = "income" THEN IncomeColumn(b) ELSE ProfitColumn(b, p)

LEMMA CostBasisInt ==
  ASSUME NEW b, Sound(b), NEW p, NEW v
  PROVE  CostBasis(b, p, v) \in Int
<1> DEFINE S == {i \in LiveIn(b.purchases, UpTo(p)) : b.purchases[i].variant = v}
           f == [i \in S |-> b.purchases[i].quantity]
<1>1. S \subseteq DOMAIN b.purchases /\ IsFiniteSet(S)
  BY LiveRows, FS_Subset
<1>2. \A i \in S : f[i] \in Int
  <2>1. \A i \in DOMAIN b.purchases : b.purchases[i] \in PurchaseRow
    BY RowsOfSeq DEF Sound
  <2>. QED
    BY <1>1, <2>1 DEF PurchaseRow
<1>3. GoodsOf(b, S) \in Int
  BY <1>1, GoodsSums
<1>4. CostBasis(b, p, v) = IF SumFunctionOnSet(f, S) > 0
        THEN (GoodsOf(b, S) + SumFunctionOnSet(f, S) \div 2) \div SumFunctionOnSet(f, S) ELSE 0
  BY DEF CostBasis, SumOf
<1> HIDE DEF S, f
<1>5. SumFunctionOnSet(f, S) \in Int
  BY <1>1, <1>2, SumInt
<1>. QED
  BY <1>3, <1>4, <1>5

LEMMA RankColumns ==
  ASSUME NEW b, Sound(b), NEW p, NEW i \in DOMAIN b.sales
  PROVE  /\ PiecesColumn(b)[i] \in Int /\ IncomeColumn(b)[i] \in Int
         /\ CostOfColumn(b, p)[i] \in Int /\ ProfitColumn(b, p)[i] \in Int
         /\ IncomeColumn(b)[i] = ProfitColumn(b, p)[i] + CostOfColumn(b, p)[i]
<1>1. b.sales[i] \in SaleRow
  BY RowsOfSeq DEF Sound
<1>2. Pieces(b.sales[i]) \in Int
  BY <1>1 DEF Pieces, SaleRow
<1>3. CostOfColumn(b, p)[i] \in Int
  <2>1. CostBasis(b, p, b.sales[i].variant) \in Int
    BY CostBasisInt
  <2>. QED
    BY <1>2, <2>1 DEF CostOfColumn
<1>4. IncomeColumn(b)[i] \in Int /\ IncomeColumn(b)[i] = Income(b.sales[i])
  BY SaleColumns DEF IncomeColumn
<1>. QED
  BY <1>2, <1>3, <1>4 DEF PiecesColumn, ProfitColumn

LEMMA RankingSums ==
  ASSUME NEW b, Sound(b), NEW p, NEW ids, ids \subseteq DOMAIN b.sales, NEW c \in {"quantity", "income", "profit"}
  PROVE  /\ RankingEntry(b, p, ids)[c] = SumFunctionOnSet(RankColumn(b, p, c), ids)
         /\ \A i \in ids : RankColumn(b, p, c)[i] \in Int
<1> DEFINE priced == {j \in ids : b.sales[j].variant # NoVariant}
           cost   == [i \in priced |-> Pieces(b.sales[i]) * CostBasis(b, p, b.sales[i].variant)]
<1>1. IsFiniteSet(ids) /\ priced \in SUBSET ids /\ IsFiniteSet(priced)
  BY RowsOfSeq, FS_Subset DEF Sound
<1>2. \A i \in ids : /\ PiecesColumn(b)[i] \in Int /\ IncomeColumn(b)[i] \in Int
                     /\ CostOfColumn(b, p)[i] \in Int /\ ProfitColumn(b, p)[i] \in Int
                     /\ IncomeColumn(b)[i] = ProfitColumn(b, p)[i] + CostOfColumn(b, p)[i]
  BY RankColumns
<1>3. SumOf([i \in ids |-> Pieces(b.sales[i])]) = SumFunctionOnSet(PiecesColumn(b), ids)
  <2>1. \A i \in ids : Pieces(b.sales[i]) = PiecesColumn(b)[i]
    BY DEF PiecesColumn
  <2>. QED
    BY <1>1, <2>1, SumOver
<1>4. SumOf([i \in ids |-> Income(b.sales[i])]) = SumFunctionOnSet(IncomeColumn(b), ids)
  <2>1. \A i \in ids : Income(b.sales[i]) = IncomeColumn(b)[i]
    BY DEF IncomeColumn
  <2>. QED
    BY <1>1, <2>1, SumOver
<1>5. CostOfSales(b, p, ids) = SumFunctionOnSet(CostOfColumn(b, p), ids)
  <2>1. CostOfSales(b, p, ids) = SumOf(cost)
    BY DEF CostOfSales
  <2>2. DOMAIN cost = priced /\ \A i \in priced : cost[i] = CostOfColumn(b, p)[i]
    BY DEF CostOfColumn
  <2>3. \A i \in ids \ priced : CostOfColumn(b, p)[i] = 0
    BY DEF CostOfColumn
  <2> HIDE DEF cost, priced
  <2>4. SumOf(cost) = SumFunctionOnSet(CostOfColumn(b, p), priced)
    BY <1>1, <2>2, SumOver
  <2>5. SumFunctionOnSet(CostOfColumn(b, p), ids) = SumFunctionOnSet(CostOfColumn(b, p), priced)
    BY <1>1, <1>2, <2>3, SumMasked
  <2>. QED
    BY <2>1, <2>4, <2>5
<1>6. SumFunctionOnSet(IncomeColumn(b), ids) =
        SumFunctionOnSet(ProfitColumn(b, p), ids) + SumFunctionOnSet(CostOfColumn(b, p), ids)
  <2>1. Adds(IncomeColumn(b), ProfitColumn(b, p), CostOfColumn(b, p), ids)
    BY <1>1, <1>2 DEF Adds
  <2>. QED
    BY <2>1, SumPlus
<1>7. SumFunctionOnSet(ProfitColumn(b, p), ids) \in Int /\ SumFunctionOnSet(CostOfColumn(b, p), ids) \in Int
  BY <1>1, <1>2, SumInt
<1>8. RankingEntry(b, p, ids) =
        [quantity |-> SumFunctionOnSet(PiecesColumn(b), ids), income |-> SumFunctionOnSet(IncomeColumn(b), ids),
         profit |-> SumFunctionOnSet(IncomeColumn(b), ids) - SumFunctionOnSet(CostOfColumn(b, p), ids)]
  BY <1>3, <1>4, <1>5 DEF RankingEntry
<1>. QED
  BY <1>2, <1>6, <1>7, <1>8 DEF RankColumn

\* A ranking by a key of the sales.
RankedBy(b, p, S, key, ranking) ==
  /\ DOMAIN ranking = {key[i] : i \in S}
  /\ \A k \in DOMAIN ranking : ranking[k] = RankingEntry(b, p, Group(S, key, k))

LEMMA RankingAddsUp ==
  ASSUME NEW b, Sound(b), NEW p, NEW S, S \subseteq DOMAIN b.sales, NEW key, NEW ranking, RankedBy(b, p, S, key, ranking),
         NEW c \in {"quantity", "income", "profit"}
  PROVE  Column(ranking, c) = SumFunctionOnSet(RankColumn(b, p, c), S)
<1> DEFINE part == [k \in DOMAIN ranking |-> ranking[k][c]]
           f    == RankColumn(b, p, c)
<1>1. IsFiniteSet(S) /\ \A k : Group(S, key, k) \subseteq DOMAIN b.sales
  BY RowsOfSeq DEF Sound, Group
<1>2. \A i \in S : f[i] \in Int
  BY RankingSums
<1>3. \A k \in DOMAIN part : part[k] = SumFunctionOnSet(f, Group(S, key, k))
  <2>. SUFFICES ASSUME NEW k \in DOMAIN ranking
       PROVE RankingEntry(b, p, Group(S, key, k))[c] = SumFunctionOnSet(f, Group(S, key, k))
    BY DEF RankedBy
  <2>. QED
    BY <1>1, RankingSums
<1>4. DOMAIN part = {key[i] : i \in S}
  BY DEF RankedBy
<1>5. Column(ranking, c) = SumOf(part)
  BY DEF Column
<1> HIDE DEF part, f
<1>6. GroupedBy(f, S, key, part)
  BY <1>1, <1>2, <1>3, <1>4 DEF GroupedBy
<1>. QED
  BY <1>5, <1>6, GroupsAddUp DEF f

LEMMA OccurrencesAddUp ==
  ASSUME NEW b, Sound(b), NEW p, NEW c \in {"quantity", "income", "profit"}
  PROVE  Column(Timeline(b, p), c) = Column(EventRanking(b, p), c)
<1> DEFINE S    == {i \in LiveIn(b.sales, p) : b.sales[i].event # NoGig}
           gig  == [i \in S |-> b.sales[i].event]
           when == [i \in S |-> <<b.sales[i].event, FirstDay(b, p, i)>>]
<1>1. S \subseteq DOMAIN b.sales
  BY LiveRows
<1>2. RankedBy(b, p, S, gig, EventRanking(b, p))
  BY DEF RankedBy, EventRanking, Group
<1>3. RankedBy(b, p, S, when, Timeline(b, p))
  BY DEF RankedBy, Timeline, Group
<1> HIDE DEF S, gig, when
<1>. QED
  BY <1>1, <1>2, <1>3, RankingAddsUp

LEMMA ItemsAddUp ==
  ASSUME NEW b, Sound(b), NEW p \in Span
  PROVE  LET page == Summary(b, p)
         IN  Column(ItemRanking(b, p), "income") = page.collected - page.donation - page.misc
<1> DEFINE S   == {i \in LiveIn(b.sales, p) : b.sales[i].variant # NoVariant}
           key == [i \in S |-> b.sales[i].variant]
           live == LiveIn(b.sales, p)
<1>1. S \subseteq DOMAIN b.sales /\ live \subseteq DOMAIN b.sales
  BY LiveRows
<1>2. S = Sellings(b, p)
  BY <1>1 DEF Sellings, Sound, SoundSale
<1>3. RankedBy(b, p, S, key, ItemRanking(b, p))
  BY DEF RankedBy, ItemRanking, Group
<1> HIDE DEF S, key, live
<1>4. Column(ItemRanking(b, p), "income") = SumFunctionOnSet(RankColumn(b, p, "income"), S)
  BY <1>1, <1>3, RankingAddsUp
<1>5. RankColumn(b, p, "income") = IncomeColumn(b)
  BY DEF RankColumn
<1>6. /\ SumFunctionOnSet(CollectedColumn(b), live) =
           SumFunctionOnSet(IncomeColumn(b), live) + SumFunctionOnSet(DonatedColumn(b), live)
      /\ SumFunctionOnSet(DonatedColumn(b), live) \in Int
  BY <1>1, SaleSums
<1>7. /\ SumFunctionOnSet(IncomeColumn(b), live) =
           SumFunctionOnSet(IncomeColumn(b), Sellings(b, p)) + SumFunctionOnSet(IncomeColumn(b), SpecialIncome(b, p))
      /\ SumFunctionOnSet(IncomeColumn(b), Sellings(b, p)) \in Int
      /\ SumFunctionOnSet(IncomeColumn(b), SpecialIncome(b, p)) \in Int
  BY SalesInTwo, SaleColumns DEF live
<1>8. /\ Summary(b, p).collected = SumFunctionOnSet(CollectedColumn(b), live)
      /\ Summary(b, p).donation = SumFunctionOnSet(DonatedColumn(b), live)
      /\ Summary(b, p).misc = SumFunctionOnSet(IncomeColumn(b), SpecialIncome(b, p))
  BY PageByColumn DEF live
<1>. QED
  BY <1>2, <1>4, <1>5, <1>6, <1>7, <1>8

LEMMA BookedIsOwedOrCollected ==
  ASSUME NEW b, Sound(b), NEW p \in Span
  PROVE  LET page == Summary(b, p)
         IN  page.revenue + page.donation = page.collected + page.outstanding
<1> DEFINE live == LiveIn(b.sales, p)
<1>1. live \subseteq DOMAIN b.sales
  BY LiveRows
<1> HIDE DEF live
<1>2. /\ SumFunctionOnSet(CollectedColumn(b), live) =
           SumFunctionOnSet(IncomeColumn(b), live) + SumFunctionOnSet(DonatedColumn(b), live)
      /\ SumFunctionOnSet(NetColumn(b), live) =
           SumFunctionOnSet(IncomeColumn(b), live) + SumFunctionOnSet(OwedColumn(b), live)
      /\ SumFunctionOnSet(DonatedColumn(b), live) \in Int /\ SumFunctionOnSet(IncomeColumn(b), live) \in Int
      /\ SumFunctionOnSet(OwedColumn(b), live) \in Int
  BY <1>1, SaleSums
<1>3. /\ Summary(b, p).collected = SumFunctionOnSet(CollectedColumn(b), live)
      /\ Summary(b, p).donation = SumFunctionOnSet(DonatedColumn(b), live)
      /\ Summary(b, p).revenue = SumFunctionOnSet(NetColumn(b), live)
      /\ Summary(b, p).outstanding = SumFunctionOnSet(OwedColumn(b), live)
  BY PageByColumn DEF live
<1>. QED
  BY <1>2, <1>3

-----------------------------------------------------------------------------
(* The account holders' differences are the overall balance.                *)

\* Every row of a receipt repeats its shipping cost, so any of them will do.
LEMMA ShippingOfReceipt ==
  ASSUME NEW b, Sound(b), NEW ids, ids \subseteq DOMAIN b.purchases, NEW i \in ids
  PROVE  ShippingOf(b, ids, b.purchases[i].receipt) = b.purchases[i].shipping
<1> DEFINE r == b.purchases[i].receipt
           s == b.purchases[i].shipping
<1>1. \A j \in RowsOf(b, ids, r) : b.purchases[j].shipping = s
  BY DEF Sound, RowsOf
<1>2. i \in RowsOf(b, ids, r)
  BY DEF RowsOf
<1>3. {b.purchases[j].shipping : j \in RowsOf(b, ids, r)} = {s}
  BY <1>1, <1>2
<1>4. s \in Int
  <2>1. b.purchases[i] \in PurchaseRow
    BY RowsOfSeq DEF Sound
  <2>. QED
    BY <2>1 DEF PurchaseRow
<1> HIDE DEF s
<1>5. Largest({s}) = s
  BY <1>4 DEF Largest
<1>. QED
  BY <1>3, <1>5 DEF ShippingOf, r, s

LEMMA ReceiptTotals ==
  ASSUME NEW b, Sound(b), NEW ids, ids \subseteq DOMAIN b.purchases
  PROVE  /\ IsFiniteSet(ReceiptsOf(b, ids))
         /\ \A r \in ReceiptsOf(b, ids) :
              GoodsOf(b, RowsOf(b, ids, r)) \in Int /\ ShippingOf(b, ids, r) \in Int
         /\ ShippingTotal(b, ids) \in Int
         /\ SumOf([r \in ReceiptsOf(b, ids) |-> GoodsOf(b, RowsOf(b, ids, r)) + ShippingOf(b, ids, r)])
              = SumFunctionOnSet(CostColumn(b), ids) + ShippingTotal(b, ids)
<1> DEFINE R     == ReceiptsOf(b, ids)
           key   == [i \in ids |-> b.purchases[i].receipt]
           goods == [r \in R |-> GoodsOf(b, RowsOf(b, ids, r))]
           ship  == [r \in R |-> ShippingOf(b, ids, r)]
           both  == [r \in R |-> GoodsOf(b, RowsOf(b, ids, r)) + ShippingOf(b, ids, r)]
<1>1. IsFiniteSet(ids) /\ \A i \in DOMAIN b.purchases : b.purchases[i] \in PurchaseRow
  BY RowsOfSeq DEF Sound
<1>2. R = {key[i] : i \in ids} /\ \A r : RowsOf(b, ids, r) = Group(ids, key, r)
  BY DEF ReceiptsOf, RowsOf, Group
<1>3. IsFiniteSet(R)
  <2> HIDE DEF key, R
  <2>1. IsFiniteSet({key[i] : i \in ids})
    BY <1>1, ImageFinite
  <2>. QED
    BY <1>2, <2>1
<1>4. \A r \in R : ShippingOf(b, ids, r) \in Int
  <2>. SUFFICES ASSUME NEW i \in ids PROVE ShippingOf(b, ids, b.purchases[i].receipt) \in Int
    BY DEF ReceiptsOf
  <2>1. b.purchases[i].shipping \in Int
    BY <1>1 DEF PurchaseRow
  <2>. QED
    BY <2>1, ShippingOfReceipt
<1>5. \A r : RowsOf(b, ids, r) \subseteq DOMAIN b.purchases
  BY DEF RowsOf
<1>6. \A r : GoodsOf(b, RowsOf(b, ids, r)) = SumFunctionOnSet(CostColumn(b), RowsOf(b, ids, r))
             /\ GoodsOf(b, RowsOf(b, ids, r)) \in Int
  BY <1>5, GoodsSums
<1>7. \A i \in ids : CostColumn(b)[i] \in Int
  BY <1>1 DEF CostColumn, PurchaseRow
<1>8. \A r \in R : goods[r] \in Int /\ ship[r] \in Int /\ both[r] = goods[r] + ship[r]
  BY <1>4, <1>6
<1>9. DOMAIN goods = R /\ \A r \in R : goods[r] = SumFunctionOnSet(CostColumn(b), Group(ids, key, r))
  BY <1>2, <1>6
<1>10. SumOf(both) = SumFunctionOnSet(both, R) /\ ShippingTotal(b, ids) = SumFunctionOnSet(ship, R)
       /\ SumOf(goods) = SumFunctionOnSet(goods, R)
  BY DEF SumOf, ShippingTotal
<1>11. SumOf(both) = SumOf([r \in ReceiptsOf(b, ids) |-> GoodsOf(b, RowsOf(b, ids, r)) + ShippingOf(b, ids, r)])
  OBVIOUS
<1> HIDE DEF R, key, goods, ship, both
<1>12. GroupedBy(CostColumn(b), ids, key, goods)
  BY <1>1, <1>2, <1>7, <1>9 DEF GroupedBy
<1>13. SumOf(goods) = SumFunctionOnSet(CostColumn(b), ids)
  BY <1>12, GroupsAddUp
<1>14. Adds(both, goods, ship, R)
  BY <1>3, <1>8 DEF Adds
<1>15. SumFunctionOnSet(both, R) = SumFunctionOnSet(goods, R) + SumFunctionOnSet(ship, R)
  BY <1>14, SumPlus
<1>16. SumFunctionOnSet(ship, R) \in Int
  BY <1>3, <1>8, SumInt
<1>. QED
  BY <1>3, <1>4, <1>6, <1>10, <1>11, <1>13, <1>15, <1>16 DEF R

\* What settled transactions of the holders come to.
LEMMA HeldAddUp ==
  ASSUME NEW b, Sound(b), NEW ids, ids \subseteq DOMAIN b.transactions, NEW K, IsFiniteSet(K),
         \A i \in ids : b.transactions[i].holder \in K
  PROVE  /\ SumFunctionOnSet([h \in K |-> AmountOf(b, HeldBy(b, ids, h))], K) = AmountOf(b, ids)
         /\ \A h : AmountOf(b, HeldBy(b, ids, h)) \in Int
<1> DEFINE key  == [i \in ids |-> b.transactions[i].holder]
           part == [h \in K |-> AmountOf(b, HeldBy(b, ids, h))]
<1>1. IsFiniteSet(ids) /\ \A i \in DOMAIN b.transactions : b.transactions[i] \in TransactionRow
  BY RowsOfSeq DEF Sound
<1>2. \A h : HeldBy(b, ids, h) = Group(ids, key, h) /\ HeldBy(b, ids, h) \subseteq DOMAIN b.transactions
  BY DEF HeldBy, Group
<1>3. \A h : AmountOf(b, HeldBy(b, ids, h)) = SumFunctionOnSet(AmountColumn(b), HeldBy(b, ids, h))
             /\ AmountOf(b, HeldBy(b, ids, h)) \in Int
  BY <1>2, AmountSums
<1>4. \A i \in ids : AmountColumn(b)[i] \in Int /\ key[i] \in K
  BY <1>1 DEF AmountColumn, TransactionRow
<1>5. \A h \in K : part[h] = SumFunctionOnSet(AmountColumn(b), Group(ids, key, h))
  BY <1>2, <1>3
<1> HIDE DEF key, part
<1>6. Grouped(AmountColumn(b), ids, key, K, part)
  BY <1>1, <1>4, <1>5 DEF Grouped
<1>7. SumFunctionOnSet(part, K) = SumFunctionOnSet(AmountColumn(b), ids)
  BY <1>6, SumGroups
<1>. QED
  BY <1>3, <1>7, AmountSums DEF part

LEMMA SpentAddsUp ==
  ASSUME NEW b, Sound(b), NEW p, NEW K, IsFiniteSet(K),
         \A r \in ReceiptsOf(b, LiveIn(b.purchases, p)) : HolderOf(b, LiveIn(b.purchases, p), r) \in K
  PROVE  /\ SumFunctionOnSet([h \in K |-> Spent(b, p, h)], K) =
              SumFunctionOnSet(CostColumn(b), LiveIn(b.purchases, p)) + ShippingTotal(b, LiveIn(b.purchases, p))
         /\ \A h : Spent(b, p, h) \in Int
<1> DEFINE bought == LiveIn(b.purchases, p)
           R      == ReceiptsOf(b, bought)
           f      == [r \in R |-> GoodsOf(b, RowsOf(b, bought, r)) + ShippingOf(b, bought, r)]
           key    == [r \in R |-> HolderOf(b, bought, r)]
           part   == [h \in K |-> Spent(b, p, h)]
<1>1. bought \subseteq DOMAIN b.purchases
  BY LiveRows
<1>2. /\ IsFiniteSet(R) /\ SumOf(f) = SumFunctionOnSet(CostColumn(b), bought) + ShippingTotal(b, bought)
      /\ \A r \in R : GoodsOf(b, RowsOf(b, bought, r)) \in Int /\ ShippingOf(b, bought, r) \in Int
  BY <1>1, ReceiptTotals
<1>3. \A r \in R : f[r] \in Int /\ key[r] \in K
  BY <1>2
<1>4. ASSUME NEW h
      PROVE  /\ Spent(b, p, h) = SumFunctionOnSet(f, Group(R, key, h)) /\ Group(R, key, h) \subseteq R
  <2> DEFINE his == {r \in R : HolderOf(b, bought, r) = h}
             g   == [r \in his |-> GoodsOf(b, RowsOf(b, bought, r)) + ShippingOf(b, bought, r)]
  <2>1. Spent(b, p, h) = SumOf(g) /\ his = Group(R, key, h) /\ DOMAIN g = his /\ his \subseteq R
        /\ \A r \in his : g[r] = f[r]
    BY DEF Spent, Group
  <2>2. IsFiniteSet(his)
    BY <1>2, <2>1, FS_Subset
  <2> HIDE DEF his, g, R, f, key
  <2>. QED
    BY <2>1, <2>2, SumOver
<1>5. SumOf(f) = SumFunctionOnSet(f, R) /\ \A h \in K : part[h] = SumFunctionOnSet(f, Group(R, key, h))
  BY <1>4 DEF SumOf
<1>6. \A h : Spent(b, p, h) \in Int
  <2>. SUFFICES ASSUME NEW h PROVE SumFunctionOnSet(f, Group(R, key, h)) \in Int
    BY <1>4
  <2>1. IsFiniteSet(Group(R, key, h)) /\ \A r \in Group(R, key, h) : f[r] \in Int
    <3>1. Group(R, key, h) \subseteq R
      BY <1>4
    <3>. QED
      BY <1>2, <1>3, <3>1, FS_Subset
  <2> HIDE DEF R, f, key
  <2>. QED
    BY <2>1, SumInt
<1> HIDE DEF bought, R, f, key, part
<1>7. Grouped(f, R, key, K, part)
  BY <1>2, <1>3, <1>5 DEF Grouped
<1>8. SumFunctionOnSet(part, K) = SumFunctionOnSet(f, R)
  BY <1>7, SumGroups
<1>. QED
  BY <1>2, <1>5, <1>6, <1>8 DEF bought, part

LEMMA HoldersAddUp ==
  ASSUME NEW b, Sound(b), NEW p \in Span
  PROVE  SumOf(HolderTotals(b, p)) = Summary(b, p).overall
<1> DEFINE K      == HolderKeys(b, p)
           bought == LiveIn(b.purchases, p)
           inc    == Settled(b, p, "income")
           exp    == Settled(b, p, "expense")
           cash   == CollectedOf(b, LiveIn(b.sales, p))
           fInc   == [h \in K |-> AmountOf(b, HeldBy(b, inc, h))]
           fCash  == [h \in K |-> IF h = BandCash THEN cash ELSE 0]
           fExp   == [h \in K |-> AmountOf(b, HeldBy(b, exp, h))]
           fSpent == [h \in K |-> Spent(b, p, h)]
           fIn    == [h \in K |-> fInc[h] + fCash[h]]
           fOut   == [h \in K |-> fExp[h] + fSpent[h]]
           totals == HolderTotals(b, p)
<1>1. /\ inc \subseteq DOMAIN b.transactions /\ IsFiniteSet(inc)
      /\ exp \subseteq DOMAIN b.transactions /\ IsFiniteSet(exp)
      /\ bought \subseteq DOMAIN b.purchases /\ IsFiniteSet(ReceiptsOf(b, bought))
      /\ LiveIn(b.sales, p) \subseteq DOMAIN b.sales
  BY SettledRows, LiveRows, ReceiptTotals
<1>2. IsFiniteSet(K)
  <2> DEFINE hT == [i \in inc \cup exp |-> b.transactions[i].holder]
             hR == [r \in ReceiptsOf(b, bought) |-> HolderOf(b, bought, r)]
             T  == {hT[i] : i \in inc \cup exp}
             R  == {hR[r] : r \in ReceiptsOf(b, bought)}
             C  == IF cash # 0 THEN {BandCash} ELSE {}
  <2>1. IsFiniteSet(inc \cup exp)
    BY <1>1, FS_Union
  <2>2. IsFiniteSet(T) /\ IsFiniteSet(R)
    BY <1>1, <2>1, ImageFinite
  <2>3. IsFiniteSet(C)
    BY FS_EmptySet, FS_Singleton
  <2>4. K = (T \cup C) \cup R
    BY DEF HolderKeys
  <2> HIDE DEF K, T, C, R
  <2>. QED
    BY <2>2, <2>3, <2>4, FS_Union
<1>3. /\ \A i \in inc : b.transactions[i].holder \in K
      /\ \A i \in exp : b.transactions[i].holder \in K
      /\ \A r \in ReceiptsOf(b, bought) : HolderOf(b, bought, r) \in K
      /\ cash # 0 => BandCash \in K
  BY DEF HolderKeys
<1>4. DOMAIN totals = K
      /\ \A h \in K : totals[h] = fIn[h] - fOut[h]
  BY DEF HolderTotals, Difference
<1>5. cash \in Int
  BY <1>1, SaleSums
<1> HIDE DEF K
<1>6. /\ SumFunctionOnSet(fInc, K) = AmountOf(b, inc) /\ \A h : AmountOf(b, HeldBy(b, inc, h)) \in Int
      /\ SumFunctionOnSet(fExp, K) = AmountOf(b, exp) /\ \A h : AmountOf(b, HeldBy(b, exp, h)) \in Int
  BY <1>1, <1>2, <1>3, HeldAddUp
<1>7. /\ SumFunctionOnSet(fSpent, K) = SumFunctionOnSet(CostColumn(b), bought) + ShippingTotal(b, bought)
      /\ \A h : Spent(b, p, h) \in Int
  BY <1>2, <1>3, SpentAddsUp
<1>8. /\ \A h \in K : fInc[h] \in Int /\ fCash[h] \in Int /\ fExp[h] \in Int /\ fSpent[h] \in Int
      /\ \A h \in K : fIn[h] = fInc[h] + fCash[h] /\ fOut[h] = fExp[h] + fSpent[h]
      /\ \A h \in K : h # BandCash => fCash[h] = 0
      /\ BandCash \in K => fCash[BandCash] = cash
  BY <1>5, <1>6, <1>7
<1> HIDE DEF bought, inc, exp, cash, fInc, fCash, fExp, fSpent, fIn, fOut, totals
<1>9. SumFunctionOnSet(fCash, K) = cash
  <2>1. CASE BandCash \in K
    <3>1. fCash[BandCash] = cash /\ fCash[BandCash] \in Int /\ \A h \in K \ {BandCash} : fCash[h] = 0
      BY <1>5, <1>8, <2>1
    <3>. QED
      BY <1>2, <2>1, <3>1, SumOfOne
  <2>2. CASE BandCash \notin K
    <3>1. \A h \in K : fCash[h] = 0
      BY <1>8, <2>2
    <3>. QED
      BY <1>2, <1>3, <2>2, <3>1, SumZero
  <2>. QED
    BY <2>1, <2>2
<1>10. \A h \in K : fIn[h] \in Int /\ fOut[h] \in Int /\ totals[h] \in Int /\ fIn[h] = fOut[h] + totals[h]
  BY <1>4, <1>8
<1>11. /\ Adds(fIn, fInc, fCash, K) /\ Adds(fOut, fExp, fSpent, K) /\ Adds(fIn, fOut, totals, K)
  BY <1>2, <1>8, <1>10 DEF Adds
<1>12. /\ SumFunctionOnSet(fIn, K) = SumFunctionOnSet(fInc, K) + SumFunctionOnSet(fCash, K)
       /\ SumFunctionOnSet(fOut, K) = SumFunctionOnSet(fExp, K) + SumFunctionOnSet(fSpent, K)
       /\ SumFunctionOnSet(fIn, K) = SumFunctionOnSet(fOut, K) + SumFunctionOnSet(totals, K)
  BY <1>11, SumPlus
<1>13. SumFunctionOnSet(totals, K) \in Int /\ SumOf(totals) = SumFunctionOnSet(totals, K)
  BY <1>2, <1>4, <1>10, SumInt DEF SumOf
<1>14. /\ AmountOf(b, inc) \in Int /\ AmountOf(b, exp) \in Int
       /\ SumFunctionOnSet(CostColumn(b), bought) \in Int /\ ShippingTotal(b, bought) \in Int
  BY <1>1, AmountSums, GoodsSums, ReceiptTotals
<1>15. LET page == Summary(b, p)
       IN  /\ page.collected = cash
           /\ page.cost = SumFunctionOnSet(CostColumn(b), bought) + ShippingTotal(b, bought)
           /\ page.income = AmountOf(b, inc) /\ page.expense = AmountOf(b, exp)
           /\ page.overall = (page.collected - page.cost) + (page.income - page.expense)
  <2>1. cash = SumFunctionOnSet(CollectedColumn(b), LiveIn(b.sales, p))
    BY <1>1, SaleSums DEF cash
  <2>. QED
    BY <2>1, PageByColumn DEF inc, exp, bought
<1>. QED
  BY <1>5, <1>6, <1>7, <1>9, <1>12, <1>13, <1>14, <1>15 DEF totals

-----------------------------------------------------------------------------
LEMMA DaysAreNumbers == ASSUME Sound(Books) PROVE DaysBooked \subseteq Int
<1>1. saleRows \in Seq(SaleRow) /\ purchaseRows \in Seq(PurchaseRow) /\ transactionRows \in Seq(TransactionRow)
  BY DEF Sound, Books
<1>2. /\ \A i \in DOMAIN saleRows : saleRows[i] \in SaleRow
      /\ \A i \in DOMAIN purchaseRows : purchaseRows[i] \in PurchaseRow
      /\ \A i \in DOMAIN transactionRows : transactionRows[i] \in TransactionRow
  BY <1>1, RowsOfSeq
<1>. QED
  BY <1>2 DEF DaysBooked, SaleRow, PurchaseRow, TransactionRow

LEMMA PageAddsUp ==
  ASSUME Sound(Books)
  PROVE  BreakdownsAddUp
<1> SUFFICES ASSUME NEW p \in Span
    PROVE LET page    == Summary(Books, p)
              methods == Methods(Books, p)
              points  == Timeline(Books, p)
              events  == EventRanking(Books, p)
          IN  /\ SumOf(HolderTotals(Books, p)) = page.overall
              /\ SumOf(DailyIncome(Books, p)) = page.collected
              /\ Column(methods, "collected") = page.collected
              /\ Column(methods, "booked") = page.collected + page.outstanding
              /\ page.revenue + page.donation = page.collected + page.outstanding
              /\ Column(ItemRanking(Books, p), "income") = page.collected - page.donation - page.misc
              /\ SumOf(Categories(Books, p, "income")) = page.income
              /\ SumOf(Categories(Books, p, "expense")) = page.expense
              /\ \A c \in {"quantity", "income", "profit"} : Column(points, c) = Column(events, c)
              /\ Column(Inventory(Books, p), "onHand") = page.stock
  <2>1. DaysBooked \subseteq Int
    BY DaysAreNumbers
  <2>2. Periods \subseteq Span
    BY <2>1 DEF Periods, Span
  <2>. QED
    BY <2>2 DEF BreakdownsAddUp
<1>1. Summary(Books, p).income = AmountOf(Books, Settled(Books, p, "income"))
      /\ Summary(Books, p).expense = AmountOf(Books, Settled(Books, p, "expense"))
  BY PageByColumn
<1>2. /\ SumOf(Categories(Books, p, "income")) = Summary(Books, p).income
      /\ SumOf(Categories(Books, p, "expense")) = Summary(Books, p).expense
  BY <1>1, CategoriesAddUp
<1>3. \A c \in {"quantity", "income", "profit"} : Column(Timeline(Books, p), c) = Column(EventRanking(Books, p), c)
  BY OccurrencesAddUp
<1>4. SumOf(HolderTotals(Books, p)) = Summary(Books, p).overall
  BY HoldersAddUp
<1>5. SumOf(DailyIncome(Books, p)) = Summary(Books, p).collected
  BY DaysAddUp
<1>6. /\ Column(Methods(Books, p), "collected") = Summary(Books, p).collected
      /\ Column(Methods(Books, p), "booked") = Summary(Books, p).collected + Summary(Books, p).outstanding
  BY MethodsAddUp
<1>7. Summary(Books, p).revenue + Summary(Books, p).donation = Summary(Books, p).collected + Summary(Books, p).outstanding
  BY BookedIsOwedOrCollected
<1>8. Column(ItemRanking(Books, p), "income") =
        Summary(Books, p).collected - Summary(Books, p).donation - Summary(Books, p).misc
  BY ItemsAddUp
<1>9. Column(Inventory(Books, p), "onHand") = Summary(Books, p).stock
  BY InventoryAddsUp
<1>. QED
  BY <1>2, <1>3, <1>4, <1>5, <1>6, <1>7, <1>8, <1>9

-----------------------------------------------------------------------------
(* Every operation leaves the books sound.                                  *)

SoundSales(table) == table \in Seq(SaleRow) /\ \A i \in DOMAIN table : SoundSale(table[i])

\* What a receipt repeats on its rows is the same on all of them; receipts are numbered
\* in order.
SoundPurchases(table) ==
  /\ table \in Seq(PurchaseRow)
  /\ \A i, j \in DOMAIN table :
       table[i].receipt = table[j].receipt =>
         /\ table[i].on = table[j].on
         /\ table[i].holder = table[j].holder
         /\ table[i].shipping = table[j].shipping
  /\ \A i \in DOMAIN table : table[i].receipt <= LastReceipt(table)

SoundBooks ==
  /\ SoundSales(saleRows) /\ SoundPurchases(purchaseRows)
  /\ transactionRows \in Seq(TransactionRow)
  /\ isActive \in [Variants -> BOOLEAN]

LEMMA BooksAreSound == SoundBooks => Sound(Books)
BY DEF SoundBooks, SoundSales, SoundPurchases, Sound, Books

\* Rows that are edited in place, and rows that are added.
LEMMA EditedRows ==
  ASSUME NEW S, NEW s \in Seq(S), NEW t, t = [i \in DOMAIN s |-> t[i]], \A i \in DOMAIN s : t[i] \in S
  PROVE  t \in Seq(S) /\ DOMAIN t = DOMAIN s /\ Len(t) = Len(s)
<1>1. DOMAIN s = 1..Len(s) /\ Len(s) \in Nat
  OBVIOUS
<1>2. t \in [1..Len(s) -> S]
  BY <1>1
<1>. QED
  BY <1>1, <1>2

LEMMA AddedRows ==
  ASSUME NEW S, NEW s \in Seq(S), NEW n \in Nat, NEW t, t = [i \in 1..n |-> t[i]], \A i \in 1..n : t[i] \in S
  PROVE  /\ t \in Seq(S) /\ s \o t \in Seq(S) /\ Len(s \o t) = Len(s) + n
         /\ \A i \in DOMAIN (s \o t) :
              \/ i \in DOMAIN s /\ (s \o t)[i] = s[i]
              \/ i - Len(s) \in 1..n /\ (s \o t)[i] = t[i - Len(s)]
<1>1. t \in [1..n -> S]
  OBVIOUS
<1>2. t \in Seq(S) /\ Len(t) = n
  BY <1>1
<1>3. s \o t \in Seq(S) /\ Len(s \o t) = Len(s) + n
  BY <1>2
<1>4. ASSUME NEW i \in DOMAIN (s \o t)
      PROVE  \/ i \in DOMAIN s /\ (s \o t)[i] = s[i]
             \/ i - Len(s) \in 1..n /\ (s \o t)[i] = t[i - Len(s)]
  <2>1. i \in 1..(Len(s) + n) /\ DOMAIN s = 1..Len(s)
    BY <1>3
  <2>2. (s \o t)[i] = IF i <= Len(s) THEN s[i] ELSE t[i - Len(s)]
    BY <1>2, <2>1
  <2>. QED
    BY <2>1, <2>2
<1>. QED
  BY <1>2, <1>3, <1>4

LEMMA LastReceiptNat ==
  ASSUME NEW table, table \in Seq(SaleRow) \/ table \in Seq(PurchaseRow)
  PROVE  LastReceipt(table) \in Nat
<1>1. CASE table = <<>>
  BY <1>1 DEF LastReceipt
<1>2. CASE table # <<>>
  <2>1. Len(table) \in DOMAIN table
    BY <1>2
  <2>2. table[Len(table)] \in SaleRow \/ table[Len(table)] \in PurchaseRow
    BY <2>1, RowsOfSeq
  <2>. QED
    BY <1>2, <2>2 DEF LastReceipt, SaleRow, PurchaseRow
<1>. QED
  BY <1>1, <1>2

LEMMA SalesEdited ==
  ASSUME SoundSales(saleRows), NEW t, t = [i \in DOMAIN saleRows |-> t[i]],
         \A i \in DOMAIN saleRows : t[i] \in SaleRow /\ SoundSale(t[i])
  PROVE  SoundSales(t)
BY EditedRows DEF SoundSales

LEMMA SaleCancelled ==
  ASSUME NEW row \in SaleRow, SoundSale(row)
  PROVE  [row EXCEPT !.cancelled = TRUE] \in SaleRow /\ SoundSale([row EXCEPT !.cancelled = TRUE])
BY DEF SaleRow, SoundSale

\* What a payment or another price leaves of a row.
PaidRow(row) == [row EXCEPT !.paid = TRUE, !.discount = 0, !.donation = 0]
PricedRow(row, due, discount, donation) ==
  [row EXCEPT !.due = due, !.discount = discount, !.donation = donation]

LEMMA SalePaid ==
  ASSUME NEW row \in SaleRow, SoundSale(row), row.line = "merchandise"
  PROVE  PaidRow(row) \in SaleRow /\ SoundSale(PaidRow(row))
<1>1. PaidRow(row) \in SaleRow
  <2>1. ASSUME NEW paid \in BOOLEAN, NEW none \in Int
        PROVE  [row EXCEPT !.paid = paid, !.discount = none, !.donation = none] \in SaleRow
    BY DEF SaleRow
  <2>2. TRUE \in BOOLEAN /\ 0 \in Int
    OBVIOUS
  <2>. QED
    BY <2>1, <2>2, Zenon DEF PaidRow
<1>2. /\ PaidRow(row).line = row.line /\ PaidRow(row).variant = row.variant
      /\ PaidRow(row).paid = TRUE
  BY DEF SaleRow, PaidRow
<1> HIDE DEF PaidRow
<1>. QED
  BY <1>1, <1>2 DEF SoundSale

LEMMA SaleRepriced ==
  ASSUME NEW row \in SaleRow, SoundSale(row), row.line = "merchandise",
         NEW due \in Int, NEW discount \in Int, NEW donation \in Int, ~row.paid => donation = 0
  PROVE  /\ PricedRow(row, due, discount, donation) \in SaleRow
         /\ SoundSale(PricedRow(row, due, discount, donation))
<1> DEFINE new == PricedRow(row, due, discount, donation)
<1>1. new \in SaleRow
  BY DEF SaleRow, PricedRow
<1>2. /\ new.line = row.line /\ new.variant = row.variant /\ new.paid = row.paid
      /\ new.donation = donation
  BY DEF SaleRow, PricedRow
<1> HIDE DEF new
<1>3. SoundSale(new)
  BY <1>2 DEF SoundSale
<1>. QED
  BY <1>1, <1>3 DEF new

\* What a position is due, and its discount or donation.
Share(part, paid) ==
  part.due \in Int /\ part.discount \in Int /\ part.donation \in Int /\ (~paid => part.donation = 0)

LEMMA SharedTyped ==
  ASSUME NEW goods \in Seq(Nat), goods # <<>>, NEW cost \in Nat, NEW paid \in BOOLEAN, NEW given \in Int
  PROVE  /\ DOMAIN Shared(goods, cost, paid, given) = DOMAIN goods
         /\ \A i \in DOMAIN goods : Share(Shared(goods, cost, paid, given)[i], paid)
<1> DEFINE total    == SumOf(goods) + cost
           discount == IF paid THEN Discount(total, given) ELSE 0
           donation == IF paid THEN Donation(total, given) ELSE 0
<1>1. SumOf(goods) \in Nat
  <2>1. IsFiniteSet(DOMAIN goods) /\ \A i \in DOMAIN goods : goods[i] \in Nat
    BY RowsOfSeq
  <2>. QED
    BY <2>1, SumNat DEF SumOf
<1>2. discount \in Nat /\ donation \in Nat /\ (~paid => donation = 0)
  <2>1. total \in Int
    BY <1>1
  <2> HIDE DEF total
  <2>. QED
    BY <2>1, Settlement
<1>3. Shared(goods, cost, paid, given) =
        [i \in DOMAIN goods |-> [due |-> goods[i] + Distribute(cost, goods)[i],
                                 discount |-> Distribute(discount, goods)[i],
                                 donation |-> Distribute(donation, goods)[i]]]
  BY DEF Shared
<1> HIDE DEF total, discount, donation
<1>4. \A i \in DOMAIN goods : /\ Distribute(cost, goods)[i] \in Nat /\ Distribute(discount, goods)[i] \in Nat
                              /\ Distribute(donation, goods)[i] \in Nat
  BY <1>2, SharesTyped
<1>5. \A i \in DOMAIN goods : ~paid => Distribute(donation, goods)[i] = 0
  BY <1>2, DistributeNothing
<1>6. \A i \in DOMAIN goods : goods[i] \in Nat
  OBVIOUS
<1>. QED
  BY <1>3, <1>4, <1>5, <1>6 DEF Share

LEMMA BookSaleKeeps ==
  ASSUME SoundBooks, NEW day \in BookDays, NEW basket \in Baskets,
         NEW paid \in BOOLEAN, NEW tip \in Int, BookSale(basket, day, paid, tip)
  PROVE  SoundBooks'
<1> DEFINE lines == basket.lines
           goods == [n \in DOMAIN lines |-> lines[n].goods]
           total == SumOf(goods) + basket.cost
           share == Shared(goods, basket.cost, paid, total + tip)
           new   == [n \in DOMAIN lines |->
              [receipt |-> LastReceipt(saleRows) + 1, on |-> day, line |-> "merchandise",
               variant |-> lines[n].variant, quantity |-> lines[n].quantity, goods |-> goods[n],
               due |-> share[n].due, discount |-> share[n].discount, donation |-> share[n].donation,
               paid |-> paid, ships |-> basket.ships, cancelled |-> FALSE,
               event |-> basket.event, method |-> basket.method]]
<1>1. saleRows' = saleRows \o new /\ UNCHANGED <<purchaseRows, transactionRows, isActive>>
  BY DEF BookSale, SalesBecome
<1>2. /\ lines \in Seq([variant : Variants, quantity : Nat \ {0}, goods : Nat]) /\ lines # <<>>
      /\ basket.cost \in Nat /\ basket.ships \in BOOLEAN /\ day \in Nat /\ NoVariant \notin Variants
  BY BalancesAssumption DEF BalancesAssumption
<1>3. DOMAIN lines = 1..Len(lines) /\ Len(lines) \in Nat
      /\ \A n \in DOMAIN lines : lines[n].variant \in Variants /\ lines[n].quantity \in Nat \ {0} /\ lines[n].goods \in Nat
  <2> DEFINE S == [variant : Variants, quantity : Nat \ {0}, goods : Nat]
  <2>1. lines \in Seq(S)
    BY <1>2
  <2> HIDE DEF S, lines
  <2>2. DOMAIN lines = 1..Len(lines) /\ Len(lines) \in Nat /\ \A n \in DOMAIN lines : lines[n] \in S
    BY <2>1
  <2>. QED
    BY <2>2 DEF S
<1>4. goods \in Seq(Nat) /\ goods # <<>> /\ DOMAIN goods = DOMAIN lines
  <2>1. goods \in [1..Len(lines) -> Nat]
    BY <1>3
  <2>2. Len(lines) # 0
    BY <1>2
  <2> HIDE DEF goods, lines
  <2>3. goods \in Seq(Nat)
    BY <1>3, <2>1
  <2>. QED
    BY <1>3, <2>1, <2>2, <2>3
<1>5. \A n \in DOMAIN lines : Share(share[n], paid)
  <2>1. total + tip \in Int
    <3>1. IsFiniteSet(DOMAIN goods) /\ \A i \in DOMAIN goods : goods[i] \in Nat
      BY <1>4, RowsOfSeq
    <3>2. SumOf(goods) \in Nat
      BY <3>1, SumNat DEF SumOf
    <3>. QED
      BY <1>2, <3>2
  <2> HIDE DEF goods, total, lines
  <2>. QED
    BY <1>2, <1>4, <2>1, SharedTyped
<1>6. ASSUME NEW n \in DOMAIN lines PROVE new[n] \in SaleRow /\ SoundSale(new[n])
  <2>1. LastReceipt(saleRows) \in Nat
    BY LastReceiptNat DEF SoundBooks, SoundSales
  <2>2. basket.event \in {x.event : x \in Baskets \cup Specials} /\ basket.method \in {x.method : x \in Baskets \cup Specials}
    OBVIOUS
  <2>3. goods[n] = lines[n].goods
    OBVIOUS
  <2>4. /\ share[n].due \in Int /\ share[n].discount \in Int /\ share[n].donation \in Int
        /\ ~paid => share[n].donation = 0
    BY <1>5 DEF Share
  <2>5. new[n] = [receipt |-> LastReceipt(saleRows) + 1, on |-> day, line |-> "merchandise",
               variant |-> lines[n].variant, quantity |-> lines[n].quantity, goods |-> goods[n],
               due |-> share[n].due, discount |-> share[n].discount, donation |-> share[n].donation,
               paid |-> paid, ships |-> basket.ships, cancelled |-> FALSE,
               event |-> basket.event, method |-> basket.method]
    OBVIOUS
  <2>6. lines[n].variant \in Variants /\ lines[n].quantity \in Nat \ {0} /\ lines[n].goods \in Nat
    BY <1>3
  <2> HIDE DEF new, share, goods, lines
  <2>. QED
    BY <1>2, <2>1, <2>2, <2>3, <2>4, <2>5, <2>6 DEF SaleRow, SoundSale
<1>7. new = [i \in 1..Len(lines) |-> new[i]]
  BY <1>3
<1>8. SoundSales(saleRows')
  <2> HIDE DEF new, lines
  <2>1. saleRows \in Seq(SaleRow) /\ \A i \in DOMAIN saleRows : SoundSale(saleRows[i])
    BY DEF SoundBooks, SoundSales
  <2>2. /\ saleRows \o new \in Seq(SaleRow)
        /\ \A i \in DOMAIN (saleRows \o new) :
             \/ i \in DOMAIN saleRows /\ (saleRows \o new)[i] = saleRows[i]
             \/ i - Len(saleRows) \in 1..Len(lines) /\ (saleRows \o new)[i] = new[i - Len(saleRows)]
    BY <1>3, <1>6, <1>7, <2>1, AddedRows
  <2>. QED
    BY <1>1, <1>3, <1>6, <2>1, <2>2 DEF SoundSales
<1>. QED
  BY <1>1, <1>8 DEF SoundBooks

LEMMA BookOtherKeeps ==
  ASSUME SoundBooks, NEW day \in BookDays, NEW special \in Specials, BookOther(special, day)
  PROVE  SoundBooks'
<1> DEFINE donated == special.line = "donation"
           row == [receipt |-> LastReceipt(saleRows) + 1, on |-> day, line |-> special.line,
         variant |-> NoVariant, quantity |-> 1, goods |-> 0,
         due |-> IF donated THEN 0 ELSE special.amount, discount |-> 0,
         donation |-> IF donated THEN special.amount ELSE 0,
         paid |-> TRUE, ships |-> FALSE, cancelled |-> FALSE,
         event |-> special.event, method |-> special.method]
<1>1. saleRows' = Append(saleRows, row) /\ UNCHANGED <<purchaseRows, transactionRows, isActive>>
  BY DEF BookOther, SalesBecome
<1>2. row \in SaleRow /\ SoundSale(row)
  <2>1. LastReceipt(saleRows) \in Nat /\ day \in Nat
    BY LastReceiptNat, BalancesAssumption DEF SoundBooks, SoundSales, BalancesAssumption
  <2>2. special.line \in {"donation", "misc_income"} /\ special.amount \in Nat
    BY BalancesAssumption DEF BalancesAssumption
  <2>. QED
    BY <2>1, <2>2 DEF SaleRow, SoundSale
<1> HIDE DEF row
<1>3. SoundSales(saleRows')
  BY <1>1, <1>2 DEF SoundBooks, SoundSales
<1>. QED
  BY <1>1, <1>3 DEF SoundBooks

LEMMA PaySaleKeeps ==
  ASSUME SoundBooks, NEW r, PaySale(r)
  PROVE  SoundBooks'
<1> DEFINE open == {i \in Counted(saleRows, r) : ~saleRows[i].paid}
           new  == [i \in DOMAIN saleRows |->
                     IF i \in open THEN PaidRow(saleRows[i]) ELSE saleRows[i]]
<1>1. saleRows' = new /\ UNCHANGED <<purchaseRows, transactionRows, isActive>>
  BY DEF PaySale, SalesBecome, PaidRow
<1>2. ASSUME NEW i \in DOMAIN saleRows PROVE new[i] \in SaleRow /\ SoundSale(new[i])
  <2>1. saleRows[i] \in SaleRow /\ SoundSale(saleRows[i])
    BY RowsOfSeq DEF SoundBooks, SoundSales
  <2>2. i \in open => saleRows[i].line = "merchandise"
    BY <2>1 DEF SoundSale
  <2>. QED
    BY <2>1, <2>2, SalePaid
<1> HIDE DEF open
<1>3. SoundSales(new)
  <2>1. new = [i \in DOMAIN saleRows |-> new[i]]
    OBVIOUS
  <2> HIDE DEF new
  <2>. QED
    BY <1>2, <2>1, SalesEdited DEF SoundBooks
<1>. QED
  BY <1>1, <1>3 DEF SoundBooks

LEMMA ChangeShippingKeeps ==
  ASSUME SoundBooks, NEW r, NEW cost \in Nat, ChangeShipping(r, cost)
  PROVE  SoundBooks'
<1> DEFINE ids == Counted(saleRows, r)
<1>1. /\ ids # {} /\ \A i, j \in ids : saleRows[i].ships /\ saleRows[i].paid = saleRows[j].paid
  BY DEF ChangeShipping
<1> DEFINE share(order) == Shared([k \in DOMAIN order |-> saleRows[order[k]].goods], cost,
                                  saleRows[order[1]].paid, CollectedOf(Books, ids))
           at(order, i) == CHOOSE k \in DOMAIN order : order[k] = i
<1>2. PICK order \in [1..Cardinality(ids) -> ids] :
        /\ Range(order) = ids
        /\ SalesBecome([i \in DOMAIN saleRows |->
             IF i \in ids THEN [saleRows[i] EXCEPT !.due = share(order)[at(order, i)].due,
                                                   !.discount = share(order)[at(order, i)].discount,
                                                   !.donation = share(order)[at(order, i)].donation]
             ELSE saleRows[i]])
  BY DEF ChangeShipping
<1> DEFINE goods == [k \in DOMAIN order |-> saleRows[order[k]].goods]
           paid  == saleRows[order[1]].paid
           part  == Shared(goods, cost, paid, CollectedOf(Books, ids))
           new   == [i \in DOMAIN saleRows |->
             IF i \in ids THEN PricedRow(saleRows[i], part[at(order, i)].due, part[at(order, i)].discount,
                                          part[at(order, i)].donation)
             ELSE saleRows[i]]
<1>3. saleRows' = new /\ UNCHANGED <<purchaseRows, transactionRows, isActive>>
  BY <1>2 DEF SalesBecome, PricedRow
<1>4. /\ ids \subseteq DOMAIN saleRows /\ IsFiniteSet(ids)
      /\ \A i \in DOMAIN saleRows : saleRows[i] \in SaleRow /\ SoundSale(saleRows[i])
  <2>1. saleRows \in Seq(SaleRow) /\ \A i \in DOMAIN saleRows : SoundSale(saleRows[i])
    BY DEF SoundBooks, SoundSales
  <2>2. ids \subseteq DOMAIN saleRows
    BY DEF Counted, OfReceipt
  <2>. QED
    BY <2>1, <2>2, RowsOfSeq
<1> HIDE DEF ids
<1>5. Cardinality(ids) \in Nat \ {0}
  BY <1>1, <1>4, FS_CardinalityType, FS_EmptySet
<1>6. DOMAIN order = 1..Cardinality(ids) /\ \A k \in DOMAIN order : order[k] \in ids
  OBVIOUS
<1>7. goods \in Seq(Nat) /\ goods # <<>> /\ DOMAIN goods = DOMAIN order
  <2>1. \A k \in DOMAIN order : saleRows[order[k]].goods \in Nat
    BY <1>4, <1>6 DEF SaleRow
  <2>2. goods \in [1..Cardinality(ids) -> Nat]
    BY <1>6, <2>1
  <2>3. DOMAIN goods = DOMAIN order
    OBVIOUS
  <2> HIDE DEF goods
  <2>4. goods \in Seq(Nat)
    BY <1>5, <2>2
  <2>5. goods # <<>>
    BY <1>5, <2>2
  <2>. QED
    BY <2>3, <2>4, <2>5
<1>8. paid \in BOOLEAN /\ \A i \in ids : saleRows[i].paid = paid
  <2>1. 1 \in DOMAIN order
    BY <1>5, <1>6
  <2>. QED
    BY <1>1, <1>4, <1>6, <2>1 DEF SaleRow
<1>9. CollectedOf(Books, ids) \in Int
  <2>1. Sound(Books) /\ Books.sales = saleRows
    BY BooksAreSound DEF Books
  <2>2. /\ CollectedOf(Books, ids) = SumFunctionOnSet(CollectedColumn(Books), ids)
        /\ SumFunctionOnSet(CollectedColumn(Books), ids) =
             SumFunctionOnSet(IncomeColumn(Books), ids) + SumFunctionOnSet(DonatedColumn(Books), ids)
        /\ SumFunctionOnSet(IncomeColumn(Books), ids) \in Int /\ SumFunctionOnSet(DonatedColumn(Books), ids) \in Int
    BY <1>4, <2>1, SaleSums
  <2>. QED
    BY <2>2
<1>10. \A k \in DOMAIN order : Share(part[k], paid)
  <2> HIDE DEF goods, paid
  <2>. QED
    BY <1>7, <1>8, <1>9, SharedTyped
<1>11. \A i \in ids : at(order, i) \in DOMAIN order
  BY <1>2 DEF Range
<1>12. ASSUME NEW i \in DOMAIN saleRows PROVE new[i] \in SaleRow /\ SoundSale(new[i])
  <2>1. saleRows[i] \in SaleRow /\ SoundSale(saleRows[i])
    BY <1>4
  <2>2. CASE i \notin ids
    BY <2>1, <2>2
  <2>3. CASE i \in ids
    <3> DEFINE q == part[at(order, i)]
    <3>1. saleRows[i].line = "merchandise" /\ saleRows[i].paid = paid
      BY <1>1, <1>8, <2>1, <2>3 DEF SoundSale
    <3>2. Share(q, paid)
      BY <1>10, <1>11, <2>3
    <3>3. new[i] = PricedRow(saleRows[i], q.due, q.discount, q.donation)
      BY <2>3
    <3> HIDE DEF q, new, paid
    <3>. QED
      BY <2>1, <3>1, <3>2, <3>3, SaleRepriced DEF Share
  <2>. QED
    BY <2>2, <2>3
<1>13. SoundSales(new)
  <2>1. new = [i \in DOMAIN saleRows |-> new[i]]
    OBVIOUS
  <2> HIDE DEF new
  <2>. QED
    BY <1>12, <2>1, SalesEdited DEF SoundBooks
<1>. QED
  BY <1>3, <1>13 DEF SoundBooks

LEMMA CancelSalesKeeps ==
  ASSUME SoundBooks, NEW i, NEW scope, CancelSales(i, scope)
  PROVE  SoundBooks'
<1>1. PICK ids : saleRows' = CancelledIn(saleRows, ids) /\ UNCHANGED <<purchaseRows, transactionRows, isActive>>
  BY DEF CancelSales, SalesBecome
<1> DEFINE new == CancelledIn(saleRows, ids)
<1>2. ASSUME NEW k \in DOMAIN saleRows PROVE new[k] \in SaleRow /\ SoundSale(new[k])
  <2>1. saleRows[k] \in SaleRow /\ SoundSale(saleRows[k])
    BY RowsOfSeq DEF SoundBooks, SoundSales
  <2>. QED
    BY <2>1, SaleCancelled DEF CancelledIn
<1>3. new = [k \in DOMAIN saleRows |-> new[k]]
  BY DEF CancelledIn
<1> HIDE DEF new
<1>4. SoundSales(new)
  BY <1>2, <1>3, SalesEdited DEF SoundBooks
<1>. QED
  BY <1>1, <1>4 DEF SoundBooks, new

\* Rows of a receipt that agreed before they were edited and agree afterwards.
LEMMA PurchasesEdited ==
  ASSUME SoundPurchases(purchaseRows), NEW t, t = [i \in DOMAIN purchaseRows |-> t[i]],
         \A i \in DOMAIN purchaseRows : t[i] \in PurchaseRow /\ t[i].receipt = purchaseRows[i].receipt,
         \A i, j \in DOMAIN purchaseRows :
           purchaseRows[i].receipt = purchaseRows[j].receipt =>
             t[i].on = t[j].on /\ t[i].holder = t[j].holder /\ t[i].shipping = t[j].shipping
  PROVE  SoundPurchases(t)
<1>1. purchaseRows \in Seq(PurchaseRow)
  BY DEF SoundPurchases
<1>2. t \in Seq(PurchaseRow) /\ DOMAIN t = DOMAIN purchaseRows /\ Len(t) = Len(purchaseRows)
  BY <1>1, EditedRows
<1>3. LastReceipt(t) = LastReceipt(purchaseRows)
  <2>1. CASE purchaseRows = <<>>
    BY <1>1, <1>2, <2>1 DEF LastReceipt
  <2>2. CASE purchaseRows # <<>>
    <3>1. t # <<>> /\ Len(t) \in DOMAIN t
      BY <1>1, <1>2, <2>2
    <3>. QED
      BY <1>2, <2>2, <3>1 DEF LastReceipt
  <2>. QED
    BY <2>1, <2>2
<1>4. \A i, j \in DOMAIN t :
        t[i].receipt = t[j].receipt => /\ t[i].on = t[j].on /\ t[i].holder = t[j].holder
                                       /\ t[i].shipping = t[j].shipping
  BY <1>2
<1>5. \A i \in DOMAIN t : t[i].receipt <= LastReceipt(t)
  BY <1>2, <1>3 DEF SoundPurchases
<1>. QED
  BY <1>2, <1>4, <1>5 DEF SoundPurchases

LEMMA PurchaseKeeps ==
  ASSUME SoundBooks, NEW day \in BookDays, NEW delivery \in Deliveries, Purchase(delivery, day)
  PROVE  SoundBooks'
<1> DEFINE lines == delivery.lines
           last  == LastReceipt(purchaseRows)
           new   == [n \in DOMAIN lines |->
              [receipt |-> last + 1, on |-> day, variant |-> lines[n].variant,
               quantity |-> lines[n].quantity, cost |-> lines[n].cost,
               shipping |-> delivery.shipping, holder |-> delivery.holder, cancelled |-> FALSE]]
           table == purchaseRows \o new
<1>1. purchaseRows' = table /\ UNCHANGED <<saleRows, transactionRows, isActive>>
  BY DEF Purchase, PurchasesBecome
<1>2. /\ lines \in Seq([variant : Variants, quantity : Nat \ {0}, cost : Nat]) /\ lines # <<>>
      /\ delivery.shipping \in Nat /\ delivery.holder \in Holders /\ day \in Nat
  BY BalancesAssumption DEF BalancesAssumption
<1>3. DOMAIN lines = 1..Len(lines) /\ Len(lines) \in Nat \ {0}
      /\ \A n \in DOMAIN lines : lines[n].variant \in Variants /\ lines[n].quantity \in Nat \ {0} /\ lines[n].cost \in Nat
  <2> DEFINE S == [variant : Variants, quantity : Nat \ {0}, cost : Nat]
  <2>1. lines \in Seq(S) /\ lines # <<>>
    BY <1>2
  <2> HIDE DEF S, lines
  <2>2. DOMAIN lines = 1..Len(lines) /\ Len(lines) \in Nat \ {0} /\ \A n \in DOMAIN lines : lines[n] \in S
    BY <2>1
  <2>. QED
    BY <2>2 DEF S
<1>4. last \in Nat /\ purchaseRows \in Seq(PurchaseRow)
  BY LastReceiptNat DEF SoundBooks, SoundPurchases
<1>5. ASSUME NEW n \in DOMAIN lines
      PROVE  /\ new[n] \in PurchaseRow /\ new[n].receipt = last + 1 /\ new[n].on = day
             /\ new[n].holder = delivery.holder /\ new[n].shipping = delivery.shipping
  <2>1. new[n] = [receipt |-> last + 1, on |-> day, variant |-> lines[n].variant,
               quantity |-> lines[n].quantity, cost |-> lines[n].cost,
               shipping |-> delivery.shipping, holder |-> delivery.holder, cancelled |-> FALSE]
    OBVIOUS
  <2>2. lines[n].variant \in Variants /\ lines[n].quantity \in Nat \ {0} /\ lines[n].cost \in Nat
    BY <1>3
  <2> HIDE DEF new, lines, last
  <2>. QED
    BY <1>2, <1>4, <2>1, <2>2 DEF PurchaseRow
<1>6. new = [i \in 1..Len(lines) |-> new[i]] /\ \A i \in 1..Len(lines) : new[i] \in PurchaseRow
  BY <1>3, <1>5
<1> HIDE DEF new, lines, last
<1>7. /\ table \in Seq(PurchaseRow) /\ Len(table) = Len(purchaseRows) + Len(lines)
      /\ \A i \in DOMAIN table :
           \/ i \in DOMAIN purchaseRows /\ table[i] = purchaseRows[i]
           \/ i - Len(purchaseRows) \in 1..Len(lines) /\ table[i] = new[i - Len(purchaseRows)]
  BY <1>3, <1>4, <1>6, AddedRows
<1>8. \A i \in DOMAIN table :
        \/ i \in DOMAIN purchaseRows /\ table[i] = purchaseRows[i]
        \/ /\ table[i].receipt = last + 1 /\ table[i].on = day
           /\ table[i].holder = delivery.holder /\ table[i].shipping = delivery.shipping
  BY <1>3, <1>5, <1>7
<1>9. \A i \in DOMAIN purchaseRows : purchaseRows[i].receipt \in Nat /\ purchaseRows[i].receipt <= last
  <2>1. \A i \in DOMAIN purchaseRows : purchaseRows[i] \in PurchaseRow
    BY <1>4, RowsOfSeq
  <2>. QED
    BY <2>1 DEF SoundBooks, SoundPurchases, PurchaseRow, last
<1>10. LastReceipt(table) = last + 1
  <2>1. table # <<>> /\ Len(table) \in DOMAIN table /\ Len(table) > Len(purchaseRows)
    BY <1>3, <1>4, <1>7
  <2>2. Len(table) \notin DOMAIN purchaseRows
    BY <1>4, <2>1
  <2>3. table[Len(table)].receipt = last + 1
    BY <1>8, <2>1, <2>2
  <2> HIDE DEF table
  <2>. QED
    BY <2>1, <2>3 DEF LastReceipt
<1> HIDE DEF table
<1>11. ASSUME NEW i \in DOMAIN table, NEW j \in DOMAIN table, table[i].receipt = table[j].receipt
       PROVE  table[i].on = table[j].on /\ table[i].holder = table[j].holder /\ table[i].shipping = table[j].shipping
  <2>1. CASE i \in DOMAIN purchaseRows /\ table[i] = purchaseRows[i] /\ j \in DOMAIN purchaseRows /\ table[j] = purchaseRows[j]
    BY <1>11, <2>1 DEF SoundBooks, SoundPurchases
  <2>2. CASE table[i].receipt = last + 1
    <3>. DEFINE added(k) == k \notin DOMAIN purchaseRows \/ table[k] # purchaseRows[k]
    <3>0. ASSUME NEW k \in DOMAIN table, table[k].receipt = last + 1 PROVE added(k)
      BY <1>4, <1>9, <3>0
    <3>1. added(j)
      BY <1>11, <2>2, <3>0
    <3>2. added(i)
      BY <2>2, <3>0
    <3>. QED
      BY <1>8, <3>1, <3>2
  <2>3. CASE table[j].receipt = last + 1
    BY <1>11, <2>2, <2>3
  <2>. QED
    BY <1>8, <2>1, <2>2, <2>3
<1>12. \A i \in DOMAIN table : table[i].receipt <= LastReceipt(table)
  <2>. SUFFICES ASSUME NEW i \in DOMAIN table PROVE table[i].receipt <= last + 1
    BY <1>10
  <2>. QED
    BY <1>4, <1>8, <1>9
<1>13. SoundPurchases(table)
  BY <1>7, <1>11, <1>12 DEF SoundPurchases
<1>. QED
  BY <1>1, <1>13 DEF SoundBooks

LEMMA CorrectPurchaseKeeps ==
  ASSUME SoundBooks, NEW i \in DOMAIN purchaseRows, NEW delivery \in Deliveries,
         CorrectPurchase(i, delivery.lines[1])
  PROVE  SoundBooks'
<1> DEFINE line == delivery.lines[1]
           new  == [purchaseRows EXCEPT ![i].variant = line.variant, ![i].quantity = line.quantity,
                                        ![i].cost = line.cost]
<1>1. purchaseRows' = new /\ UNCHANGED <<saleRows, transactionRows, isActive>>
  BY DEF CorrectPurchase, PurchasesBecome
<1>2. line.variant \in Variants /\ line.quantity \in Nat \ {0} /\ line.cost \in Nat
  <2> DEFINE S == [variant : Variants, quantity : Nat \ {0}, cost : Nat]
             lines == delivery.lines
  <2>1. lines \in Seq(S) /\ lines # <<>>
    BY BalancesAssumption DEF BalancesAssumption
  <2> HIDE DEF S, lines
  <2>2. lines[1] \in S
    BY <2>1
  <2>. QED
    BY <2>2 DEF S, lines
<1> HIDE DEF line
<1>3. \A k \in DOMAIN purchaseRows : purchaseRows[k] \in PurchaseRow
  <2>1. purchaseRows \in Seq(PurchaseRow)
    BY DEF SoundBooks, SoundPurchases
  <2>. QED
    BY <2>1, RowsOfSeq
<1>4. ASSUME NEW row \in PurchaseRow
      PROVE  LET edited == [row EXCEPT !.variant = line.variant, !.quantity = line.quantity, !.cost = line.cost]
             IN  /\ edited \in PurchaseRow /\ edited.receipt = row.receipt /\ edited.on = row.on
                 /\ edited.holder = row.holder /\ edited.shipping = row.shipping
  BY <1>2 DEF PurchaseRow
<1>5. new = [k \in DOMAIN purchaseRows |->
               IF k = i THEN [purchaseRows[i] EXCEPT !.variant = line.variant, !.quantity = line.quantity,
                                                     !.cost = line.cost]
               ELSE purchaseRows[k]]
  OBVIOUS
<1> HIDE DEF new
<1>6. \A k \in DOMAIN purchaseRows :
        /\ new[k] \in PurchaseRow /\ new[k].receipt = purchaseRows[k].receipt /\ new[k].on = purchaseRows[k].on
        /\ new[k].holder = purchaseRows[k].holder /\ new[k].shipping = purchaseRows[k].shipping
  BY <1>3, <1>4, <1>5
<1>7. new = [k \in DOMAIN purchaseRows |-> new[k]]
  BY <1>5
<1>8. SoundPurchases(new)
  <2>1. \A j, k \in DOMAIN purchaseRows :
          purchaseRows[j].receipt = purchaseRows[k].receipt =>
            new[j].on = new[k].on /\ new[j].holder = new[k].holder /\ new[j].shipping = new[k].shipping
    BY <1>6 DEF SoundBooks, SoundPurchases
  <2>. QED
    BY <1>6, <1>7, <2>1, PurchasesEdited DEF SoundBooks
<1>. QED
  BY <1>1, <1>8 DEF SoundBooks

\* A row of a receipt with what the receipt repeats on it.
CorrectedRow(row, day, holder, shipping, quantity, cost) ==
  [row EXCEPT !.on = day, !.holder = holder, !.shipping = shipping, !.quantity = quantity, !.cost = cost]

LEMMA CorrectReceiptKeeps ==
  ASSUME SoundBooks, NEW r, NEW delivery \in Deliveries, NEW day \in BookDays,
         CorrectReceipt(r, delivery, day)
  PROVE  SoundBooks'
<1> DEFINE line == delivery.lines[1]
           edited(row) ==
             [row EXCEPT !.on = day, !.holder = delivery.holder, !.shipping = delivery.shipping,
                         !.quantity = IF row.cancelled THEN @ ELSE line.quantity,
                         !.cost = IF row.cancelled THEN @ ELSE line.cost]
           new  == [i \in DOMAIN purchaseRows |->
                      IF i \in OfReceipt(purchaseRows, r) THEN edited(purchaseRows[i]) ELSE purchaseRows[i]]
<1>1. purchaseRows' = new /\ UNCHANGED <<saleRows, transactionRows, isActive>>
  BY DEF CorrectReceipt, PurchasesBecome
<1>2. /\ line.quantity \in Nat \ {0} /\ line.cost \in Nat
      /\ delivery.shipping \in Nat /\ delivery.holder \in Holders /\ day \in Nat
  <2> DEFINE S == [variant : Variants, quantity : Nat \ {0}, cost : Nat]
             lines == delivery.lines
  <2>1. lines \in Seq(S) /\ lines # <<>>
    BY BalancesAssumption DEF BalancesAssumption
  <2>2. delivery.shipping \in Nat /\ delivery.holder \in Holders /\ day \in Nat
    BY BalancesAssumption DEF BalancesAssumption
  <2> HIDE DEF S, lines
  <2>3. lines[1] \in S
    BY <2>1
  <2>. QED
    BY <2>2, <2>3 DEF S, lines
<1> HIDE DEF line
<1>3. \A k \in DOMAIN purchaseRows : purchaseRows[k] \in PurchaseRow
  <2>1. purchaseRows \in Seq(PurchaseRow)
    BY DEF SoundBooks, SoundPurchases
  <2>. QED
    BY <2>1, RowsOfSeq
<1>4. ASSUME NEW row \in PurchaseRow
      PROVE  /\ edited(row) \in PurchaseRow /\ edited(row).receipt = row.receipt /\ edited(row).on = day
             /\ edited(row).holder = delivery.holder /\ edited(row).shipping = delivery.shipping
  <2> DEFINE e(quantity, cost) ==
               CorrectedRow(row, day, delivery.holder, delivery.shipping, quantity, cost)
             kept(x) == /\ x \in PurchaseRow /\ x.receipt = row.receipt /\ x.on = day
                        /\ x.holder = delivery.holder /\ x.shipping = delivery.shipping
  <2>1. row.quantity \in Nat \ {0} /\ row.cost \in Nat
    BY DEF PurchaseRow
  <2>2. ASSUME NEW quantity \in Nat \ {0}, NEW cost \in Nat PROVE kept(e(quantity, cost))
    <3>1. delivery.shipping \in Nat /\ delivery.holder \in Holders /\ day \in Nat
      BY <1>2
    <3>. QED
      BY <3>1 DEF PurchaseRow, CorrectedRow
  <2>3. edited(row) = IF row.cancelled THEN e(row.quantity, row.cost) ELSE e(line.quantity, line.cost)
    BY DEF PurchaseRow, CorrectedRow
  <2> HIDE DEF e, kept, edited
  <2>4. kept(e(row.quantity, row.cost)) /\ kept(e(line.quantity, line.cost))
    BY <1>2, <2>1, <2>2
  <2>5. kept(edited(row))
    BY <2>3, <2>4
  <2>. QED
    BY <2>5 DEF kept
<1> HIDE DEF edited
<1>5. new = [k \in DOMAIN purchaseRows |-> new[k]]
  OBVIOUS
<1>6. \A k \in DOMAIN purchaseRows : new[k] \in PurchaseRow /\ new[k].receipt = purchaseRows[k].receipt
  BY <1>3, <1>4
<1>7. ASSUME NEW j \in DOMAIN purchaseRows, NEW k \in DOMAIN purchaseRows,
             purchaseRows[j].receipt = purchaseRows[k].receipt
      PROVE  new[j].on = new[k].on /\ new[j].holder = new[k].holder /\ new[j].shipping = new[k].shipping
  <2>1. j \in OfReceipt(purchaseRows, r) <=> k \in OfReceipt(purchaseRows, r)
    BY <1>7 DEF OfReceipt
  <2>2. CASE j \in OfReceipt(purchaseRows, r)
    BY <1>3, <1>4, <2>1, <2>2
  <2>3. CASE j \notin OfReceipt(purchaseRows, r)
    BY <1>7, <2>1, <2>3 DEF SoundBooks, SoundPurchases
  <2>. QED
    BY <2>2, <2>3
<1> HIDE DEF new
<1>8. SoundPurchases(new)
  BY <1>5, <1>6, <1>7, PurchasesEdited DEF SoundBooks
<1>. QED
  BY <1>1, <1>8 DEF SoundBooks

LEMMA CancelPurchasesKeeps ==
  ASSUME SoundBooks, NEW ids, CancelPurchases(ids)
  PROVE  SoundBooks'
<1> DEFINE new == CancelledIn(purchaseRows, ids)
<1>1. purchaseRows' = new /\ UNCHANGED <<saleRows, transactionRows, isActive>>
  BY DEF CancelPurchases, PurchasesBecome
<1>2. \A k \in DOMAIN purchaseRows : purchaseRows[k] \in PurchaseRow
  <2>1. purchaseRows \in Seq(PurchaseRow)
    BY DEF SoundBooks, SoundPurchases
  <2>. QED
    BY <2>1, RowsOfSeq
<1>3. ASSUME NEW row \in PurchaseRow
      PROVE  LET cancelled == [row EXCEPT !.cancelled = TRUE]
             IN  /\ cancelled \in PurchaseRow /\ cancelled.receipt = row.receipt /\ cancelled.on = row.on
                 /\ cancelled.holder = row.holder /\ cancelled.shipping = row.shipping
  BY DEF PurchaseRow
<1>4. \A k \in DOMAIN purchaseRows :
        /\ new[k] \in PurchaseRow /\ new[k].receipt = purchaseRows[k].receipt /\ new[k].on = purchaseRows[k].on
        /\ new[k].holder = purchaseRows[k].holder /\ new[k].shipping = purchaseRows[k].shipping
  BY <1>2, <1>3 DEF CancelledIn
<1>5. new = [k \in DOMAIN purchaseRows |-> new[k]]
  BY DEF CancelledIn
<1> HIDE DEF new
<1>6. SoundPurchases(new)
  <2>1. \A j, k \in DOMAIN purchaseRows :
          purchaseRows[j].receipt = purchaseRows[k].receipt =>
            new[j].on = new[k].on /\ new[j].holder = new[k].holder /\ new[j].shipping = new[k].shipping
    BY <1>4 DEF SoundBooks, SoundPurchases
  <2>. QED
    BY <1>4, <1>5, <2>1, PurchasesEdited DEF SoundBooks
<1>. QED
  BY <1>1, <1>6 DEF SoundBooks

LEMMA TransactionTyped ==
  ASSUME NEW t \in Transactions, NEW day \in BookDays, NEW settled \in BOOLEAN
  PROVE  Transaction(t, day, settled) \in TransactionRow
<1>1. /\ t.type \in {"income", "expense"} /\ t.amount \in Nat /\ t.holder \in Holders /\ t.asset \in BOOLEAN
      /\ day \in Nat /\ t.category \in {x.category : x \in Transactions}
  BY BalancesAssumption DEF BalancesAssumption
<1>. QED
  BY <1>1 DEF Transaction, TransactionRow

\* A transaction entered, and one that is changed, settled or cancelled.
LEMMA TransactionsKeep ==
  ASSUME SoundBooks, NEW table, TransactionsBecome(table),
         \/ \E row \in TransactionRow : table = Append(transactionRows, row)
         \/ /\ table = [k \in DOMAIN transactionRows |-> table[k]]
            /\ \A k \in DOMAIN transactionRows : table[k] \in TransactionRow
  PROVE  SoundBooks'
<1>1. table \in Seq(TransactionRow)
  BY EditedRows DEF SoundBooks
<1>. QED
  BY <1>1 DEF SoundBooks, TransactionsBecome

LEMMA TransactionsOneRow ==
  ASSUME SoundBooks, NEW i \in DOMAIN transactionRows,
         \/ \E t \in Transactions, day \in BookDays : ChangeTransaction(i, t, day)
         \/ SettleTransaction(i) \/ CancelTransaction(i)
  PROVE  SoundBooks'
<1>1. \A k \in DOMAIN transactionRows : transactionRows[k] \in TransactionRow
  BY RowsOfSeq DEF SoundBooks
<1>2. CASE \E t \in Transactions, day \in BookDays : ChangeTransaction(i, t, day)
  <2>1. PICK t \in Transactions, day \in BookDays : ChangeTransaction(i, t, day)
    BY <1>2
  <2> DEFINE new == [transactionRows EXCEPT ![i] = Transaction(t, day, FALSE)]
  <2>2. Transaction(t, day, FALSE) \in TransactionRow
    BY TransactionTyped
  <2>3. new = [k \in DOMAIN transactionRows |-> new[k]] /\ \A k \in DOMAIN transactionRows : new[k] \in TransactionRow
    BY <1>1, <2>2
  <2>4. TransactionsBecome(new)
    BY <2>1 DEF ChangeTransaction
  <2> HIDE DEF new
  <2>. QED
    BY <2>3, <2>4, TransactionsKeep
<1>3. CASE SettleTransaction(i)
  <2> DEFINE new == [transactionRows EXCEPT ![i].settled = TRUE]
  <2>1. [transactionRows[i] EXCEPT !.settled = TRUE] \in TransactionRow
    <3>1. ASSUME NEW row \in TransactionRow PROVE [row EXCEPT !.settled = TRUE] \in TransactionRow
      BY DEF TransactionRow
    <3>. QED
      BY <1>1, <3>1
  <2>2. new = [k \in DOMAIN transactionRows |->
                 IF k = i THEN [transactionRows[i] EXCEPT !.settled = TRUE] ELSE transactionRows[k]]
    OBVIOUS
  <2>3. TransactionsBecome(new)
    BY <1>3 DEF SettleTransaction
  <2> HIDE DEF new
  <2>4. new = [k \in DOMAIN transactionRows |-> new[k]] /\ \A k \in DOMAIN transactionRows : new[k] \in TransactionRow
    BY <1>1, <2>1, <2>2
  <2>. QED
    BY <2>3, <2>4, TransactionsKeep
<1>4. CASE CancelTransaction(i)
  <2> DEFINE new == CancelledIn(transactionRows, {i})
  <2>1. ASSUME NEW row \in TransactionRow PROVE [row EXCEPT !.cancelled = TRUE] \in TransactionRow
    BY DEF TransactionRow
  <2>2. new = [k \in DOMAIN transactionRows |-> new[k]] /\ \A k \in DOMAIN transactionRows : new[k] \in TransactionRow
    BY <1>1, <2>1 DEF CancelledIn
  <2>3. TransactionsBecome(new)
    BY <1>4 DEF CancelTransaction
  <2> HIDE DEF new
  <2>. QED
    BY <2>2, <2>3, TransactionsKeep
<1>. QED
  BY <1>2, <1>3, <1>4

LEMMA BooksStart == BalancesInit => SoundBooks
<1> SUFFICES ASSUME BalancesInit PROVE SoundBooks
  OBVIOUS
<1>1. saleRows \in Seq(SaleRow) /\ DOMAIN saleRows = {}
  BY DEF BalancesInit
<1>2. purchaseRows \in Seq(PurchaseRow) /\ DOMAIN purchaseRows = {}
  BY DEF BalancesInit
<1>3. transactionRows \in Seq(TransactionRow) /\ isActive \in [Variants -> BOOLEAN]
  BY DEF BalancesInit
<1>. QED
  BY <1>1, <1>2, <1>3 DEF SoundBooks, SoundSales, SoundPurchases

LEMMA BooksStep == ASSUME SoundBooks, [BalancesNext]_balanceVars PROVE SoundBooks'
<1>1. CASE UNCHANGED balanceVars
  BY <1>1 DEF balanceVars, SoundBooks, SoundSales, SoundPurchases, LastReceipt
<1>2. ASSUME NEW day \in BookDays, NEW basket \in Baskets, BookSale(basket, day, FALSE, 0)
      PROVE  SoundBooks'
  <2>1. FALSE \in BOOLEAN /\ 0 \in Int
    OBVIOUS
  <2>. QED
    BY <1>2, <2>1, BookSaleKeeps, Zenon
<1>3. ASSUME NEW day \in BookDays, NEW basket \in Baskets, NEW tip \in Tips, BookSale(basket, day, TRUE, tip)
      PROVE  SoundBooks'
  <2>1. TRUE \in BOOLEAN /\ tip \in Int
    BY BalancesAssumption DEF BalancesAssumption
  <2>. QED
    BY <1>3, <2>1, BookSaleKeeps, Zenon
<1>4. ASSUME NEW day \in BookDays, NEW special \in Specials, BookOther(special, day) PROVE SoundBooks'
  BY <1>4, BookOtherKeeps
<1>5. ASSUME NEW day \in BookDays, NEW delivery \in Deliveries, Purchase(delivery, day) PROVE SoundBooks'
  BY <1>5, PurchaseKeeps
<1>6. ASSUME NEW day \in BookDays, NEW r, NEW delivery \in Deliveries, CorrectReceipt(r, delivery, day)
      PROVE  SoundBooks'
  BY <1>6, CorrectReceiptKeeps
<1>7. ASSUME NEW day \in BookDays, NEW t \in Transactions, NEW settled \in BOOLEAN, EnterTransaction(t, day, settled)
      PROVE  SoundBooks'
  BY <1>7, TransactionTyped, TransactionsKeep DEF EnterTransaction
<1>8. ASSUME NEW i \in DOMAIN transactionRows, NEW day \in BookDays, NEW t \in Transactions, ChangeTransaction(i, t, day)
      PROVE  SoundBooks'
  BY <1>8, TransactionsOneRow
<1>9. ASSUME NEW r, PaySale(r) PROVE SoundBooks'
  BY <1>9, PaySaleKeeps
<1>10. ASSUME NEW r, NEW cost \in ShippingCosts, ChangeShipping(r, cost) PROVE SoundBooks'
  <2>1. cost \in Nat
    BY BalancesAssumption DEF BalancesAssumption
  <2>. QED
    BY <1>10, <2>1, ChangeShippingKeeps
<1>11. ASSUME NEW i, NEW scope, CancelSales(i, scope) PROVE SoundBooks'
  BY <1>11, CancelSalesKeeps
<1>12. ASSUME NEW i \in DOMAIN purchaseRows, NEW delivery \in Deliveries, CorrectPurchase(i, delivery.lines[1])
       PROVE  SoundBooks'
  BY <1>12, CorrectPurchaseKeeps
<1>13. ASSUME NEW ids, CancelPurchases(ids) PROVE SoundBooks'
  BY <1>13, CancelPurchasesKeeps
<1>14. ASSUME NEW i \in DOMAIN transactionRows, SettleTransaction(i) \/ CancelTransaction(i) PROVE SoundBooks'
  BY <1>14, TransactionsOneRow
<1>15. ASSUME NEW v \in Variants, ParkVariant(v) PROVE SoundBooks'
  BY <1>15 DEF ParkVariant, SoundBooks, SoundSales, SoundPurchases, LastReceipt
<1>. QED
  BY <1>1, <1>2, <1>3, <1>4, <1>5, <1>6, <1>7, <1>8, <1>9, <1>10, <1>11, <1>12, <1>13, <1>14, <1>15
     DEF BalancesNext

\* The parts of every page of reports come to its headline figures, whatever is booked,
\* corrected, paid, cancelled or parked before (balances/period.go, account_holders.go,
\* finance_report.go).
THEOREM BreakdownsAlwaysAddUp == BalancesSpec => []BreakdownsAddUp
<1>1. BalancesInit => SoundBooks
  BY BooksStart
<1>2. SoundBooks /\ [BalancesNext]_balanceVars => SoundBooks'
  BY BooksStep
<1>3. SoundBooks => BreakdownsAddUp
  BY BooksAreSound, PageAddsUp
<1>. QED
  BY <1>1, <1>2, <1>3, PTL DEF BalancesSpec

-----------------------------------------------------------------------------
(* A period is what lies between two ends.                                  *)

Parted(within, before, whole) == within \subseteq whole /\ before = whole \ within

LEMMA PartedSum ==
  ASSUME NEW f, NEW A, NEW B, NEW C, Parted(A, B, C), IsFiniteSet(C), \A x \in C : f[x] \in Int
  PROVE  /\ SumFunctionOnSet(f, A) = SumFunctionOnSet(f, C) - SumFunctionOnSet(f, B)
         /\ SumFunctionOnSet(f, A) \in Int /\ SumFunctionOnSet(f, B) \in Int /\ SumFunctionOnSet(f, C) \in Int
<1>1. A \in SUBSET C /\ B = C \ A /\ B \subseteq C
  BY DEF Parted
<1>2. IsFiniteSet(A) /\ IsFiniteSet(B)
  BY <1>1, FS_Subset
<1>3. SumFunctionOnSet(f, C) = SumFunctionOnSet(f, A) + SumFunctionOnSet(f, B)
  BY <1>1, SumParts
<1>4. SumFunctionOnSet(f, A) \in Int /\ SumFunctionOnSet(f, B) \in Int /\ SumFunctionOnSet(f, C) \in Int
  BY <1>1, <1>2, SumInt
<1>. QED
  BY <1>3, <1>4

\* Figures that are kept by key, each key being in one of the two parts.
LEMMA PartedSums ==
  ASSUME NEW f, NEW g, NEW h, Parted(DOMAIN f, DOMAIN g, DOMAIN h), IsFiniteSet(DOMAIN h),
         \A x \in DOMAIN h : h[x] \in Int,
         \A x \in DOMAIN f : f[x] = h[x], \A x \in DOMAIN g : g[x] = h[x]
  PROVE  /\ SumOf(f) = SumOf(h) - SumOf(g)
         /\ SumOf(f) \in Int /\ SumOf(g) \in Int /\ SumOf(h) \in Int
<1>1. IsFiniteSet(DOMAIN f) /\ IsFiniteSet(DOMAIN g)
  BY FS_Subset DEF Parted
<1>2. SumOf(f) = SumFunctionOnSet(h, DOMAIN f) /\ SumOf(g) = SumFunctionOnSet(h, DOMAIN g)
      /\ SumOf(h) = SumFunctionOnSet(h, DOMAIN h)
  BY <1>1, SumOver DEF SumOf
<1>. QED
  BY <1>2, PartedSum

\* The rows of a period are those until its last day without those before its first.
Between(b, p, q, w) ==
  /\ p \in Span /\ q \in Span /\ w \in Span
  /\ Parted(LiveIn(b.sales, p), LiveIn(b.sales, q), LiveIn(b.sales, w))
  /\ Parted(LiveIn(b.purchases, p), LiveIn(b.purchases, q), LiveIn(b.purchases, w))
  /\ Parted(LiveIn(b.transactions, p), LiveIn(b.transactions, q), LiveIn(b.transactions, w))

LEMMA PeriodsBetween ==
  ASSUME NEW b, Sound(b), NEW p \in Span, p.from # Open, p.to # Open => p.from <= p.to
  PROVE  Between(b, p, [from |-> Open, to |-> p.from - 1], [from |-> Open, to |-> p.to])
<1> DEFINE q == [from |-> Open, to |-> p.from - 1]
           w == [from |-> Open, to |-> p.to]
<1>1. p.from \in Int /\ p.to \in Int \cup {Open} /\ Open \notin Int
  BY ReportsAssumption DEF Span, ReportsAssumption
<1>2. q \in Span /\ w \in Span
  BY <1>1 DEF Span
<1>3. ASSUME NEW day \in Nat
      PROVE  /\ Within(p, day) => Within(w, day)
             /\ Within(q, day) <=> Within(w, day) /\ ~Within(p, day)
  BY <1>1 DEF Within
<1>4. /\ \A i \in DOMAIN b.sales : b.sales[i].on \in Nat
      /\ \A i \in DOMAIN b.purchases : b.purchases[i].on \in Nat
      /\ \A i \in DOMAIN b.transactions : b.transactions[i].on \in Nat
  <2>1. /\ \A i \in DOMAIN b.sales : b.sales[i] \in SaleRow
        /\ \A i \in DOMAIN b.purchases : b.purchases[i] \in PurchaseRow
        /\ \A i \in DOMAIN b.transactions : b.transactions[i] \in TransactionRow
    BY RowsOfSeq DEF Sound
  <2>. QED
    BY <2>1 DEF SaleRow, PurchaseRow, TransactionRow
<1> HIDE DEF q, w
<1>5. ASSUME NEW table, \A i \in DOMAIN table : table[i].on \in Nat
      PROVE  Parted(LiveIn(table, p), LiveIn(table, q), LiveIn(table, w))
  BY <1>3, <1>5 DEF LiveIn, Parted
<1>6. Between(b, p, q, w)
  BY <1>2, <1>4, <1>5 DEF Between
<1>. QED
  BY <1>6 DEF q, w

LEMMA BetweenFinite ==
  ASSUME NEW b, Sound(b), NEW p, NEW q, NEW w, Between(b, p, q, w)
  PROVE  /\ IsFiniteSet(LiveIn(b.sales, w)) /\ LiveIn(b.sales, w) \subseteq DOMAIN b.sales
         /\ IsFiniteSet(LiveIn(b.purchases, w)) /\ LiveIn(b.purchases, w) \subseteq DOMAIN b.purchases
         /\ IsFiniteSet(LiveIn(b.transactions, w)) /\ LiveIn(b.transactions, w) \subseteq DOMAIN b.transactions
         /\ LiveIn(b.sales, p) \subseteq DOMAIN b.sales /\ LiveIn(b.sales, q) \subseteq DOMAIN b.sales
         /\ LiveIn(b.purchases, p) \subseteq DOMAIN b.purchases /\ LiveIn(b.purchases, q) \subseteq DOMAIN b.purchases
BY LiveRows

\* Any selection of transactions, and any column of the sales.
LEMMA AmountsBetween ==
  ASSUME NEW b, Sound(b), NEW A, NEW B, NEW C, Parted(A, B, C), C \subseteq DOMAIN b.transactions
  PROVE  /\ AmountOf(b, A) = AmountOf(b, C) - AmountOf(b, B)
         /\ AmountOf(b, A) \in Int /\ AmountOf(b, B) \in Int /\ AmountOf(b, C) \in Int
<1>1. A \subseteq DOMAIN b.transactions /\ B \subseteq DOMAIN b.transactions
  BY DEF Parted
<1>2. IsFiniteSet(C) /\ \A i \in C : AmountColumn(b)[i] \in Int
  <2>1. IsFiniteSet(C) /\ \A i \in C : b.transactions[i] \in TransactionRow
    BY RowsOfSeq DEF Sound
  <2>. QED
    BY <2>1 DEF AmountColumn, TransactionRow
<1>3. AmountOf(b, A) = SumFunctionOnSet(AmountColumn(b), A) /\ AmountOf(b, B) = SumFunctionOnSet(AmountColumn(b), B)
      /\ AmountOf(b, C) = SumFunctionOnSet(AmountColumn(b), C)
  BY <1>1, AmountSums
<1> DEFINE f == AmountColumn(b)
<1>4. /\ SumFunctionOnSet(f, A) = SumFunctionOnSet(f, C) - SumFunctionOnSet(f, B)
      /\ SumFunctionOnSet(f, A) \in Int /\ SumFunctionOnSet(f, B) \in Int /\ SumFunctionOnSet(f, C) \in Int
  <2>1. \A i \in C : f[i] \in Int
    BY <1>2
  <2> HIDE DEF f
  <2>. QED
    BY <1>2, <2>1, PartedSum
<1>. QED
  BY <1>3, <1>4

LEMMA SalesBetween ==
  ASSUME NEW b, Sound(b), NEW p, NEW q, NEW w, Between(b, p, q, w), NEW f, \A i \in DOMAIN b.sales : f[i] \in Int
  PROVE  /\ SumFunctionOnSet(f, LiveIn(b.sales, p)) =
              SumFunctionOnSet(f, LiveIn(b.sales, w)) - SumFunctionOnSet(f, LiveIn(b.sales, q))
         /\ SumFunctionOnSet(f, LiveIn(b.sales, p)) \in Int
         /\ SumFunctionOnSet(f, LiveIn(b.sales, q)) \in Int
         /\ SumFunctionOnSet(f, LiveIn(b.sales, w)) \in Int
BY BetweenFinite, PartedSum DEF Between

\* A receipt has one day: all its rows are in the same part.
LEMMA ReceiptsParted ==
  ASSUME NEW b, Sound(b), NEW p, NEW q, NEW w, Between(b, p, q, w)
  PROVE  LET A == LiveIn(b.purchases, p)
             B == LiveIn(b.purchases, q)
             C == LiveIn(b.purchases, w)
         IN  /\ Parted(ReceiptsOf(b, A), ReceiptsOf(b, B), ReceiptsOf(b, C))
             /\ \A r \in ReceiptsOf(b, A) : RowsOf(b, A, r) = RowsOf(b, C, r)
             /\ \A r \in ReceiptsOf(b, B) : RowsOf(b, B, r) = RowsOf(b, C, r)
<1> DEFINE A == LiveIn(b.purchases, p)
           B == LiveIn(b.purchases, q)
           C == LiveIn(b.purchases, w)
<1>1. Parted(A, B, C) /\ C \subseteq DOMAIN b.purchases
  BY BetweenFinite DEF Between
<1>2. ASSUME NEW i \in C, NEW j \in C, b.purchases[i].receipt = b.purchases[j].receipt
      PROVE  (i \in A <=> j \in A) /\ (i \in B <=> j \in B)
  <2>1. b.purchases[i].on = b.purchases[j].on
    BY <1>1, <1>2 DEF Sound
  <2>. QED
    BY <2>1 DEF LiveIn
<1> HIDE DEF A, B, C
<1>3. \A r \in ReceiptsOf(b, A) : RowsOf(b, A, r) = RowsOf(b, C, r)
  BY <1>1, <1>2 DEF Parted, ReceiptsOf, RowsOf
<1>4. \A r \in ReceiptsOf(b, B) : RowsOf(b, B, r) = RowsOf(b, C, r)
  BY <1>1, <1>2 DEF Parted, ReceiptsOf, RowsOf
<1>5. Parted(ReceiptsOf(b, A), ReceiptsOf(b, B), ReceiptsOf(b, C))
  BY <1>1, <1>2 DEF Parted, ReceiptsOf
<1>. QED
  BY <1>3, <1>4, <1>5 DEF A, B, C

LEMMA PurchasesBetween ==
  ASSUME NEW b, Sound(b), NEW p, NEW q, NEW w, Between(b, p, q, w)
  PROVE  LET A == LiveIn(b.purchases, p)
             B == LiveIn(b.purchases, q)
             C == LiveIn(b.purchases, w)
         IN  /\ ShippingTotal(b, A) = ShippingTotal(b, C) - ShippingTotal(b, B)
             /\ ShippingTotal(b, A) \in Int /\ ShippingTotal(b, B) \in Int /\ ShippingTotal(b, C) \in Int
             /\ \A h : /\ Spent(b, p, h) = Spent(b, w, h) - Spent(b, q, h)
                       /\ Spent(b, p, h) \in Int /\ Spent(b, q, h) \in Int /\ Spent(b, w, h) \in Int
<1> DEFINE A == LiveIn(b.purchases, p)
           B == LiveIn(b.purchases, q)
           C == LiveIn(b.purchases, w)
           ship(X) == [r \in ReceiptsOf(b, X) |-> ShippingOf(b, X, r)]
           his(X, h) == {r \in ReceiptsOf(b, X) : HolderOf(b, X, r) = h}
           paid(X, h) == [r \in his(X, h) |-> GoodsOf(b, RowsOf(b, X, r)) + ShippingOf(b, X, r)]
<1>1. /\ Parted(ReceiptsOf(b, A), ReceiptsOf(b, B), ReceiptsOf(b, C))
      /\ \A r \in ReceiptsOf(b, A) : RowsOf(b, A, r) = RowsOf(b, C, r)
      /\ \A r \in ReceiptsOf(b, B) : RowsOf(b, B, r) = RowsOf(b, C, r)
  BY ReceiptsParted
<1>2. /\ C \subseteq DOMAIN b.purchases /\ IsFiniteSet(ReceiptsOf(b, C))
      /\ \A r \in ReceiptsOf(b, C) : GoodsOf(b, RowsOf(b, C, r)) \in Int /\ ShippingOf(b, C, r) \in Int
  <2>1. C \subseteq DOMAIN b.purchases
    BY BetweenFinite
  <2>. QED
    BY <2>1, ReceiptTotals
<1>3. /\ \A h : Spent(b, p, h) = SumOf(paid(A, h)) /\ Spent(b, q, h) = SumOf(paid(B, h))
                /\ Spent(b, w, h) = SumOf(paid(C, h))
      /\ ShippingTotal(b, A) = SumOf(ship(A)) /\ ShippingTotal(b, B) = SumOf(ship(B))
      /\ ShippingTotal(b, C) = SumOf(ship(C))
  BY DEF Spent, ShippingTotal
<1> HIDE DEF A, B, C
<1>4. /\ \A r \in ReceiptsOf(b, A) : ShippingOf(b, A, r) = ShippingOf(b, C, r) /\ HolderOf(b, A, r) = HolderOf(b, C, r)
      /\ \A r \in ReceiptsOf(b, B) : ShippingOf(b, B, r) = ShippingOf(b, C, r) /\ HolderOf(b, B, r) = HolderOf(b, C, r)
  BY <1>1 DEF ShippingOf, HolderOf
<1>5. /\ SumOf(ship(A)) = SumOf(ship(C)) - SumOf(ship(B))
      /\ SumOf(ship(A)) \in Int /\ SumOf(ship(B)) \in Int /\ SumOf(ship(C)) \in Int
  <2> DEFINE f == ship(A)
             g == ship(B)
             k == ship(C)
  <2>1. DOMAIN f = ReceiptsOf(b, A) /\ DOMAIN g = ReceiptsOf(b, B) /\ DOMAIN k = ReceiptsOf(b, C)
    OBVIOUS
  <2>2. \A r \in ReceiptsOf(b, C) : k[r] \in Int
    BY <1>2
  <2>3. /\ \A r \in ReceiptsOf(b, A) : f[r] = k[r]
        /\ \A r \in ReceiptsOf(b, B) : g[r] = k[r]
    BY <1>1, <1>4 DEF Parted
  <2> HIDE DEF f, g, k
  <2>4. /\ SumOf(f) = SumOf(k) - SumOf(g) /\ SumOf(f) \in Int /\ SumOf(g) \in Int /\ SumOf(k) \in Int
    BY <1>1, <1>2, <2>1, <2>2, <2>3, PartedSums
  <2>. QED
    BY <2>4 DEF f, g, k
<1>6. ASSUME NEW h
      PROVE  /\ SumOf(paid(A, h)) = SumOf(paid(C, h)) - SumOf(paid(B, h))
             /\ SumOf(paid(A, h)) \in Int /\ SumOf(paid(B, h)) \in Int /\ SumOf(paid(C, h)) \in Int
  <2> DEFINE f == paid(A, h)
             g == paid(B, h)
             k == paid(C, h)
  <2>1. Parted(his(A, h), his(B, h), his(C, h)) /\ his(C, h) \subseteq ReceiptsOf(b, C)
    BY <1>1, <1>4 DEF Parted
  <2>2. IsFiniteSet(his(C, h))
    BY <1>2, <2>1, FS_Subset
  <2>3. DOMAIN f = his(A, h) /\ DOMAIN g = his(B, h) /\ DOMAIN k = his(C, h)
    OBVIOUS
  <2>4. \A r \in his(C, h) : k[r] \in Int
    BY <1>2
  <2>5. \A r \in his(A, h) : f[r] = k[r]
    BY <1>1, <1>4, <2>1 DEF Parted
  <2>6. \A r \in his(B, h) : g[r] = k[r]
    BY <1>1, <1>4, <2>1 DEF Parted
  <2> HIDE DEF f, g, k, his
  <2>7. /\ SumOf(f) = SumOf(k) - SumOf(g) /\ SumOf(f) \in Int /\ SumOf(g) \in Int /\ SumOf(k) \in Int
    BY <2>1, <2>2, <2>3, <2>4, <2>5, <2>6, PartedSums
  <2>. QED
    BY <2>7 DEF f, g, k
<1> HIDE DEF ship, paid, his
<1>7. /\ ShippingTotal(b, A) = ShippingTotal(b, C) - ShippingTotal(b, B)
      /\ ShippingTotal(b, A) \in Int /\ ShippingTotal(b, B) \in Int /\ ShippingTotal(b, C) \in Int
  BY <1>3, <1>5
<1>8. \A h : /\ Spent(b, p, h) = Spent(b, w, h) - Spent(b, q, h)
             /\ Spent(b, p, h) \in Int /\ Spent(b, q, h) \in Int /\ Spent(b, w, h) \in Int
  BY <1>3, <1>6
<1>. QED
  BY <1>7, <1>8 DEF A, B, C

LEMMA AmountOfNone == ASSUME NEW b PROVE AmountOf(b, {}) = 0
<1> DEFINE f == [i \in {} |-> b.transactions[i].amount]
<1>1. AmountOf(b, {}) = SumFunctionOnSet(f, {})
  BY DEF AmountOf, SumOf
<1>. QED
  BY <1>1, SumEmpty

\* A holder without a row on the page has a difference of nothing.
LEMMA DifferenceIs ==
  ASSUME NEW b, Sound(b), NEW p, NEW h
  PROVE  ValueOr0(HolderTotals(b, p), h) = Difference(b, p, h)
<1>1. CASE h \in HolderKeys(b, p)
  BY <1>1 DEF ValueOr0, HolderTotals
<1>2. CASE h \notin HolderKeys(b, p)
  <2> DEFINE bought == LiveIn(b.purchases, p)
             his    == {r \in ReceiptsOf(b, bought) : HolderOf(b, bought, r) = h}
             f      == [r \in his |-> GoodsOf(b, RowsOf(b, bought, r)) + ShippingOf(b, bought, r)]
  <2>1. HeldBy(b, Settled(b, p, "income"), h) = {} /\ HeldBy(b, Settled(b, p, "expense"), h) = {}
    BY <1>2 DEF HolderKeys, HeldBy
  <2>2. h = BandCash => CollectedOf(b, LiveIn(b.sales, p)) = 0
    BY <1>2 DEF HolderKeys
  <2>3. his = {}
    BY <1>2 DEF HolderKeys
  <2>4. Spent(b, p, h) = SumFunctionOnSet(f, his)
    BY DEF Spent, SumOf
  <2>5. Spent(b, p, h) = 0
    <3> HIDE DEF f, his
    <3>. QED
      BY <2>3, <2>4, SumEmpty
  <2>6. AmountOf(b, HeldBy(b, Settled(b, p, "income"), h)) = 0 /\ AmountOf(b, HeldBy(b, Settled(b, p, "expense"), h)) = 0
    BY <2>1, AmountOfNone
  <2>7. Difference(b, p, h) = 0
    BY <2>2, <2>5, <2>6 DEF Difference
  <2>. QED
    BY <1>2, <2>7 DEF ValueOr0, HolderTotals
<1>. QED
  BY <1>1, <1>2

LEMMA DifferencesBetween ==
  ASSUME NEW b, Sound(b), NEW p, NEW q, NEW w, Between(b, p, q, w), NEW h
  PROVE  Difference(b, p, h) = Difference(b, w, h) - Difference(b, q, h)
<1> DEFINE got(x)   == AmountOf(b, HeldBy(b, Settled(b, x, "income"), h))
           gave(x)  == AmountOf(b, HeldBy(b, Settled(b, x, "expense"), h))
           cash(x)  == CollectedOf(b, LiveIn(b.sales, x))
           spent(x) == Spent(b, x, h)
<1>1. ASSUME NEW type
      PROVE  LET of(x) == AmountOf(b, HeldBy(b, Settled(b, x, type), h))
             IN  of(p) = of(w) - of(q) /\ of(p) \in Int /\ of(q) \in Int /\ of(w) \in Int
  <2> DEFINE A == HeldBy(b, Settled(b, p, type), h)
             B == HeldBy(b, Settled(b, q, type), h)
             C == HeldBy(b, Settled(b, w, type), h)
  <2>1. Parted(A, B, C) /\ C \subseteq LiveIn(b.transactions, w)
    BY DEF Between, Parted, HeldBy, Settled
  <2>2. C \subseteq DOMAIN b.transactions
    BY <2>1, BetweenFinite
  <2> HIDE DEF A, B, C
  <2>3. /\ AmountOf(b, A) = AmountOf(b, C) - AmountOf(b, B)
        /\ AmountOf(b, A) \in Int /\ AmountOf(b, B) \in Int /\ AmountOf(b, C) \in Int
    BY <2>1, <2>2, AmountsBetween
  <2>. QED
    BY <2>3 DEF A, B, C
<1>2. got(p) = got(w) - got(q) /\ got(p) \in Int /\ got(q) \in Int /\ got(w) \in Int
  BY <1>1
<1>3. gave(p) = gave(w) - gave(q) /\ gave(p) \in Int /\ gave(q) \in Int /\ gave(w) \in Int
  BY <1>1
<1>4. cash(p) = cash(w) - cash(q) /\ cash(p) \in Int /\ cash(q) \in Int /\ cash(w) \in Int
  <2> DEFINE f == CollectedColumn(b)
  <2>1. \A i \in DOMAIN b.sales : f[i] \in Int
    BY SaleColumns
  <2>2. /\ cash(p) = SumFunctionOnSet(f, LiveIn(b.sales, p))
        /\ cash(q) = SumFunctionOnSet(f, LiveIn(b.sales, q))
        /\ cash(w) = SumFunctionOnSet(f, LiveIn(b.sales, w))
    BY BetweenFinite, SaleSums
  <2> HIDE DEF f, cash
  <2>. QED
    BY <2>1, <2>2, SalesBetween
<1>5. spent(p) = spent(w) - spent(q) /\ spent(p) \in Int /\ spent(q) \in Int /\ spent(w) \in Int
  BY PurchasesBetween
<1>6. \A x : Difference(b, x, h) = (got(x) + (IF h = BandCash THEN cash(x) ELSE 0)) - (gave(x) + spent(x))
  BY DEF Difference
<1> HIDE DEF got, gave, cash, spent
<1>. QED
  BY <1>2, <1>3, <1>4, <1>5, <1>6

\* A point of the timeline, as a sum over rows: the key of a row is the same in any
\* period.
Gigs(b, p) == {i \in LiveIn(b.sales, p) : b.sales[i].event # NoGig}
PointAt(b, p, k, c) == PointOr0(Timeline(b, p), k, c)
Measures == {"quantity", "income"}
Occurrence(b, w) == [i \in DOMAIN b.sales |-> <<b.sales[i].event, FirstDay(b, w, i)>>]

LEMMA PointIs ==
  ASSUME NEW b, Sound(b), NEW p, NEW w, NEW k, NEW c \in Measures
  PROVE  PointAt(b, p, k, c) = SumFunctionOnSet(RankColumn(b, w, c), Group(Gigs(b, p), Occurrence(b, w), k))
<1> DEFINE S      == Group(Gigs(b, p), Occurrence(b, w), k)
           key(i) == <<b.sales[i].event, FirstDay(b, p, i)>>
<1>1. Gigs(b, p) \subseteq DOMAIN b.sales
  BY LiveRows DEF Gigs
<1>2. \A i \in DOMAIN b.sales : key(i) = Occurrence(b, w)[i]
  BY DEF Occurrence, FirstDay
<1>3. Timeline(b, p) = [x \in {key(i) : i \in Gigs(b, p)} |-> RankingEntry(b, p, {i \in Gigs(b, p) : key(i) = x})]
  BY DEF Timeline, Gigs
<1> HIDE DEF key
<1>4. {i \in Gigs(b, p) : key(i) = k} = S
  BY <1>1, <1>2 DEF Group
<1>5. RankColumn(b, p, c) = RankColumn(b, w, c) /\ c \in {"quantity", "income", "profit"}
  BY DEF RankColumn, Measures
<1>6. CASE k \in {key(i) : i \in Gigs(b, p)}
  <2>1. Timeline(b, p)[k] = RankingEntry(b, p, S)
    BY <1>3, <1>4, <1>6
  <2>2. S \subseteq DOMAIN b.sales /\ c \in {"quantity", "income", "profit"}
    BY <1>1, <1>5 DEF Group
  <2>3. RankingEntry(b, p, S)[c] = SumFunctionOnSet(RankColumn(b, p, c), S)
    BY <2>2, RankingSums
  <2>. QED
    BY <1>3, <1>5, <1>6, <2>1, <2>3 DEF PointAt, PointOr0
<1>7. CASE k \notin {key(i) : i \in Gigs(b, p)}
  <2>1. S = {}
    BY <1>4, <1>7
  <2> HIDE DEF S
  <2>2. SumFunctionOnSet(RankColumn(b, w, c), S) = 0
    BY <2>1, SumEmpty
  <2>3. PointAt(b, p, k, c) = 0
    BY <1>3, <1>7 DEF PointAt, PointOr0
  <2>. QED
    BY <2>2, <2>3 DEF S
<1>. QED
  BY <1>6, <1>7

LEMMA OccurrencesParted ==
  ASSUME NEW b, Sound(b), NEW p, NEW q, NEW w, Between(b, p, q, w)
  PROVE  DOMAIN Timeline(b, w) = DOMAIN Timeline(b, p) \cup DOMAIN Timeline(b, q)
<1>1. Parted(Gigs(b, p), Gigs(b, q), Gigs(b, w)) /\ Gigs(b, w) \subseteq LiveIn(b.sales, w)
  BY DEF Between, Parted, Gigs
<1> DEFINE occ(i) == <<b.sales[i].event, FirstDay(b, w, i)>>
<1>2. ASSUME NEW x PROVE DOMAIN Timeline(b, x) = {occ(i) : i \in Gigs(b, x)}
  <2> DEFINE key(i) == <<b.sales[i].event, FirstDay(b, x, i)>>
  <2>1. DOMAIN Timeline(b, x) = {key(i) : i \in Gigs(b, x)}
    BY DEF Timeline, Gigs
  <2>2. \A i : key(i) = occ(i)
    BY DEF FirstDay
  <2> HIDE DEF key, occ
  <2>. QED
    BY <2>1, <2>2
<1> HIDE DEF occ
<1>3. Gigs(b, w) = Gigs(b, p) \cup Gigs(b, q)
  BY <1>1 DEF Parted
<1>4. /\ DOMAIN Timeline(b, w) = {occ(i) : i \in Gigs(b, w)}
      /\ DOMAIN Timeline(b, p) = {occ(i) : i \in Gigs(b, p)}
      /\ DOMAIN Timeline(b, q) = {occ(i) : i \in Gigs(b, q)}
  BY <1>2
<1>. QED
  BY <1>3, <1>4

LEMMA PointsBetween ==
  ASSUME NEW b, Sound(b), NEW p, NEW q, NEW w, Between(b, p, q, w), NEW k, NEW c \in Measures
  PROVE  PointAt(b, p, k, c) = PointAt(b, w, k, c) - PointAt(b, q, k, c)
<1>1. Parted(Gigs(b, p), Gigs(b, q), Gigs(b, w)) /\ Gigs(b, w) \subseteq LiveIn(b.sales, w)
  BY DEF Between, Parted, Gigs
<1>2. Gigs(b, w) \subseteq DOMAIN b.sales /\ IsFiniteSet(Gigs(b, w))
  BY <1>1, BetweenFinite, FS_Subset
<1> DEFINE A == Group(Gigs(b, p), Occurrence(b, w), k)
           B == Group(Gigs(b, q), Occurrence(b, w), k)
           C == Group(Gigs(b, w), Occurrence(b, w), k)
           f == RankColumn(b, w, c)
<1>3. Parted(A, B, C) /\ C \subseteq Gigs(b, w)
  BY <1>1 DEF Parted, Group
<1>4. IsFiniteSet(C) /\ C \subseteq DOMAIN b.sales
  BY <1>2, <1>3, FS_Subset
<1>5. \A i \in C : f[i] \in Int
  <2>1. c \in {"quantity", "income", "profit"}
    BY DEF Measures
  <2> HIDE DEF C
  <2>. QED
    BY <1>4, <2>1, RankingSums
<1>6. /\ PointAt(b, p, k, c) = SumFunctionOnSet(f, A)
      /\ PointAt(b, q, k, c) = SumFunctionOnSet(f, B)
      /\ PointAt(b, w, k, c) = SumFunctionOnSet(f, C)
  BY PointIs
<1> HIDE DEF A, B, C, f
<1>. QED
  BY <1>3, <1>4, <1>5, <1>6, PartedSum

LEMMA BalanceDiffers ==
  ASSUME NEW got1 \in Int, NEW goods1 \in Int, NEW ship1 \in Int, NEW in1 \in Int, NEW out1 \in Int,
         NEW got2 \in Int, NEW goods2 \in Int, NEW ship2 \in Int, NEW in2 \in Int, NEW out2 \in Int
  PROVE  ((got2 - got1) - ((goods2 - goods1) + (ship2 - ship1))) + ((in2 - in1) - (out2 - out1))
           = ((got2 - (goods2 + ship2)) + (in2 - out2)) - ((got1 - (goods1 + ship1)) + (in1 - out1))
OBVIOUS

\* The figures of a page.
LEMMA FlowsBetween ==
  ASSUME Sound(Books), NEW p, NEW q, NEW w, Between(Books, p, q, w), NEW c \in DOMAIN Flows(p)
  PROVE  Flows(p)[c] = Flows(w)[c] - Flows(q)[c]
<1> DEFINE b == Books
<1>1. p \in Span /\ q \in Span /\ w \in Span
  BY DEF Between
<1>2. ASSUME NEW f, \A i \in DOMAIN b.sales : f[i] \in Int
      PROVE  /\ SumFunctionOnSet(f, LiveIn(b.sales, p)) =
                  SumFunctionOnSet(f, LiveIn(b.sales, w)) - SumFunctionOnSet(f, LiveIn(b.sales, q))
             /\ SumFunctionOnSet(f, LiveIn(b.sales, p)) \in Int
             /\ SumFunctionOnSet(f, LiveIn(b.sales, q)) \in Int
             /\ SumFunctionOnSet(f, LiveIn(b.sales, w)) \in Int
  BY <1>2, SalesBetween
<1>3. /\ \A i \in DOMAIN b.sales : CollectedColumn(b)[i] \in Int
      /\ \A i \in DOMAIN b.sales : DonatedColumn(b)[i] \in Int
      /\ \A i \in DOMAIN b.sales : NetColumn(b)[i] \in Int
      /\ \A i \in DOMAIN b.sales : OwedColumn(b)[i] \in Int
  BY SaleColumns
<1>4. ASSUME NEW A, NEW B, NEW C, Parted(A, B, C), C \subseteq LiveIn(b.transactions, w)
      PROVE  /\ AmountOf(b, A) = AmountOf(b, C) - AmountOf(b, B)
             /\ AmountOf(b, A) \in Int /\ AmountOf(b, B) \in Int /\ AmountOf(b, C) \in Int
  <2>1. C \subseteq DOMAIN b.transactions
    BY <1>4, BetweenFinite
  <2>. QED
    BY <1>4, <2>1, AmountsBetween
<1> DEFINE goods(x)    == SumFunctionOnSet(CostColumn(b), LiveIn(b.purchases, x))
           shipping(x) == ShippingTotal(b, LiveIn(b.purchases, x))
           in(x)       == AmountOf(b, Settled(b, x, "income"))
           out(x)      == AmountOf(b, Settled(b, x, "expense"))
           inSoon(x)   == AmountOf(b, Announced(b, x, "income"))
           outSoon(x)  == AmountOf(b, Announced(b, x, "expense"))
           assets(x)   == AmountOf(b, Assets(b, x))
           of(f, x)    == SumFunctionOnSet(f, LiveIn(b.sales, x))
<1>5. goods(p) = goods(w) - goods(q) /\ goods(p) \in Int /\ goods(q) \in Int /\ goods(w) \in Int
  <2> DEFINE f == CostColumn(b)
             A == LiveIn(b.purchases, p)
             B == LiveIn(b.purchases, q)
             C == LiveIn(b.purchases, w)
  <2>1. Parted(A, B, C) /\ IsFiniteSet(C) /\ C \subseteq DOMAIN b.purchases
    BY BetweenFinite DEF Between
  <2>2. \A i \in C : f[i] \in Int
    <3>1. \A i \in DOMAIN b.purchases : b.purchases[i] \in PurchaseRow
      BY RowsOfSeq DEF Sound
    <3>. QED
      BY <2>1, <3>1 DEF CostColumn, PurchaseRow
  <2> HIDE DEF f, A, B, C
  <2>3. /\ SumFunctionOnSet(f, A) = SumFunctionOnSet(f, C) - SumFunctionOnSet(f, B)
        /\ SumFunctionOnSet(f, A) \in Int /\ SumFunctionOnSet(f, B) \in Int /\ SumFunctionOnSet(f, C) \in Int
    BY <2>1, <2>2, PartedSum
  <2>. QED
    BY <2>3 DEF f, A, B, C
<1>6. shipping(p) = shipping(w) - shipping(q) /\ shipping(p) \in Int /\ shipping(q) \in Int /\ shipping(w) \in Int
  BY PurchasesBetween
<1>7. /\ Parted(Settled(b, p, "income"), Settled(b, q, "income"), Settled(b, w, "income"))
      /\ Parted(Settled(b, p, "expense"), Settled(b, q, "expense"), Settled(b, w, "expense"))
      /\ Parted(Announced(b, p, "income"), Announced(b, q, "income"), Announced(b, w, "income"))
      /\ Parted(Announced(b, p, "expense"), Announced(b, q, "expense"), Announced(b, w, "expense"))
      /\ Parted(Assets(b, p), Assets(b, q), Assets(b, w))
  <2>1. Parted(LiveIn(b.transactions, p), LiveIn(b.transactions, q), LiveIn(b.transactions, w))
    BY DEF Between
  <2>2. \A type : Parted(Settled(b, p, type), Settled(b, q, type), Settled(b, w, type))
    BY <2>1 DEF Parted, Settled
  <2>3. \A type : Parted(Announced(b, p, type), Announced(b, q, type), Announced(b, w, type))
    BY <2>1 DEF Parted, Announced
  <2>4. Parted(Assets(b, p), Assets(b, q), Assets(b, w))
    BY <2>2 DEF Parted, Assets
  <2>. QED
    BY <2>2, <2>3, <2>4
<1>8. /\ Settled(b, w, "income") \subseteq LiveIn(b.transactions, w)
      /\ Settled(b, w, "expense") \subseteq LiveIn(b.transactions, w)
      /\ Announced(b, w, "income") \subseteq LiveIn(b.transactions, w)
      /\ Announced(b, w, "expense") \subseteq LiveIn(b.transactions, w)
      /\ Assets(b, w) \subseteq LiveIn(b.transactions, w)
  BY DEF Settled, Announced, Assets
<1>9. in(p) = in(w) - in(q) /\ in(p) \in Int /\ in(q) \in Int /\ in(w) \in Int
  BY <1>4, <1>7, <1>8
<1>10. out(p) = out(w) - out(q) /\ out(p) \in Int /\ out(q) \in Int /\ out(w) \in Int
  BY <1>4, <1>7, <1>8
<1>11. inSoon(p) = inSoon(w) - inSoon(q) /\ outSoon(p) = outSoon(w) - outSoon(q) /\ assets(p) = assets(w) - assets(q)
  BY <1>4, <1>7, <1>8
<1>12. \A x \in Span :
         LET page == Summary(b, x)
         IN  /\ page.collected = of(CollectedColumn(b), x) /\ page.donation = of(DonatedColumn(b), x)
             /\ page.revenue = of(NetColumn(b), x) /\ page.outstanding = of(OwedColumn(b), x)
             /\ page.cost = goods(x) + shipping(x)
             /\ page.overall = (of(CollectedColumn(b), x) - (goods(x) + shipping(x))) + (in(x) - out(x))
  BY PageByColumn
<1> HIDE DEF b, goods, shipping, in, out, inSoon, outSoon, assets, of
<1>13. \A x \in Span :
         Flows(x) = [cost |-> goods(x) + shipping(x), revenue |-> of(NetColumn(b), x),
                     collected |-> of(CollectedColumn(b), x), donation |-> of(DonatedColumn(b), x),
                     outstanding |-> of(OwedColumn(b), x),
                     overall |-> (of(CollectedColumn(b), x) - (goods(x) + shipping(x))) + (in(x) - out(x)),
                     announcedIncome |-> inSoon(x), announcedExpense |-> outSoon(x), assets |-> assets(x)]
  BY <1>12 DEF Flows, FlowsOf, inSoon, outSoon, assets, b
<1>14. /\ of(NetColumn(b), p) = of(NetColumn(b), w) - of(NetColumn(b), q)
       /\ of(DonatedColumn(b), p) = of(DonatedColumn(b), w) - of(DonatedColumn(b), q)
       /\ of(OwedColumn(b), p) = of(OwedColumn(b), w) - of(OwedColumn(b), q)
       /\ of(CollectedColumn(b), p) = of(CollectedColumn(b), w) - of(CollectedColumn(b), q)
       /\ of(CollectedColumn(b), p) \in Int /\ of(CollectedColumn(b), q) \in Int /\ of(CollectedColumn(b), w) \in Int
  BY <1>2, <1>3 DEF of
<1>15. DOMAIN Flows(p) = {"cost", "revenue", "collected", "donation", "outstanding", "overall",
                          "announcedIncome", "announcedExpense", "assets"}
  BY DEF Flows, FlowsOf
<1>16. /\ Flows(p).cost = Flows(w).cost - Flows(q).cost
       /\ Flows(p).overall = Flows(w).overall - Flows(q).overall
  <2>1. \A x \in Span : /\ Flows(x).cost = goods(x) + shipping(x)
                        /\ Flows(x).overall = (of(CollectedColumn(b), x) - (goods(x) + shipping(x))) + (in(x) - out(x))
    BY <1>13
  <2>2. ASSUME NEW x \in Span PROVE Flows(x).cost = goods(x) + shipping(x)
                /\ Flows(x).overall = (of(CollectedColumn(b), x) - (goods(x) + shipping(x))) + (in(x) - out(x))
    BY <2>1
  <2> DEFINE got(x) == of(CollectedColumn(b), x)
  <2>3. got(p) = got(w) - got(q) /\ got(p) \in Int /\ got(q) \in Int /\ got(w) \in Int
    BY <1>14
  <2>4. /\ Flows(p).cost = goods(p) + shipping(p) /\ Flows(q).cost = goods(q) + shipping(q)
        /\ Flows(w).cost = goods(w) + shipping(w)
    BY <1>1, <2>2
  <2>5. /\ Flows(p).overall = (got(p) - (goods(p) + shipping(p))) + (in(p) - out(p))
        /\ Flows(q).overall = (got(q) - (goods(q) + shipping(q))) + (in(q) - out(q))
        /\ Flows(w).overall = (got(w) - (goods(w) + shipping(w))) + (in(w) - out(w))
    BY <1>1, <2>2
  <2> HIDE DEF got
  <2>6. Flows(p).cost = Flows(w).cost - Flows(q).cost
    BY <1>5, <1>6, <2>4
  <2>7. Flows(p).overall = Flows(w).overall - Flows(q).overall
    BY <1>5, <1>6, <1>9, <1>10, <2>3, <2>5, BalanceDiffers
  <2>. QED
    BY <2>6, <2>7
<1>17. /\ Flows(p).revenue = Flows(w).revenue - Flows(q).revenue
       /\ Flows(p).collected = Flows(w).collected - Flows(q).collected
       /\ Flows(p).donation = Flows(w).donation - Flows(q).donation
       /\ Flows(p).outstanding = Flows(w).outstanding - Flows(q).outstanding
  BY <1>1, <1>13, <1>14
<1>18. /\ Flows(p).announcedIncome = Flows(w).announcedIncome - Flows(q).announcedIncome
       /\ Flows(p).announcedExpense = Flows(w).announcedExpense - Flows(q).announcedExpense
       /\ Flows(p).assets = Flows(w).assets - Flows(q).assets
  BY <1>1, <1>11, <1>13
<1>. QED
  BY <1>15, <1>16, <1>17, <1>18

LEMMA PeriodsDiffer ==
  ASSUME Sound(Books)
  PROVE  PeriodsAddUp
<1> SUFFICES ASSUME NEW p \in Periods, p.from # Open
    PROVE LET before == [from |-> Open, to |-> p.from - 1]
              whole  == [from |-> Open, to |-> p.to]
          IN  /\ FlowsAddUp(Flows(p), Flows(before), Flows(whole))
              /\ HeldAddsUp(HolderTotals(Books, p), HolderTotals(Books, before), HolderTotals(Books, whole))
              /\ PointsAddUp(Timeline(Books, p), Timeline(Books, before), Timeline(Books, whole))
  BY DEF PeriodsAddUp
<1> DEFINE q == [from |-> Open, to |-> p.from - 1]
           w == [from |-> Open, to |-> p.to]
<1>1. p \in Span /\ (p.to # Open => p.from <= p.to)
  <2>1. DaysBooked \subseteq Int
    BY DaysAreNumbers
  <2>. QED
    BY <2>1 DEF Periods, Span
<1>2. Between(Books, p, q, w)
  BY <1>1, PeriodsBetween
<1> HIDE DEF q, w
<1>3. \A c \in DOMAIN Flows(p) : Flows(p)[c] = Flows(w)[c] - Flows(q)[c]
  BY <1>2, FlowsBetween
<1>4. \A h \in Holders :
        ValueOr0(HolderTotals(Books, p), h) = ValueOr0(HolderTotals(Books, w), h) - ValueOr0(HolderTotals(Books, q), h)
  BY <1>2, DifferenceIs, DifferencesBetween
<1>5. DOMAIN Timeline(Books, w) = DOMAIN Timeline(Books, p) \cup DOMAIN Timeline(Books, q)
  BY <1>2, OccurrencesParted
<1>6. ASSUME NEW k, NEW c \in Measures
      PROVE  PointAt(Books, p, k, c) = PointAt(Books, w, k, c) - PointAt(Books, q, k, c)
  BY <1>2, PointsBetween
<1>7. \A k, c : c \in {"quantity", "income"} =>
        PointAt(Books, p, k, c) =
          PointAt(Books, w, k, c) - PointAt(Books, q, k, c)
  BY <1>6 DEF Measures
<1>8. FlowsAddUp(Flows(p), Flows(q), Flows(w))
  BY <1>3 DEF FlowsAddUp
<1>9. HeldAddsUp(HolderTotals(Books, p), HolderTotals(Books, q), HolderTotals(Books, w))
  BY <1>4 DEF HeldAddsUp
<1>10. PointsAddUp(Timeline(Books, p), Timeline(Books, q), Timeline(Books, w))
  BY <1>5, <1>7 DEF PointsAddUp, PointAt
<1>. QED
  BY <1>8, <1>9, <1>10 DEF q, w

\* What a period brings is the difference between the balances at its two ends, whatever
\* was booked and corrected before (balances/period.go).
THEOREM PeriodsAlwaysAddUp == BalancesSpec => []PeriodsAddUp
<1>1. BalancesInit => SoundBooks
  BY BooksStart
<1>2. SoundBooks /\ [BalancesNext]_balanceVars => SoundBooks'
  BY BooksStep
<1>3. SoundBooks => PeriodsAddUp
  BY BooksAreSound, PeriodsDiffer
<1>. QED
  BY <1>1, <1>2, <1>3, PTL DEF BalancesSpec
=============================================================================
