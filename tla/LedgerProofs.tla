---------------------------- MODULE LedgerProofs ----------------------------
(***************************************************************************)
(* Facts about the ledger that hold for every value of the constants: sums *)
(* over finite sets, the amounts of a transaction, and what connecting a   *)
(* block does to the coins and to the value they add up to.                *)
(*                                                                         *)
(* Induction is by a least counterexample: the strict subsets of a finite  *)
(* set, and the naturals, are well-founded, so a set of counterexamples    *)
(* that is not empty has a least one.                                      *)
(***************************************************************************)
EXTENDS Branches, FiniteSetTheorems, WellFoundedInduction, TLAPS

-----------------------------------------------------------------------------
(* Least elements *)

\* A set of naturals that is not empty has a least element.
LEMMA LeastNumber ==
    ASSUME NEW T, T \subseteq Nat, T # {}
    PROVE  \E n \in T : \A m \in T : n <= m
<1>1. PICK n \in T : \A m \in T : ~ (<<m, n>> \in OpToRel(<, Nat))
  BY WFMin, NatLessThanWellFounded, Zenon
<1>2. \A m, k \in Nat : m < k => <<m, k>> \in OpToRel(<, Nat)
  BY Zenon DEF OpToRel
<1>3. \A m \in T : ~ (m < n)
  BY <1>1, <1>2, Zenon
<1>4. QED
  BY <1>3

\* A set of subsets of a finite set that is not empty has a minimal element.
LEMMA SmallestSubset ==
    ASSUME NEW S, IsFiniteSet(S), NEW T, T \subseteq SUBSET S, T # {}
    PROVE  \E s \in T : \A r \in T : r \subseteq s => r = s
<1>1. T \subseteq FiniteSubsetsOf(S)
  BY FS_Subset, Zenon DEF FiniteSubsetsOf
<1>2. PICK s \in T : \A r \in T : ~ (<<r, s>> \in StrictSubsetOrdering(S))
  BY <1>1, WFMin, FS_StrictSubsetOrderingWellFounded, Zenon
<1>3. QED
  BY <1>2, Zenon DEF StrictSubsetOrdering

-----------------------------------------------------------------------------
(* Sums *)

\* g is the recursive function by which the library sums f over the subsets of S.
SumsTo(g, f, S) ==
    g = [s \in SUBSET S |->
            IF s = {} THEN 0
            ELSE f[CHOOSE x \in s : TRUE] + g[s \ {CHOOSE x \in s : TRUE}]]

\* The library's sum, in terms of that recursive function.
LEMMA SumUnfolds ==
    ASSUME NEW f, NEW S
    PROVE  SumFunctionOnSet(f, S) = (CHOOSE g : SumsTo(g, f, S))[S]
BY Zenon DEF SumFunctionOnSet, FoldFunctionOnSet, MapThenFoldSet, SumsTo

\* Two such functions agree on every set on which both are defined.
LEMMA SumsToAgree ==
    ASSUME NEW f, NEW S, NEW R, NEW g, NEW h, IsFiniteSet(S),
           SumsTo(g, f, S), SumsTo(h, f, R),
           NEW s, s \subseteq S, s \subseteq R
    PROVE  g[s] = h[s]
<1> DEFINE Bad == {r \in SUBSET s : g[r] # h[r]}
<1>1. SUFFICES ASSUME Bad # {} PROVE FALSE
  BY Zenon
<1>2. IsFiniteSet(s)
  BY FS_Subset, Zenon
<1>3. PICK r \in Bad : \A q \in Bad : q \subseteq r => q = r
  <2>1. Bad \subseteq SUBSET s
    BY Zenon
  <2> HIDE DEF Bad
  <2>2. QED
    BY <1>1, <1>2, <2>1, SmallestSubset
<1>4. r \subseteq s /\ g[r] # h[r]
  BY <1>3, Zenon
<1>5. CASE r = {}
  <2>1. g[{}] = 0 /\ h[{}] = 0
    BY Zenon DEF SumsTo
  <2>2. QED
    BY <1>4, <1>5, <2>1, Zenon
<1>6. CASE r # {}
  <2> DEFINE x == CHOOSE x \in r : TRUE
  <2>1. x \in r
    BY <1>6, Zenon
  <2>2. g[r] = f[x] + g[r \ {x}]
    BY <1>4, <1>6, Zenon DEF SumsTo
  <2>3. h[r] = f[x] + h[r \ {x}]
    BY <1>4, <1>6, Zenon DEF SumsTo
  <2> HIDE DEF x
  <2>4. r \ {x} \notin Bad
    BY <1>3, <2>1, Zenon
  <2>5. g[r \ {x}] = h[r \ {x}]
    BY <1>4, <2>4, Zenon
  <2>6. QED
    BY <1>4, <2>2, <2>3, <2>5, Zenon
<1>7. QED
  BY <1>5, <1>6, Zenon

\* There is such a function, so the recursion is well defined.
LEMMA SumsToExists ==
    ASSUME NEW f, NEW S, IsFiniteSet(S)
    PROVE  \E g : SumsTo(g, f, S)
<1> DEFINE Bad == {r \in SUBSET S : ~ \E g : SumsTo(g, f, r)}
<1>1. SUFFICES ASSUME Bad # {} PROVE FALSE
  BY Zenon
<1>2. PICK r \in Bad : \A q \in Bad : q \subseteq r => q = r
  <2>1. Bad \subseteq SUBSET S
    BY Zenon
  <2> HIDE DEF Bad
  <2>2. QED
    BY <1>1, <2>1, SmallestSubset
<1>3. r \subseteq S /\ IsFiniteSet(r) /\ ~ \E g : SumsTo(g, f, r)
  BY <1>2, FS_Subset, Zenon
<1> DEFINE Part(q) == CHOOSE g : SumsTo(g, f, q)
<1>4. ASSUME NEW q \in SUBSET r, q # r
      PROVE  SumsTo(Part(q), f, q) /\ IsFiniteSet(q)
  <2>1. q \notin Bad /\ q \subseteq S
    BY <1>2, <1>3, <1>4, Zenon
  <2>2. \E g : SumsTo(g, f, q)
    BY <2>1, Zenon
  <2>3. SumsTo(Part(q), f, q)
    BY <2>2, Zenon
  <2>4. QED
    BY <2>3, <1>3, FS_Subset, Zenon
<1> DEFINE pick(q) == CHOOSE x \in q : TRUE
           g == [q \in SUBSET r |-> IF q = {} THEN 0
                                    ELSE f[pick(q)] + Part(q \ {pick(q)})[q \ {pick(q)}]]
<1>5. ASSUME NEW q \in SUBSET r, q # r
      PROVE  g[q] = Part(q)[q]
  <2>1. SumsTo(Part(q), f, q) /\ IsFiniteSet(q)
    BY <1>4, <1>5, Zenon
  <2>2. CASE q = {}
    BY <2>1, <2>2, Zenon DEF SumsTo
  <2>3. CASE q # {}
    <3>1. pick(q) \in q
      BY <2>3, Zenon
    <3>2. Part(q)[q] = f[pick(q)] + Part(q)[q \ {pick(q)}]
      BY <2>1, <2>3, Zenon DEF SumsTo
    <3>3. SumsTo(Part(q \ {pick(q)}), f, q \ {pick(q)})
      BY <1>4, <3>1, q \ {pick(q)} \in SUBSET r, q \ {pick(q)} # r, Zenon
    <3>4. Part(q)[q \ {pick(q)}] = Part(q \ {pick(q)})[q \ {pick(q)}]
      <4> HIDE DEF Part, pick
      <4> QED
      BY <2>1, <3>3, q \ {pick(q)} \subseteq q, SumsToAgree
    <3>5. QED
      BY <2>3, <3>2, <3>4, Zenon
  <2>4. QED
    BY <2>2, <2>3, Zenon
<1>6. SumsTo(g, f, r)
  <2>1. ASSUME NEW q \in SUBSET r, q # {}
        PROVE  g[q] = f[pick(q)] + g[q \ {pick(q)}]
    <3>1. pick(q) \in q
      BY <2>1, Zenon
    <3>2. q \ {pick(q)} \in SUBSET r /\ q \ {pick(q)} # r
      BY <3>1, Zenon
    <3>3. g[q \ {pick(q)}] = Part(q \ {pick(q)})[q \ {pick(q)}]
      BY <1>5, <3>2, Zenon
    <3>4. QED
      BY <2>1, <3>3, Zenon
  <2>2. g[{}] = 0
    BY Zenon
  <2>3. g = [q \in SUBSET r |-> g[q]]
    OBVIOUS
  <2> HIDE DEF g
  <2>4. \A q \in SUBSET r :
            g[q] = IF q = {} THEN 0 ELSE f[pick(q)] + g[q \ {pick(q)}]
    BY <2>1, <2>2, Zenon
  <2>5. g = [q \in SUBSET r |-> IF q = {} THEN 0 ELSE f[pick(q)] + g[q \ {pick(q)}]]
    BY <2>3, <2>4, Zenon
  <2>6. QED
    BY <2>5, Zenon DEF SumsTo
<1>7. QED
  BY <1>3, <1>6, Zenon

\* Nothing sums to 0.
LEMMA SumEmpty ==
    ASSUME NEW f
    PROVE  SumFunctionOnSet(f, {}) = 0
<1>1. IsFiniteSet({})
  BY FS_EmptySet, Zenon
<1>2. SumsTo(CHOOSE g : SumsTo(g, f, {}), f, {})
  BY <1>1, SumsToExists, Zenon
<1>3. QED
  BY <1>2, SumUnfolds, Zenon DEF SumsTo

\* A sum is one of its terms plus the sum of the others.
LEMMA SumChosen ==
    ASSUME NEW f, NEW S, IsFiniteSet(S), S # {}
    PROVE  \E x \in S : SumFunctionOnSet(f, S) = f[x] + SumFunctionOnSet(f, S \ {x})
<1> DEFINE x == CHOOSE x \in S : TRUE
           R == S \ {x}
           Part(q) == CHOOSE g : SumsTo(g, f, q)
<1>1. x \in S /\ R \subseteq S /\ IsFiniteSet(R)
  BY FS_Subset, Zenon
<1>2. SumsTo(Part(S), f, S) /\ SumsTo(Part(R), f, R)
  BY <1>1, SumsToExists, Zenon
<1>3. Part(S)[S] = f[x] + Part(S)[R]
  BY <1>2, Zenon DEF SumsTo
<1>4. SumFunctionOnSet(f, S) = Part(S)[S] /\ SumFunctionOnSet(f, R) = Part(R)[R]
  BY SumUnfolds, Zenon
<1>5. Part(S)[R] = Part(R)[R]
  <2> HIDE DEF Part, R
  <2> QED
  BY <1>1, <1>2, SumsToAgree
<1>6. QED
  BY <1>1, <1>3, <1>4, <1>5, Zenon

\* A sum of integers is an integer.
LEMMA SumType ==
    ASSUME NEW f, NEW S, IsFiniteSet(S), \A x \in S : f[x] \in Int
    PROVE  SumFunctionOnSet(f, S) \in Int
<1> DEFINE Bad == {r \in SUBSET S : SumFunctionOnSet(f, r) \notin Int}
<1>1. SUFFICES ASSUME Bad # {} PROVE FALSE
  BY Zenon
<1>2. PICK r \in Bad : \A q \in Bad : q \subseteq r => q = r
  <2>1. Bad \subseteq SUBSET S
    BY Zenon
  <2> HIDE DEF Bad
  <2>2. QED
    BY <1>1, <2>1, SmallestSubset
<1>3. r \subseteq S /\ IsFiniteSet(r) /\ r # {}
  <2>1. r \subseteq S /\ SumFunctionOnSet(f, r) \notin Int
    BY <1>2, Zenon
  <2>2. SumFunctionOnSet(f, {}) \in Int
    BY SumEmpty
  <2>3. QED
    BY <2>1, <2>2, FS_Subset, Zenon
<1>4. PICK x \in r : SumFunctionOnSet(f, r) = f[x] + SumFunctionOnSet(f, r \ {x})
  BY <1>3, SumChosen, Zenon
<1>5. SumFunctionOnSet(f, r \ {x}) \in Int
  BY <1>2, <1>3, r \ {x} # r, Zenon
<1>6. QED
  BY <1>2, <1>3, <1>4, <1>5

\* A sum of naturals is a natural.
LEMMA SumNat ==
    ASSUME NEW f, NEW S, IsFiniteSet(S), \A x \in S : f[x] \in Nat
    PROVE  SumFunctionOnSet(f, S) \in Nat
<1> DEFINE Bad == {r \in SUBSET S : SumFunctionOnSet(f, r) \notin Nat}
<1>1. SUFFICES ASSUME Bad # {} PROVE FALSE
  BY Zenon
<1>2. PICK r \in Bad : \A q \in Bad : q \subseteq r => q = r
  <2>1. Bad \subseteq SUBSET S
    BY Zenon
  <2> HIDE DEF Bad
  <2>2. QED
    BY <1>1, <2>1, SmallestSubset
<1>3. r \subseteq S /\ IsFiniteSet(r) /\ r # {}
  <2>1. r \subseteq S /\ SumFunctionOnSet(f, r) \notin Nat
    BY <1>2, Zenon
  <2>2. SumFunctionOnSet(f, {}) \in Nat
    BY SumEmpty
  <2>3. QED
    BY <2>1, <2>2, FS_Subset, Zenon
<1>4. PICK x \in r : SumFunctionOnSet(f, r) = f[x] + SumFunctionOnSet(f, r \ {x})
  BY <1>3, SumChosen, Zenon
<1>5. SumFunctionOnSet(f, r \ {x}) \in Nat
  BY <1>2, <1>3, r \ {x} # r, Zenon
<1>6. QED
  BY <1>2, <1>3, <1>4, <1>5

\* Any term can be taken out first: the order of summation does not matter.
LEMMA SumTake ==
    ASSUME NEW f, NEW S, IsFiniteSet(S), \A y \in S : f[y] \in Int, NEW x \in S
    PROVE  SumFunctionOnSet(f, S) = f[x] + SumFunctionOnSet(f, S \ {x})
<1> DEFINE Sum(r) == SumFunctionOnSet(f, r)
<1> DEFINE Bad == {r \in SUBSET S : \E y \in r : Sum(r) # f[y] + Sum(r \ {y})}
<1>1. SUFFICES ASSUME Bad # {} PROVE FALSE
  BY Zenon
<1>2. PICK r \in Bad : \A q \in Bad : q \subseteq r => q = r
  <2>1. Bad \subseteq SUBSET S
    BY Zenon
  <2> HIDE DEF Bad
  <2>2. QED
    BY <1>1, <2>1, SmallestSubset
<1>3. r \subseteq S /\ IsFiniteSet(r) /\ \E y \in r : Sum(r) # f[y] + Sum(r \ {y})
  BY <1>2, FS_Subset, Zenon
<1>4. PICK y \in r : Sum(r) # f[y] + Sum(r \ {y})
  BY <1>3, Zenon
<1>5. PICK z \in r : Sum(r) = f[z] + Sum(r \ {z})
  BY <1>3, SumChosen, Zenon
<1>6. y # z
  BY <1>4, <1>5, Zenon
<1>7. Sum(r \ {z}) = f[y] + Sum((r \ {z}) \ {y})
  <2>1. r \ {z} \notin Bad /\ r \ {z} \subseteq S /\ y \in r \ {z}
    BY <1>2, <1>3, <1>6, Zenon
  <2> HIDE DEF Sum
  <2>2. QED
    BY <2>1, Zenon
<1>8. Sum(r \ {y}) = f[z] + Sum((r \ {y}) \ {z})
  <2>1. r \ {y} \notin Bad /\ r \ {y} \subseteq S /\ z \in r \ {y}
    BY <1>2, <1>3, <1>6, Zenon
  <2> HIDE DEF Sum
  <2>2. QED
    BY <2>1, Zenon
<1>9. (r \ {z}) \ {y} = (r \ {y}) \ {z}
  BY Zenon
<1>10. Sum((r \ {y}) \ {z}) \in Int
  <2>1. IsFiniteSet((r \ {y}) \ {z}) /\ \A w \in (r \ {y}) \ {z} : f[w] \in Int
    BY <1>3, FS_Subset, Zenon
  <2>2. QED
    BY <2>1, SumType, Zenon
<1>11. f[y] \in Int /\ f[z] \in Int
  BY <1>3, Zenon
<1> HIDE DEF Sum
<1>12. \A a, b, c \in Int : a + (b + c) = b + (a + c)
  OBVIOUS
<1>13. Sum(r) = f[z] + (f[y] + Sum((r \ {y}) \ {z}))
  BY <1>5, <1>7, <1>9, Zenon
<1>14. Sum(r) = f[y] + (f[z] + Sum((r \ {y}) \ {z}))
  BY <1>10, <1>11, <1>12, <1>13, Zenon
<1>15. Sum(r) = f[y] + Sum(r \ {y})
  BY <1>8, <1>14, Zenon
<1>16. QED
  BY <1>4, <1>15, Zenon

\* The sum over a set is the sum over a part of it plus the sum over the rest.
LEMMA SumSplit ==
    ASSUME NEW f, NEW S, IsFiniteSet(S), \A x \in S : f[x] \in Int, NEW R, R \subseteq S
    PROVE  SumFunctionOnSet(f, S) = SumFunctionOnSet(f, R) + SumFunctionOnSet(f, S \ R)
<1> DEFINE Sum(r) == SumFunctionOnSet(f, r)
<1> DEFINE Bad == {r \in SUBSET S : Sum(S) # Sum(r) + Sum(S \ r)}
<1>1. SUFFICES ASSUME Bad # {} PROVE FALSE
  BY Zenon
<1>2. PICK r \in Bad : \A q \in Bad : q \subseteq r => q = r
  <2>1. Bad \subseteq SUBSET S
    BY Zenon
  <2> HIDE DEF Bad
  <2>2. QED
    BY <1>1, <2>1, SmallestSubset
<1>3. ASSUME NEW q \in SUBSET S
      PROVE  IsFiniteSet(q) /\ (\A x \in q : f[x] \in Int) /\ Sum(q) \in Int
  <2>1. IsFiniteSet(q) /\ \A x \in q : f[x] \in Int
    BY FS_Subset, Zenon
  <2>2. QED
    BY <2>1, SumType, Zenon
<1>4. r \in SUBSET S /\ Sum(S) # Sum(r) + Sum(S \ r)
  BY <1>2, Zenon
<1>5. r # {}
  <2>1. Sum({}) = 0 /\ S \ {} = S /\ Sum(S) \in Int
    BY SumEmpty, <1>3, Zenon
  <2> HIDE DEF Sum
  <2>2. QED
    BY <1>4, <2>1
<1>6. PICK x \in r : TRUE
  BY <1>5, Zenon
<1> DEFINE q == r \ {x}
<1>7. q \in SUBSET S /\ S \ r = (S \ q) \ {x} /\ x \in S \ q
  BY <1>4, <1>6, Zenon
<1>8. Sum(S) = Sum(q) + Sum(S \ q)
  <2>1. q \notin Bad
    BY <1>2, <1>6, Zenon
  <2> HIDE DEF Sum, q
  <2>2. QED
    BY <1>7, <2>1, Zenon
<1>9. Sum(r) = f[x] + Sum(q)
  BY <1>3, <1>4, SumTake
<1>10. Sum(S \ q) = f[x] + Sum((S \ q) \ {x})
  <2> HIDE DEF q
  <2>1. IsFiniteSet(S \ q) /\ \A y \in S \ q : f[y] \in Int
    BY <1>3, Zenon
  <2>2. QED
    BY <1>7, <2>1, SumTake
<1>11. f[x] \in Int /\ Sum(q) \in Int /\ Sum((S \ q) \ {x}) \in Int
  BY <1>3, <1>7, Zenon
<1>12. \A a, b, c \in Int : b + (a + c) = (a + b) + c
  OBVIOUS
<1> HIDE DEF Sum, q
<1>13. Sum(S) = Sum(q) + (f[x] + Sum((S \ q) \ {x}))
  BY <1>8, <1>10, Zenon
<1>14. Sum(S) = (f[x] + Sum(q)) + Sum((S \ q) \ {x})
  BY <1>11, <1>12, <1>13, Zenon
<1>15. Sum(S) = Sum(r) + Sum(S \ r)
  BY <1>7, <1>9, <1>14, Zenon
<1>16. QED
  BY <1>4, <1>15, Zenon

\* Functions that agree on a set have the same sum over it.
LEMMA SumAgree ==
    ASSUME NEW f, NEW g, NEW S, IsFiniteSet(S), \A x \in S : f[x] \in Int /\ f[x] = g[x]
    PROVE  SumFunctionOnSet(f, S) = SumFunctionOnSet(g, S)
<1> DEFINE Bad == {r \in SUBSET S : SumFunctionOnSet(f, r) # SumFunctionOnSet(g, r)}
<1>1. SUFFICES ASSUME Bad # {} PROVE FALSE
  BY Zenon
<1>2. PICK r \in Bad : \A q \in Bad : q \subseteq r => q = r
  <2>1. Bad \subseteq SUBSET S
    BY Zenon
  <2> HIDE DEF Bad
  <2>2. QED
    BY <1>1, <2>1, SmallestSubset
<1>3. r \subseteq S /\ IsFiniteSet(r) /\ SumFunctionOnSet(f, r) # SumFunctionOnSet(g, r)
  BY <1>2, FS_Subset, Zenon
<1>4. r # {}
  BY <1>3, SumEmpty, Zenon
<1>5. PICK x \in r : TRUE
  BY <1>4, Zenon
<1>6. \A y \in r : f[y] \in Int /\ g[y] \in Int /\ f[y] = g[y]
  BY <1>3, Zenon
<1>7. /\ SumFunctionOnSet(f, r) = f[x] + SumFunctionOnSet(f, r \ {x})
      /\ SumFunctionOnSet(g, r) = g[x] + SumFunctionOnSet(g, r \ {x})
  BY <1>3, <1>5, <1>6, SumTake
<1>8. SumFunctionOnSet(f, r \ {x}) = SumFunctionOnSet(g, r \ {x})
  BY <1>2, <1>3, <1>5
<1>9. QED
  BY <1>3, <1>5, <1>6, <1>7, <1>8, Zenon

\* The sum of differences is the difference of the sums.
LEMMA SumMinus ==
    ASSUME NEW f, NEW g, NEW h, NEW S, IsFiniteSet(S),
           \A x \in S : f[x] \in Int /\ g[x] \in Int /\ h[x] = f[x] - g[x]
    PROVE  SumFunctionOnSet(h, S) = SumFunctionOnSet(f, S) - SumFunctionOnSet(g, S)
<1> DEFINE F(r) == SumFunctionOnSet(f, r)
           G(r) == SumFunctionOnSet(g, r)
           H(r) == SumFunctionOnSet(h, r)
           Bad == {r \in SUBSET S : H(r) # F(r) - G(r)}
<1>1. SUFFICES ASSUME Bad # {} PROVE FALSE
  BY Zenon
<1>2. PICK r \in Bad : \A q \in Bad : q \subseteq r => q = r
  <2>1. Bad \subseteq SUBSET S
    BY Zenon
  <2> HIDE DEF Bad
  <2>2. QED
    BY <1>1, <2>1, SmallestSubset
<1>3. r \subseteq S /\ IsFiniteSet(r) /\ H(r) # F(r) - G(r)
  BY <1>2, FS_Subset, Zenon
<1>4. r # {}
  <2>1. H({}) = 0 /\ F({}) = 0 /\ G({}) = 0
    BY SumEmpty, Zenon
  <2>2. CASE r = {}
    <3> HIDE DEF F, G, H
    <3>1. H(r) = 0 /\ F(r) = 0 /\ G(r) = 0
      BY <2>1, <2>2, Zenon
    <3>2. QED
      BY <1>3, <3>1
  <2>3. QED
    BY <2>2, Zenon
<1>5. PICK x \in r : TRUE
  BY <1>4, Zenon
<1>6. \A y \in r : f[y] \in Int /\ g[y] \in Int /\ h[y] \in Int /\ h[y] = f[y] - g[y]
  BY <1>3
<1>7. F(r) = f[x] + F(r \ {x}) /\ G(r) = g[x] + G(r \ {x}) /\ H(r) = h[x] + H(r \ {x})
  BY <1>3, <1>5, <1>6, SumTake
<1>8. F(r \ {x}) \in Int /\ G(r \ {x}) \in Int
  <2>1. IsFiniteSet(r \ {x})
    BY <1>3, FS_Subset, Zenon
  <2>2. QED
    BY <1>6, <2>1, SumType, Zenon
<1>9. H(r \ {x}) = F(r \ {x}) - G(r \ {x})
  <2>1. r \ {x} \notin Bad /\ r \ {x} \in SUBSET S
    BY <1>2, <1>3, <1>5, Zenon
  <2> HIDE DEF F, G, H
  <2>2. QED
    BY <2>1, Zenon
<1>10. f[x] \in Int /\ g[x] \in Int /\ h[x] = f[x] - g[x]
  BY <1>5, <1>6, Zenon
<1> HIDE DEF F, G, H
<1>11. QED
  BY <1>3, <1>7, <1>8, <1>9, <1>10

\* A is the union of the disjoint finite sets F[1] .. F[n].
Partitions(F, n, A) ==
    /\ \A i \in 1 .. n : IsFiniteSet(F[i])
    /\ \A i, j \in 1 .. n : i # j => F[i] \cap F[j] = {}
    /\ \A x : x \in A <=> \E i \in 1 .. n : x \in F[i]

\* g[i] is the sum of f over F[i].
PartSums(g, f, F, n) ==
    \A i \in 1 .. n : (\A x \in F[i] : f[x] \in Int) /\ g[i] = SumFunctionOnSet(f, F[i])

\* The sum over a union of disjoint sets is the sum of the sums over each.
LEMMA SumFamily ==
    ASSUME NEW n \in Nat, NEW F, NEW A, Partitions(F, n, A), NEW f, NEW g, PartSums(g, f, F, n)
    PROVE  IsFiniteSet(A) /\ SumFunctionOnSet(g, 1 .. n) = SumFunctionOnSet(f, A)
<1>0. /\ \A i \in 1 .. n : IsFiniteSet(F[i])
      /\ \A i, j \in 1 .. n : i # j => F[i] \cap F[j] = {}
      /\ \A x : x \in A <=> \E i \in 1 .. n : x \in F[i]
      /\ \A i \in 1 .. n : \A x \in F[i] : f[x] \in Int
      /\ \A i \in 1 .. n : g[i] = SumFunctionOnSet(f, F[i])
  BY Zenon DEF Partitions, PartSums
<1> DEFINE U(k) == UNION {F[i] : i \in 1 .. k}
           Good(k) == IsFiniteSet(U(k)) /\ SumFunctionOnSet(g, 1 .. k) = SumFunctionOnSet(f, U(k))
           Bad == {k \in 0 .. n : ~Good(k)}
<1>1. SUFFICES ASSUME Bad # {} PROVE FALSE
  <2>1. n \in 0 .. n
    OBVIOUS
  <2>2. Bad = {} => Good(n)
    <3> HIDE DEF Good
    <3>1. QED
      BY <2>1, Zenon
  <2>3. U(n) = A
    BY <1>0
  <2>4. QED
    BY <2>2, <2>3, Zenon
<1>2. PICK k \in Bad : \A m \in Bad : k <= m
  <2>1. Bad \subseteq Nat
    OBVIOUS
  <2> HIDE DEF Bad
  <2>2. QED
    BY <1>1, <2>1, LeastNumber, Zenon
<1>3. k \in 0 .. n /\ ~Good(k)
  BY <1>2, Zenon
<1>4. k # 0
  <2>1. 1 .. 0 = {} /\ U(0) = {}
    OBVIOUS
  <2>2. Good(0)
    BY <2>1, SumEmpty, FS_EmptySet, Zenon
  <2>3. QED
    BY <1>3, <2>2, Zenon
<1>5. k - 1 \in 0 .. n /\ k \in 1 .. n /\ k \in Nat
  BY <1>3, <1>4
<1>6. Good(k - 1)
  <2> HIDE DEF Good
  <2>1. k - 1 \notin Bad
    BY <1>2, <1>5
  <2>2. QED
    BY <1>5, <2>1, Zenon
<1>7. U(k) = U(k - 1) \cup F[k] /\ U(k) \ F[k] = U(k - 1)
  <2>1. \A i \in 1 .. k : i = k \/ i \in 1 .. k - 1
    BY <1>5
  <2>2. \A i \in 1 .. k - 1 : i \in 1 .. k /\ i \in 1 .. n /\ i # k
    BY <1>5
  <2>3. U(k) = U(k - 1) \cup F[k]
    BY <1>5, <2>1, <2>2
  <2>4. U(k - 1) \cap F[k] = {}
    BY <1>0, <1>5, <2>2
  <2> HIDE DEF U
  <2>5. QED
    BY <2>3, <2>4, Zenon
<1>8. IsFiniteSet(U(k))
  <2>1. IsFiniteSet(F[k]) /\ IsFiniteSet(U(k - 1))
    BY <1>0, <1>5, <1>6, Zenon
  <2> HIDE DEF U
  <2>2. IsFiniteSet(U(k - 1) \cup F[k])
    BY <2>1, FS_Union, Zenon
  <2>3. QED
    BY <1>7, <2>2, Zenon
<1>9. \A x \in U(k) : f[x] \in Int
  BY <1>0, <1>5
<1>10. \A i \in 1 .. k : g[i] \in Int
  <2>1. \A i \in 1 .. k : i \in 1 .. n
    BY <1>5
  <2>2. QED
    BY <1>0, <2>1, SumType
<1>11. SumFunctionOnSet(g, 1 .. k) = g[k] + SumFunctionOnSet(g, 1 .. k - 1)
  <2>1. k \in 1 .. k /\ (1 .. k) \ {k} = 1 .. k - 1
    BY <1>5
  <2>2. IsFiniteSet(1 .. k)
    BY <1>5, FS_Interval
  <2> DEFINE R == 1 .. k
             x == k
  <2>3. IsFiniteSet(R) /\ x \in R /\ \A i \in R : g[i] \in Int
    BY <1>10, <2>1, <2>2, Zenon
  <2> HIDE DEF R, x
  <2>4. SumFunctionOnSet(g, R) = g[x] + SumFunctionOnSet(g, R \ {x})
    BY <2>3, SumTake
  <2>5. QED
    BY <2>1, <2>4, Zenon DEF R, x
<1>12. SumFunctionOnSet(f, U(k)) = SumFunctionOnSet(f, F[k]) + SumFunctionOnSet(f, U(k - 1))
  <2> HIDE DEF U
  <2>1. F[k] \subseteq U(k)
    BY <1>7, Zenon
  <2>2. SumFunctionOnSet(f, U(k)) = SumFunctionOnSet(f, F[k]) + SumFunctionOnSet(f, U(k) \ F[k])
    BY <1>8, <1>9, <2>1, SumSplit
  <2>3. QED
    BY <1>7, <2>2, Zenon
<1>13. g[k] = SumFunctionOnSet(f, F[k])
  BY <1>0, <1>5, Zenon
<1>14. SumFunctionOnSet(g, 1 .. k - 1) = SumFunctionOnSet(f, U(k - 1))
  BY <1>6, Zenon
<1> HIDE DEF U
<1>15. QED
  BY <1>3, <1>8, <1>11, <1>12, <1>13, <1>14, Zenon

-----------------------------------------------------------------------------
(* Listings *)

\* A listing of a finite set without repetition names each of its elements.
LEMMA OrdersAreOnto ==
    ASSUME NEW S, IsFiniteSet(S), NEW order \in [1 .. Cardinality(S) -> S], IsInjective(order)
    PROVE  Cardinality(S) \in Nat /\ \A x \in S : \E i \in 1 .. Cardinality(S) : order[i] = x
<1>1. Cardinality(S) \in Nat
  BY FS_CardinalityType, Zenon
<1>2. IsFiniteSet(1 .. Cardinality(S)) /\ Cardinality(1 .. Cardinality(S)) = Cardinality(S)
  BY <1>1, FS_Interval
<1>3. order \in Injection(1 .. Cardinality(S), S)
  BY Zenon DEF Injection
<1>4. order \in Surjection(1 .. Cardinality(S), S)
  BY <1>2, <1>3, FS_Injection, Zenon
<1>5. QED
  BY <1>1, <1>4, Zenon DEF Surjection

\* There are finitely many positions up to n.
LEMMA FirstFinite ==
    ASSUME NEW n \in Nat
    PROVE  IsFiniteSet(1 .. n)
BY FS_Interval

\* Summing along a listing is summing over the set.
LEMMA SumReindex ==
    ASSUME NEW f, NEW S, \A x \in S : f[x] \in Int,
           NEW n \in Nat, NEW order \in [1 .. n -> S], IsInjective(order),
           \A x \in S : \E i \in 1 .. n : order[i] = x,
           NEW g, \A i \in 1 .. n : g[i] = f[order[i]]
    PROVE  SumFunctionOnSet(g, 1 .. n) = SumFunctionOnSet(f, S)
<1> DEFINE Image(k) == {order[i] : i \in 1 .. k}
           Bad == {k \in 0 .. n : SumFunctionOnSet(g, 1 .. k) # SumFunctionOnSet(f, Image(k))}
<1>1. Image(n) = S
  BY Zenon
<1>2. SUFFICES ASSUME Bad # {} PROVE FALSE
  <2>1. n \in 0 .. n
    OBVIOUS
  <2> HIDE DEF Image
  <2>2. QED
    BY <1>1, <2>1, Zenon
<1>3. PICK k \in Bad : \A m \in Bad : k <= m
  <2>1. Bad \subseteq Nat
    OBVIOUS
  <2> HIDE DEF Bad
  <2>2. QED
    BY <1>2, <2>1, LeastNumber, Zenon
<1>4. k \in 0 .. n /\ SumFunctionOnSet(g, 1 .. k) # SumFunctionOnSet(f, Image(k))
  BY <1>3, Zenon
<1>5. k # 0
  <2>1. 1 .. 0 = {} /\ Image(0) = {}
    OBVIOUS
  <2> HIDE DEF Image
  <2>2. QED
    BY <1>4, <2>1, SumEmpty, Zenon
<1>6. SumFunctionOnSet(g, 1 .. k - 1) = SumFunctionOnSet(f, Image(k - 1))
  <2>1. k - 1 \in 0 .. n /\ k - 1 \notin Bad
    BY <1>3, <1>4, <1>5
  <2> HIDE DEF Image
  <2>2. QED
    BY <2>1, Zenon
<1>7. SumFunctionOnSet(g, 1 .. k) = g[k] + SumFunctionOnSet(g, 1 .. k - 1)
  <2>1. k \in 1 .. k /\ (1 .. k) \ {k} = 1 .. k - 1
    BY <1>4, <1>5
  <2>2. IsFiniteSet(1 .. k)
    BY <1>4, FS_Interval
  <2>3. \A i \in 1 .. k : g[i] \in Int
    BY <1>4
  <2>4. SumFunctionOnSet(g, 1 .. k) = g[k] + SumFunctionOnSet(g, (1 .. k) \ {k})
    <3> DEFINE x == k
               R == 1 .. k
    <3>1. IsFiniteSet(R) /\ x \in R /\ \A i \in R : g[i] \in Int
      BY <2>1, <2>2, <2>3, Zenon
    <3> HIDE DEF R, x
    <3>2. SumFunctionOnSet(g, R) = g[x] + SumFunctionOnSet(g, R \ {x})
      BY <3>1, SumTake
    <3>3. QED
      BY <3>2, Zenon DEF R, x
  <2>5. QED
    BY <2>1, <2>4, Zenon
<1>8. SumFunctionOnSet(f, Image(k)) = f[order[k]] + SumFunctionOnSet(f, Image(k - 1))
  <2>1. IsFiniteSet(S)
    <3>1. order \in Surjection(1 .. n, S)
      BY Zenon DEF Surjection
    <3>2. IsFiniteSet(1 .. n)
      BY FirstFinite, Zenon
    <3>3. QED
      BY <3>1, <3>2, FS_Surjection, Zenon
  <2>2. Image(k) \subseteq S
    BY <1>4
  <2>3. IsFiniteSet(Image(k)) /\ \A x \in Image(k) : f[x] \in Int
    BY <2>1, <2>2, FS_Subset, Zenon
  <2>4. order[k] \in Image(k)
    BY <1>4, <1>5
  <2>5. Image(k) \ {order[k]} = Image(k - 1)
    <3>1. \A i \in 1 .. k : order[i] = order[k] => i = k
      BY <1>4, <1>5 DEF IsInjective
    <3>2. \A i \in 1 .. k : i # k => i \in 1 .. k - 1
      BY <1>4, <1>5
    <3>3. \A i \in 1 .. k - 1 : i \in 1 .. k /\ i # k
      BY <1>4, <1>5
    <3>4. QED
      BY <3>1, <3>2, <3>3
  <2> HIDE DEF Image
  <2>6. SumFunctionOnSet(f, Image(k)) = f[order[k]] + SumFunctionOnSet(f, Image(k) \ {order[k]})
    <3> DEFINE x == order[k]
               R == Image(k)
    <3>1. IsFiniteSet(R) /\ x \in R /\ \A y \in R : f[y] \in Int
      BY <2>3, <2>4, Zenon
    <3> HIDE DEF R, x
    <3>2. SumFunctionOnSet(f, R) = f[x] + SumFunctionOnSet(f, R \ {x})
      BY <3>1, SumTake
    <3>3. QED
      BY <3>2, Zenon DEF R, x
  <2>7. QED
    BY <2>5, <2>6, Zenon
<1>9. g[k] = f[order[k]]
  BY <1>4, <1>5
<1> HIDE DEF Image
<1>10. QED
  BY <1>4, <1>6, <1>7, <1>8, <1>9, Zenon

-----------------------------------------------------------------------------
(* Amounts *)

\* A sequence has finitely many positions.
LEMMA SeqDomainFinite ==
    ASSUME NEW X, NEW s \in Seq(X)
    PROVE  IsFiniteSet(DOMAIN s)
<1>1. DOMAIN s = 1 .. Len(s) /\ Len(s) \in Nat
  OBVIOUS
<1>2. QED
  BY <1>1, FS_Interval

\* The elements of a sequence over X are in X.
LEMMA SeqElement ==
    ASSUME NEW X, NEW s \in Seq(X), NEW i \in DOMAIN s
    PROVE  s[i] \in X
OBVIOUS

\* What a transaction pays out is a natural number.
LEMMA OutputTotalNat ==
    ASSUME NEW t \in Tx
    PROVE  OutputTotal(t) \in Nat
<1> DEFINE f == [i \in DOMAIN Outputs[t] |-> Outputs[t][i].amount]
<1>1. Outputs[t] \in Seq([amount : 0 .. MaxUint, script : Script])
  BY LedgerAssumption, Zenon
<1>2. IsFiniteSet(DOMAIN Outputs[t])
  BY <1>1, SeqDomainFinite, Zenon
<1>3. \A i \in DOMAIN Outputs[t] : Outputs[t][i].amount \in Nat
  <2>1. MaxUint \in Nat
    BY LedgerAssumption, Zenon
  <2>2. \A i \in DOMAIN Outputs[t] : Outputs[t][i] \in [amount : 0 .. MaxUint, script : Script]
    BY <1>1, SeqElement, Zenon
  <2>3. QED
    BY <2>1, <2>2
<1>4. DOMAIN f = DOMAIN Outputs[t] /\ \A i \in DOMAIN f : f[i] \in Nat
  BY <1>3, Zenon
<1>5. OutputTotal(t) = SumFunctionOnSet(f, DOMAIN f)
  BY Zenon DEF OutputTotal, SumFunction
<1> HIDE DEF f
<1>6. QED
  BY <1>2, <1>4, <1>5, SumNat, Zenon

\* So is what it takes in, when the coins it spends are there.
LEMMA InputTotalNat ==
    ASSUME NEW t \in Tx, NEW coins \in Log,
           \A i \in DOMAIN Inputs[t] :
                Inputs[t][i].prev \in Outpoint /\ coins[Inputs[t][i].prev] # None
    PROVE  InputTotal(t, coins) \in Nat
<1> DEFINE f == [i \in DOMAIN Inputs[t] |-> coins[Inputs[t][i].prev].amount]
<1>1. IsFiniteSet(DOMAIN Inputs[t])
  BY SeqDomainFinite, LedgerAssumption, Zenon
<1>2. \A o \in Outpoint : coins[o] # None => coins[o].amount \in Nat
  BY Zenon DEF Log, Coin
<1>3. DOMAIN f = DOMAIN Inputs[t] /\ \A i \in DOMAIN f : f[i] \in Nat
  BY <1>2, Zenon
<1>4. InputTotal(t, coins) = SumFunctionOnSet(f, DOMAIN f)
  BY Zenon DEF InputTotal, SumFunction
<1> HIDE DEF f
<1>5. QED
  BY <1>1, <1>3, <1>4, SumNat, Zenon

-----------------------------------------------------------------------------
(* Connecting a block *)

\* A valid transaction spends something, and only coins that are there: one that
\* spent nothing could not pay the relay minimum.
LEMMA ValidSpends ==
    ASSUME NEW t \in Tx, NEW coins \in Log, NEW claimed, NEW h, ValidTx(t, coins, claimed, h)
    PROVE  /\ ~IsCoinbase(t) /\ SpentBy(t) # {} /\ SpentBy(t) \cap claimed = {}
           /\ \A o \in SpentBy(t) : o \in Outpoint /\ coins[o] # None
           /\ \A i, j \in DOMAIN Inputs[t] : Inputs[t][i].prev = Inputs[t][j].prev => i = j
           /\ InputTotal(t, coins) \in Nat /\ OutputTotal(t) \in Nat
<1>1. /\ \A i \in DOMAIN Inputs[t] : /\ Inputs[t][i].prev \in Outpoint /\ Inputs[t][i].prev \notin claimed
                                     /\ coins[Inputs[t][i].prev] # None
      /\ \A i, j \in DOMAIN Inputs[t] : Inputs[t][i].prev = Inputs[t][j].prev => i = j
  BY Zenon DEF ValidTx, ValidInputs
<1>2. OutputTotal(t) \in Nat /\ InputTotal(t, coins) \in Nat
  BY <1>1, OutputTotalNat, InputTotalNat, Zenon
<1>3. MinFee(t) \in Nat \ {0}
  <2>1. Size[t] \in Nat \ {0} /\ MinRelayFeePerByte \in Nat \ {0}
    BY LedgerAssumption, Zenon
  <2>2. \A a, b \in Nat \ {0} : a * b \in Nat \ {0}
    OBVIOUS
  <2>3. QED
    BY <2>1, <2>2, Zenon DEF MinFee
<1>4. InputTotal(t, coins) - OutputTotal(t) >= MinFee(t) /\ ~IsCoinbase(t)
  BY Zenon DEF ValidTx, Fee
<1>5. DOMAIN Inputs[t] # {}
  <2> SUFFICES ASSUME DOMAIN Inputs[t] = {} PROVE FALSE
    BY Zenon
  <2>1. InputTotal(t, coins) = 0
    BY SumEmpty, Zenon DEF InputTotal, SumFunction
  <2>2. QED
    BY <1>2, <1>3, <1>4, <2>1
<1>6. QED
  BY <1>1, <1>2, <1>4, <1>5, Zenon DEF SpentBy

\* What ValidateBlockTransactions finds before it looks at the claim of the
\* coinbase.  It also holds of the first block, which is never validated.
Connectable(b, coins) ==
    /\ Len(Body[b]) > 0 /\ IsCoinbase(Body[b][1])
    /\ ValidPayments(Payments(b), HeightOf(b), coins)

\* The payments of such a block spend different coins, all of them there before it.
LEMMA PaymentsSpend ==
    ASSUME NEW b \in Block, NEW coins \in Log, Connectable(b, coins)
    PROVE  /\ 1 \in DOMAIN Body[b]
           /\ \A i \in DOMAIN Body[b] : i # 1 =>
                /\ ~IsCoinbase(Body[b][i]) /\ SpentBy(Body[b][i]) # {}
                /\ \A o \in SpentBy(Body[b][i]) : o \in Outpoint /\ coins[o] # None
           /\ \A i, j \in DOMAIN Body[b] :
                i # 1 /\ j # 1 /\ i # j => SpentBy(Body[b][i]) \cap SpentBy(Body[b][j]) = {}
<1> DEFINE n == Len(Body[b])
           P == Payments(b)
<1>1. Body[b] \in Seq(Tx) /\ n \in Nat /\ n > 0 /\ DOMAIN Body[b] = 1 .. n
  BY LedgerAssumption DEF Connectable
<1>2. DOMAIN P = 1 .. n - 1 /\ \A i \in 1 .. n - 1 : P[i] = Body[b][i + 1] /\ P[i] \in Tx
  BY <1>1 DEF Payments
<1>3. ASSUME NEW i \in 1 .. n, i # 1
      PROVE  /\ i - 1 \in DOMAIN P /\ P[i - 1] = Body[b][i] /\ Body[b][i] \in Tx
             /\ ValidTx(Body[b][i], coins, SpentBefore(P, i - 1), HeightOf(b))
  <2>1. i - 1 \in 1 .. n - 1 /\ (i - 1) + 1 = i
    BY <1>1, <1>3
  <2>2. P[i - 1] = Body[b][i] /\ P[i - 1] \in Tx
    BY <1>2, <2>1, Zenon
  <2>3. ValidTx(P[i - 1], coins, SpentBefore(P, i - 1), HeightOf(b))
    BY <1>2, <2>1, Zenon DEF Connectable, ValidPayments
  <2>4. QED
    BY <1>2, <2>1, <2>2, <2>3, Zenon
<1> HIDE DEF n, P
<1>4. ASSUME NEW i \in 1 .. n, i # 1
      PROVE  /\ ~IsCoinbase(Body[b][i]) /\ SpentBy(Body[b][i]) # {}
             /\ \A o \in SpentBy(Body[b][i]) : o \in Outpoint /\ coins[o] # None
             /\ SpentBy(Body[b][i]) \cap SpentBefore(P, i - 1) = {}
  BY <1>3, <1>4, ValidSpends
<1>5. ASSUME NEW i \in 1 .. n, NEW j \in 1 .. n, i # 1, j < i, j # 1
      PROVE  SpentBy(Body[b][i]) \cap SpentBy(Body[b][j]) = {}
  <2>1. j - 1 \in 1 .. (i - 1) - 1
    BY <1>1, <1>5
  <2>2. P[j - 1] = Body[b][j]
    BY <1>3, <1>5, Zenon
  <2>3. SpentBy(Body[b][j]) \subseteq SpentBefore(P, i - 1)
    BY <2>1, <2>2, Zenon DEF SpentBefore
  <2>4. QED
    BY <1>4, <1>5, <2>3, Zenon
<1>6. \A i, j \in 1 .. n : i # j => i < j \/ j < i
  BY <1>1
<1>7. 1 \in 1 .. n
  BY <1>1
<1>8. QED
  BY <1>1, <1>4, <1>5, <1>6, <1>7, Zenon

\* The largest of some numbers up to n.
LEMMA MaxInSet ==
    ASSUME NEW n \in Nat, NEW S, S \subseteq 1 .. n, S # {}
    PROVE  Max(S) \in S
<1> DEFINE D == {n - x : x \in S}
<1>1. D \subseteq Nat /\ D # {}
  <2>1. \A x \in S : n - x \in Nat
    OBVIOUS
  <2>2. QED
    BY <2>1, Zenon
<1>2. PICK d \in D : \A m \in D : d <= m
  <2> HIDE DEF D
  <2>1. QED
    BY <1>1, LeastNumber, Zenon
<1>3. PICK x \in S : d = n - x
  BY <1>2, Zenon
<1>4. \A y \in S : x >= y
  <2>1. \A y \in S : n - x <= n - y
    BY <1>2, <1>3, Zenon
  <2>2. QED
    BY <2>1
<1>5. QED
  BY <1>4, Zenon DEF Max

\* The outputs a block creates.
CreatedIn(b) == UNION {CreatedBy(Body[b][i]) : i \in DOMAIN Body[b]}

\* The names of outputs.
LEMMA CreatedNames ==
    ASSUME NEW t \in Tx, NEW o \in CreatedBy(t)
    PROVE  o \in Outpoint /\ o[1] = t /\ o[2] \in DOMAIN Outputs[t]
BY Zenon DEF CreatedBy, Outpoint

\* Coins on disk.
Held(coins) == {o \in Outpoint : coins[o] # None}

\* The coins fit the transactions that were connected so far: every coin is an
\* output of one of them, what one of them spent is gone, and was an output of one.
Fits(coins, done) ==
    /\ coins \in Log
    /\ \A o \in Outpoint : coins[o] # None => o[1] \in done
    /\ \A x \in done : ~IsCoinbase(x) =>
        \A o \in SpentBy(x) : o \in Outpoint /\ coins[o] = None /\ o[1] \in done

\* A block whose coinbase is new has only new transactions: a payment that was
\* connected before would spend coins that are gone.
LEMMA BlockIsNew ==
    ASSUME NEW b \in Block, NEW coins, NEW done, Fits(coins, done), Connectable(b, coins),
           Body[b][1] \notin done
    PROVE  \A i \in DOMAIN Body[b] : Body[b][i] \notin done
<1> SUFFICES ASSUME NEW i \in DOMAIN Body[b], i # 1, Body[b][i] \in done
             PROVE  FALSE
  BY Zenon
<1>1. coins \in Log
  BY Zenon DEF Fits
<1>2. /\ ~IsCoinbase(Body[b][i]) /\ SpentBy(Body[b][i]) # {}
      /\ \A o \in SpentBy(Body[b][i]) : coins[o] # None
  BY <1>1, PaymentsSpend, Zenon
<1>3. QED
  BY <1>2, Zenon DEF Fits

\* A block creates its outputs, deletes what its payments spend and leaves the
\* other coins alone; no output is both created and spent, or was there before.
LEMMA ConnectedCoins ==
    ASSUME NEW b \in Block, NEW coins, NEW done, Fits(coins, done), Connectable(b, coins),
           Body[b][1] \notin done, NEW o \in Outpoint
    PROVE  /\ o \in CreatedIn(b) =>
                /\ coins[o] = None /\ o \notin SpentIn(b)
                /\ \E i \in DOMAIN Body[b] :
                    o \in CreatedBy(Body[b][i]) /\ Connect(coins, b)[o] = NewCoin(b, i, o)
           /\ o \in SpentIn(b) => coins[o] # None /\ Connect(coins, b)[o] = None
           /\ o \notin CreatedIn(b) /\ o \notin SpentIn(b) => Connect(coins, b)[o] = coins[o]
<1> DEFINE Users == {i \in DOMAIN Body[b] :
                        Spends(Body[b][i], o) \/ o \in CreatedBy(Body[b][i])}
           last == Max(Users)
<1>0. coins \in Log /\ Body[b] \in Seq(Tx) /\ DOMAIN Body[b] = 1 .. Len(Body[b]) /\ Len(Body[b]) \in Nat
  BY LedgerAssumption DEF Fits
<1>1. \A i \in DOMAIN Body[b] : Body[b][i] \in Tx /\ Body[b][i] \notin done
  BY <1>0, BlockIsNew, SeqElement, Zenon
<1>2. Connect(coins, b)[o] =
        IF Users = {} THEN coins[o]
        ELSE IF o \in CreatedBy(Body[b][last]) THEN NewCoin(b, last, o) ELSE None
  BY Zenon DEF Connect
<1>3. Users # {} => last \in Users
  <2>1. Users \subseteq 1 .. Len(Body[b])
    BY <1>0, Zenon
  <2> HIDE DEF Users
  <2>2. QED
    BY <1>0, <2>1, MaxInSet, Zenon
<1>4. o \in CreatedIn(b) => o[1] \notin done
  BY <1>1, CreatedNames DEF CreatedIn
<1>5. coins[o] # None => o[1] \in done
  BY Zenon DEF Fits
<1>6. o \in SpentIn(b) => coins[o] # None
  <2>1. \A i \in DOMAIN Body[b] : ~IsCoinbase(Body[b][i]) => i # 1
    BY Zenon DEF Connectable
  <2>2. QED
    BY <1>0, <2>1, PaymentsSpend, Zenon DEF SpentIn
<1>7. o \in SpentIn(b) <=> \E i \in DOMAIN Body[b] : Spends(Body[b][i], o)
  BY Zenon DEF SpentIn, Spends
<1>8. o \in CreatedIn(b) <=> \E i \in DOMAIN Body[b] : o \in CreatedBy(Body[b][i])
  BY Zenon DEF CreatedIn
<1> HIDE DEF last
<1>9. CASE o \in CreatedIn(b)
  <2>1. coins[o] = None /\ o \notin SpentIn(b)
    BY <1>4, <1>5, <1>6, <1>9, Zenon
  <2>2. Users # {}
    BY <1>8, <1>9, Zenon
  <2>3. last \in DOMAIN Body[b] /\ o \in CreatedBy(Body[b][last])
    BY <1>3, <1>7, <2>1, <2>2, Zenon
  <2> HIDE DEF Users
  <2>4. QED
    BY <1>2, <1>9, <2>1, <2>2, <2>3, Zenon
<1>10. CASE o \notin CreatedIn(b)
  <2>1. CASE o \in SpentIn(b)
    <3>1. Users # {} /\ last \in DOMAIN Body[b]
      BY <1>3, <1>7, <2>1, Zenon
    <3> HIDE DEF Users
    <3>2. QED
      BY <1>2, <1>6, <1>8, <1>10, <2>1, <3>1, Zenon
  <2>2. CASE o \notin SpentIn(b)
    <3>1. Users = {}
      BY <1>7, <1>8, <1>10, <2>2, Zenon
    <3> HIDE DEF Users
    <3>2. QED
      BY <1>2, <1>10, <2>2, <3>1, Zenon
  <2>3. QED
    BY <2>1, <2>2, Zenon
<1>11. QED
  BY <1>9, <1>10, Zenon

\* A coin that a block creates is typed, and worth what the output pays.
LEMMA CreatedCoin ==
    ASSUME NEW b \in Block, NEW i \in DOMAIN Body[b], NEW o \in CreatedBy(Body[b][i])
    PROVE  /\ NewCoin(b, i, o) \in Coin /\ NewCoin(b, i, o) # None
           /\ NewCoin(b, i, o).amount = Outputs[o[1]][o[2]].amount
<1>1. Body[b] \in Seq(Tx)
  BY LedgerAssumption, Zenon
<1>2. Body[b][i] \in Tx
  BY <1>1, SeqElement, Zenon
<1>3. o[1] \in Tx /\ o[2] \in DOMAIN Outputs[o[1]]
  BY <1>2, CreatedNames, Zenon
<1>4. Outputs[o[1]] \in Seq([amount : 0 .. MaxUint, script : Script])
  BY <1>3, LedgerAssumption, Zenon
<1>5. Outputs[o[1]][o[2]] \in [amount : 0 .. MaxUint, script : Script] /\ MaxUint \in Nat
  BY <1>3, <1>4, SeqElement, LedgerAssumption, Zenon
<1>6. HeightOf(b) \in Nat
  BY LedgerAssumption DEF HeightOf
<1>7. NewCoin(b, i, o) \in Coin
  BY <1>5, <1>6 DEF NewCoin, Coin
<1>8. QED
  BY <1>7, LedgerAssumption, Zenon DEF NewCoin

\* Connecting a block keeps the coins in line with the transactions.
LEMMA ConnectFits ==
    ASSUME NEW b \in Block, NEW coins, NEW done, Fits(coins, done), Connectable(b, coins),
           Body[b][1] \notin done
    PROVE  Fits(Connect(coins, b), done \cup Range(Body[b]))
<1> DEFINE after == Connect(coins, b)
<1>0. coins \in Log /\ Body[b] \in Seq(Tx)
  BY LedgerAssumption, Zenon DEF Fits
<1>1. ASSUME NEW o \in Outpoint
      PROVE  after[o] \in Coin \cup {None}
  <2>1. coins[o] \in Coin \cup {None}
    BY <1>0, Zenon DEF Log
  <2>2. CASE o \in CreatedIn(b)
    BY <2>2, ConnectedCoins, CreatedCoin
  <2>3. CASE o \notin CreatedIn(b)
    BY <2>1, <2>3, ConnectedCoins, Zenon
  <2>4. QED
    BY <2>2, <2>3, Zenon
<1>2. after \in Log
  <2>1. after = [o \in Outpoint |-> after[o]]
    BY Zenon DEF Connect
  <2> HIDE DEF after
  <2>2. QED
    BY <1>1, <2>1, Zenon DEF Log
<1>3. ASSUME NEW o \in Outpoint, after[o] # None
      PROVE  o[1] \in done \cup Range(Body[b])
  <2>1. CASE o \in CreatedIn(b)
    <3>1. PICK i \in DOMAIN Body[b] : o \in CreatedBy(Body[b][i])
      BY <2>1, Zenon DEF CreatedIn
    <3>2. Body[b][i] \in Tx
      BY <1>0, SeqElement, Zenon
    <3>3. o[1] = Body[b][i]
      BY <3>1, <3>2, CreatedNames, Zenon
    <3>4. QED
      BY <3>3, Zenon DEF Range
  <2>2. CASE o \notin CreatedIn(b)
    <3>1. coins[o] # None
      BY <1>3, <2>2, ConnectedCoins, Zenon
    <3>2. QED
      BY <3>1, Zenon DEF Fits
  <2>3. QED
    BY <2>1, <2>2, Zenon
<1>4. ASSUME NEW x \in done, ~IsCoinbase(x), NEW o \in SpentBy(x)
      PROVE  o \in Outpoint /\ after[o] = None /\ o[1] \in done
  <2>1. o \in Outpoint /\ coins[o] = None /\ o[1] \in done
    BY <1>4, Zenon DEF Fits
  <2>2. o \notin CreatedIn(b)
    <3>1. \A i \in DOMAIN Body[b] : Body[b][i] \in Tx /\ Body[b][i] \notin done
      BY <1>0, BlockIsNew, SeqElement, Zenon
    <3>2. QED
      BY <2>1, <3>1, CreatedNames DEF CreatedIn
  <2>3. QED
    BY <2>1, <2>2, ConnectedCoins
<1>5. ASSUME NEW i \in DOMAIN Body[b], ~IsCoinbase(Body[b][i]), NEW o \in SpentBy(Body[b][i])
      PROVE  o \in Outpoint /\ after[o] = None /\ o[1] \in done
  <2>1. i # 1
    BY <1>5, Zenon DEF Connectable
  <2>2. o \in Outpoint /\ coins[o] # None
    BY <1>0, <2>1, PaymentsSpend, Zenon
  <2>3. o \in SpentIn(b)
    BY <1>5, Zenon DEF SpentIn
  <2>4. QED
    BY <2>2, <2>3, ConnectedCoins, Zenon DEF Fits
<1>6. ASSUME NEW x \in done \cup Range(Body[b]), ~IsCoinbase(x), NEW o \in SpentBy(x)
      PROVE  o \in Outpoint /\ after[o] = None /\ o[1] \in done \cup Range(Body[b])
  <2>1. CASE x \in done
    BY <1>4, <1>6, <2>1, Zenon
  <2>2. CASE x \in Range(Body[b])
    <3>1. PICK i \in DOMAIN Body[b] : x = Body[b][i]
      BY <2>2, Zenon DEF Range
    <3>2. QED
      BY <1>5, <1>6, <3>1, Zenon
  <2>3. QED
    BY <2>1, <2>2, Zenon
<1>7. QED
  BY <1>2, <1>3, <1>6, Zenon DEF Fits

-----------------------------------------------------------------------------
(* The value of the coins *)

\* What all coins are worth.
Value(coins) == SumFunction([o \in Held(coins) |-> coins[o].amount])

\* What a valid transaction takes in is what the coins it spends are worth.
LEMMA SpentValue ==
    ASSUME NEW t \in Tx, NEW coins \in Log, NEW claimed, NEW h, ValidTx(t, coins, claimed, h),
           NEW f, \A o \in SpentBy(t) : f[o] = coins[o].amount
    PROVE  /\ IsFiniteSet(SpentBy(t)) /\ \A o \in SpentBy(t) : f[o] \in Int
           /\ InputTotal(t, coins) = SumFunctionOnSet(f, SpentBy(t))
<1> DEFINE n == Len(Inputs[t])
           order == [i \in 1 .. n |-> Inputs[t][i].prev]
           g == [i \in DOMAIN Inputs[t] |-> coins[Inputs[t][i].prev].amount]
<1>1. n \in Nat /\ DOMAIN Inputs[t] = 1 .. n
  <2>1. Inputs[t] \in Seq([prev : Outpoint \cup {None}, key : Script])
    BY LedgerAssumption, Zenon
  <2>2. QED
    BY <2>1
<1>2. \A o \in SpentBy(t) : o \in Outpoint /\ coins[o] # None
  BY ValidSpends, Zenon
<1>3. \A o \in SpentBy(t) : f[o] \in Int
  BY <1>2 DEF Log, Coin
<1>4. order \in [1 .. n -> SpentBy(t)] /\ \A o \in SpentBy(t) : \E i \in 1 .. n : order[i] = o
  BY <1>1, Zenon DEF SpentBy
<1>5. IsInjective(order)
  BY <1>1, ValidSpends, Zenon DEF IsInjective
<1>6. IsFiniteSet(SpentBy(t))
  <2>1. IsFiniteSet(1 .. n)
    BY <1>1, FS_Interval
  <2> HIDE DEF n, order
  <2>2. order \in Surjection(1 .. n, SpentBy(t))
    BY <1>4, Zenon DEF Surjection
  <2>3. QED
    BY <2>1, <2>2, FS_Surjection, Zenon
<1>7. \A i \in 1 .. n : g[i] = f[order[i]]
  BY <1>1, Zenon DEF SpentBy
<1>8. InputTotal(t, coins) = SumFunctionOnSet(g, 1 .. n)
  BY <1>1, Zenon DEF InputTotal, SumFunction
<1> HIDE DEF n, order, g
<1>9. SumFunctionOnSet(g, 1 .. n) = SumFunctionOnSet(f, SpentBy(t))
  <2> DEFINE S == SpentBy(t)
  <2>1. /\ \A x \in S : f[x] \in Int /\ \E i \in 1 .. n : order[i] = x
        /\ n \in Nat /\ order \in [1 .. n -> S]
    BY <1>1, <1>3, <1>4, Zenon
  <2> HIDE DEF S
  <2>2. SumFunctionOnSet(g, 1 .. n) = SumFunctionOnSet(f, S)
    BY <1>5, <1>7, <2>1, SumReindex
  <2>3. QED
    BY <2>2, Zenon DEF S
<1>10. QED
  BY <1>3, <1>6, <1>8, <1>9, Zenon

\* What a transaction pays out is what the coins it creates are worth.
LEMMA CreatedValue ==
    ASSUME NEW t \in Tx, NEW f, \A o \in CreatedBy(t) : f[o] = Outputs[o[1]][o[2]].amount
    PROVE  /\ IsFiniteSet(CreatedBy(t)) /\ \A o \in CreatedBy(t) : f[o] \in Int
           /\ OutputTotal(t) = SumFunctionOnSet(f, CreatedBy(t))
<1> DEFINE n == Len(Outputs[t])
           order == [i \in 1 .. n |-> <<t, i>>]
           g == [i \in DOMAIN Outputs[t] |-> Outputs[t][i].amount]
<1>1. n \in Nat /\ DOMAIN Outputs[t] = 1 .. n
  <2>1. Outputs[t] \in Seq([amount : 0 .. MaxUint, script : Script])
    BY LedgerAssumption, Zenon
  <2>2. QED
    BY <2>1
<1>2. \A i \in DOMAIN Outputs[t] : Outputs[t][i].amount \in Int
  <2>1. Outputs[t] \in Seq([amount : 0 .. MaxUint, script : Script]) /\ MaxUint \in Nat
    BY LedgerAssumption, Zenon
  <2>2. \A i \in DOMAIN Outputs[t] : Outputs[t][i] \in [amount : 0 .. MaxUint, script : Script]
    BY <2>1, SeqElement, Zenon
  <2>3. QED
    BY <2>1, <2>2
<1>3. \A o \in CreatedBy(t) : f[o] \in Int
  BY <1>2, CreatedNames, Zenon
<1>4. order \in [1 .. n -> CreatedBy(t)] /\ \A o \in CreatedBy(t) : \E i \in 1 .. n : order[i] = o
  BY <1>1 DEF CreatedBy
<1>5. IsInjective(order)
  BY Zenon DEF IsInjective
<1>6. IsFiniteSet(CreatedBy(t))
  <2>1. IsFiniteSet(1 .. n)
    BY <1>1, FS_Interval
  <2> HIDE DEF n, order
  <2>2. order \in Surjection(1 .. n, CreatedBy(t))
    BY <1>4, Zenon DEF Surjection
  <2>3. QED
    BY <2>1, <2>2, FS_Surjection, Zenon
<1>7. \A i \in 1 .. n : g[i] = f[order[i]]
  <2>1. \A i \in 1 .. n : <<t, i>> \in CreatedBy(t) /\ <<t, i>>[1] = t /\ <<t, i>>[2] = i
    BY <1>1, Zenon DEF CreatedBy
  <2>2. QED
    BY <1>1, <2>1, Zenon
<1>8. OutputTotal(t) = SumFunctionOnSet(g, 1 .. n)
  BY <1>1, Zenon DEF OutputTotal, SumFunction
<1> HIDE DEF n, order, g
<1>9. SumFunctionOnSet(g, 1 .. n) = SumFunctionOnSet(f, CreatedBy(t))
  <2> DEFINE S == CreatedBy(t)
  <2>1. /\ \A x \in S : f[x] \in Int /\ \E i \in 1 .. n : order[i] = x
        /\ n \in Nat /\ order \in [1 .. n -> S]
    BY <1>1, <1>3, <1>4, Zenon
  <2> HIDE DEF S
  <2>2. SumFunctionOnSet(g, 1 .. n) = SumFunctionOnSet(f, S)
    BY <1>5, <1>7, <2>1, SumReindex
  <2>3. QED
    BY <2>2, Zenon DEF S
<1>10. QED
  BY <1>3, <1>6, <1>8, <1>9, Zenon

\* The payments of a block, as a sequence of their own.
LEMMA PaymentsAre ==
    ASSUME NEW b \in Block, Len(Body[b]) > 0
    PROVE  /\ Payments(b) \in Seq(Tx) /\ Len(Payments(b)) \in Nat
           /\ DOMAIN Payments(b) = 1 .. Len(Payments(b))
           /\ 1 \in DOMAIN Body[b] /\ Body[b][1] \in Tx
           /\ \A i \in DOMAIN Payments(b) :
                /\ i + 1 \in DOMAIN Body[b] /\ i + 1 # 1
                /\ Payments(b)[i] = Body[b][i + 1] /\ Payments(b)[i] \in Tx
           /\ \A j \in DOMAIN Body[b] :
                j # 1 => j - 1 \in DOMAIN Payments(b) /\ Payments(b)[j - 1] = Body[b][j]
<1> DEFINE n == Len(Body[b])
           P == Payments(b)
<1>1. Body[b] \in Seq(Tx) /\ n \in Nat /\ n > 0 /\ DOMAIN Body[b] = 1 .. n
  BY LedgerAssumption
<1>2. P \in Seq(Tx) /\ Len(P) = n - 1 /\ DOMAIN P = 1 .. n - 1
  BY <1>1 DEF Payments
<1>3. \A i \in 1 .. n - 1 : P[i] = Body[b][i + 1] /\ P[i] \in Tx
  BY <1>1 DEF Payments
<1>4. ASSUME NEW j \in 1 .. n, j # 1
      PROVE  j - 1 \in 1 .. n - 1 /\ P[j - 1] = Body[b][j]
  <2>1. j - 1 \in 1 .. n - 1 /\ (j - 1) + 1 = j
    BY <1>1, <1>4
  <2> HIDE DEF P, n
  <2>2. QED
    BY <1>3, <2>1, Zenon
<1>5. \A i \in 1 .. n - 1 : i + 1 \in 1 .. n /\ i + 1 # 1
  BY <1>1
<1>6. 1 \in 1 .. n /\ Body[b][1] \in Tx
  BY <1>1
<1> HIDE DEF P, n
<1>7. n - 1 \in Nat
  BY <1>1
<1>8. QED
  BY <1>1, <1>2, <1>3, <1>4, <1>5, <1>6, <1>7, Zenon DEF P, n

\* The outputs of the payments of a block.
PaidIn(b) == UNION {CreatedBy(Payments(b)[i]) : i \in 1 .. Len(Payments(b))}

\* The fees of a block are what its payments spend less what they create.
LEMMA FeesAre ==
    ASSUME NEW b \in Block, NEW coins \in Log, Connectable(b, coins),
           NEW f, \A o \in SpentIn(b) : f[o] = coins[o].amount,
           NEW g, \A o \in PaidIn(b) : g[o] = Outputs[o[1]][o[2]].amount
    PROVE  /\ IsFiniteSet(SpentIn(b)) /\ \A o \in SpentIn(b) : f[o] \in Int
           /\ IsFiniteSet(PaidIn(b)) /\ \A o \in PaidIn(b) : g[o] \in Int
           /\ FeeTotal(Payments(b), coins)
                = SumFunctionOnSet(f, SpentIn(b)) - SumFunctionOnSet(g, PaidIn(b))
<1> DEFINE P == Payments(b)
           n == Len(P)
           S == [i \in 1 .. n |-> SpentBy(P[i])]
           C == [i \in 1 .. n |-> CreatedBy(P[i])]
           ins == [i \in 1 .. n |-> InputTotal(P[i], coins)]
           outs == [i \in 1 .. n |-> OutputTotal(P[i])]
           fees == [i \in DOMAIN P |-> Fee(P[i], coins)]
<1>1. /\ n \in Nat /\ DOMAIN P = 1 .. n
      /\ \A i \in 1 .. n : /\ i + 1 \in DOMAIN Body[b] /\ i + 1 # 1
                           /\ P[i] = Body[b][i + 1] /\ P[i] \in Tx
      /\ \A j \in DOMAIN Body[b] : j # 1 => j - 1 \in 1 .. n /\ P[j - 1] = Body[b][j]
  BY PaymentsAre, Zenon DEF Connectable
<1>2. ASSUME NEW i \in 1 .. n
      PROVE  ValidTx(P[i], coins, SpentBefore(P, i), HeightOf(b))
  BY <1>1, Zenon DEF Connectable, ValidPayments
<1>3. /\ \A i \in 1 .. n : ~IsCoinbase(P[i]) /\ SpentBy(P[i]) # {}
      /\ \A i, j \in 1 .. n : i # j => SpentBy(P[i]) \cap SpentBy(P[j]) = {}
  <2>1. \A i, j \in 1 .. n : i # j => i + 1 # j + 1
    OBVIOUS
  <2>2. /\ \A i \in DOMAIN Body[b] : i # 1 => ~IsCoinbase(Body[b][i]) /\ SpentBy(Body[b][i]) # {}
        /\ \A i, j \in DOMAIN Body[b] :
              i # 1 /\ j # 1 /\ i # j => SpentBy(Body[b][i]) \cap SpentBy(Body[b][j]) = {}
    BY PaymentsSpend, Zenon
  <2> HIDE DEF P, n
  <2>3. ASSUME NEW i \in 1 .. n, NEW j \in 1 .. n, i # j
        PROVE  SpentBy(P[i]) \cap SpentBy(P[j]) = {}
    <3>1. PICK k \in DOMAIN Body[b] : k = i + 1 /\ k # 1 /\ P[i] = Body[b][k]
      BY <1>1, Zenon
    <3>2. PICK l \in DOMAIN Body[b] : l = j + 1 /\ l # 1 /\ P[j] = Body[b][l]
      BY <1>1, Zenon
    <3>3. k # l
      BY <2>1, <2>3, <3>1, <3>2, Zenon
    <3>4. QED
      BY <2>2, <3>1, <3>2, <3>3, Zenon
  <2>4. \A i \in 1 .. n : ~IsCoinbase(P[i]) /\ SpentBy(P[i]) # {}
    BY <1>1, <2>2
  <2>5. QED
    BY <2>3, <2>4, Zenon
<1>4. SpentIn(b) = UNION {S[i] : i \in 1 .. n}
  <2>1. \A j \in DOMAIN Body[b] : ~IsCoinbase(Body[b][j]) => j # 1
    BY Zenon DEF Connectable
  <2> HIDE DEF P, n
  <2>2. ASSUME NEW o \in SpentIn(b)
        PROVE  \E i \in 1 .. n : o \in SpentBy(P[i])
    <3>1. PICK j \in DOMAIN Body[b] : ~IsCoinbase(Body[b][j]) /\ o \in SpentBy(Body[b][j])
      BY Zenon DEF SpentIn
    <3>2. j - 1 \in 1 .. n /\ P[j - 1] = Body[b][j]
      BY <1>1, <2>1, <3>1, Zenon
    <3>3. QED
      BY <3>1, <3>2, Zenon
  <2>3. ASSUME NEW i \in 1 .. n, NEW o \in SpentBy(P[i])
        PROVE  o \in SpentIn(b)
    <3>1. i + 1 \in DOMAIN Body[b] /\ P[i] = Body[b][i + 1] /\ ~IsCoinbase(Body[b][i + 1])
      BY <1>1, <1>3, Zenon
    <3>2. QED
      BY <3>1, Zenon DEF SpentIn
  <2>4. QED
    BY <2>2, <2>3, Zenon
<1>5. PaidIn(b) = UNION {C[i] : i \in 1 .. n}
  BY Zenon DEF PaidIn
<1>6. ASSUME NEW i \in 1 .. n
      PROVE  /\ IsFiniteSet(S[i]) /\ (\A o \in S[i] : f[o] \in Int)
             /\ ins[i] = SumFunctionOnSet(f, S[i])
  <2>1. S[i] = SpentBy(P[i]) /\ ins[i] = InputTotal(P[i], coins) /\ P[i] \in Tx
    BY <1>1, Zenon
  <2>2. \A o \in S[i] : o \in SpentIn(b)
    BY <1>4, Zenon
  <2>3. ValidTx(P[i], coins, SpentBefore(P, i), HeightOf(b))
    BY <1>2, Zenon
  <2> HIDE DEF S, P, ins, n
  <2>4. \A o \in SpentBy(P[i]) : f[o] = coins[o].amount
    BY <2>1, <2>2, Zenon
  <2>5. /\ IsFiniteSet(SpentBy(P[i])) /\ \A o \in SpentBy(P[i]) : f[o] \in Int
        /\ InputTotal(P[i], coins) = SumFunctionOnSet(f, SpentBy(P[i]))
    BY <2>1, <2>3, <2>4, SpentValue, Zenon
  <2>6. QED
    BY <2>1, <2>5, Zenon
<1>7. ASSUME NEW i \in 1 .. n
      PROVE  /\ IsFiniteSet(C[i]) /\ (\A o \in C[i] : g[o] \in Int)
             /\ outs[i] = SumFunctionOnSet(g, C[i])
  <2>1. C[i] = CreatedBy(P[i]) /\ outs[i] = OutputTotal(P[i]) /\ P[i] \in Tx
    BY <1>1, Zenon
  <2>2. \A o \in C[i] : o \in PaidIn(b)
    BY <1>5, Zenon
  <2> HIDE DEF C, P, outs, n
  <2>3. \A o \in CreatedBy(P[i]) : g[o] = Outputs[o[1]][o[2]].amount
    BY <2>1, <2>2, Zenon
  <2>4. QED
    BY <2>1, <2>3, CreatedValue, Zenon
<1>8. \A i, j \in 1 .. n : i # j => S[i] \cap S[j] = {} /\ C[i] \cap C[j] = {}
  <2> SUFFICES ASSUME NEW i \in 1 .. n, NEW j \in 1 .. n, i # j
               PROVE  S[i] \cap S[j] = {} /\ C[i] \cap C[j] = {}
    BY Zenon
  <2>1. /\ S[i] = SpentBy(P[i]) /\ S[j] = SpentBy(P[j]) /\ P[i] \in Tx /\ P[j] \in Tx
        /\ C[i] = CreatedBy(P[i]) /\ C[j] = CreatedBy(P[j])
    BY <1>1, Zenon
  <2> HIDE DEF S, C, P, n
  <2>2. SpentBy(P[i]) \cap SpentBy(P[j]) = {} /\ P[i] # P[j]
    BY <1>3, Zenon
  <2>3. CreatedBy(P[i]) \cap CreatedBy(P[j]) = {}
    BY <2>1, <2>2, CreatedNames, Zenon
  <2>4. QED
    BY <2>1, <2>2, <2>3, Zenon
<1>9. \A i \in 1 .. n : ins[i] \in Int /\ outs[i] \in Int /\ fees[i] = ins[i] - outs[i]
  <2> SUFFICES ASSUME NEW i \in 1 .. n
               PROVE  ins[i] \in Int /\ outs[i] \in Int /\ fees[i] = ins[i] - outs[i]
    BY Zenon
  <2>1. fees[i] = ins[i] - outs[i]
    BY <1>1, Zenon DEF Fee
  <2> HIDE DEF S, C, ins, outs, fees, n
  <2>2. QED
    BY <1>6, <1>7, <2>1, SumType
<1>10. FeeTotal(P, coins) = SumFunctionOnSet(fees, 1 .. n)
  BY <1>1, Zenon DEF FeeTotal, SumFunction
<1> HIDE DEF P, n, S, C, ins, outs, fees
<1>11. /\ IsFiniteSet(SpentIn(b))
       /\ SumFunctionOnSet(ins, 1 .. n) = SumFunctionOnSet(f, SpentIn(b))
  <2>0. n \in Nat
    BY <1>1, Zenon
  <2>1. Partitions(S, n, SpentIn(b))
    BY <1>4, <1>6, <1>8, Zenon DEF Partitions
  <2>2. PartSums(ins, f, S, n)
    BY <1>6, Zenon DEF PartSums
  <2>3. ASSUME NEW A, Partitions(S, n, A)
        PROVE  IsFiniteSet(A) /\ SumFunctionOnSet(ins, 1 .. n) = SumFunctionOnSet(f, A)
    BY <2>0, <2>2, <2>3, SumFamily
  <2>4. QED
    BY <2>1, <2>3, Zenon
<1>12. /\ IsFiniteSet(PaidIn(b))
       /\ SumFunctionOnSet(outs, 1 .. n) = SumFunctionOnSet(g, PaidIn(b))
  <2>0. n \in Nat
    BY <1>1, Zenon
  <2>1. Partitions(C, n, PaidIn(b))
    BY <1>5, <1>7, <1>8, Zenon DEF Partitions
  <2>2. PartSums(outs, g, C, n)
    BY <1>7, Zenon DEF PartSums
  <2>3. ASSUME NEW A, Partitions(C, n, A)
        PROVE  IsFiniteSet(A) /\ SumFunctionOnSet(outs, 1 .. n) = SumFunctionOnSet(g, A)
    BY <2>0, <2>2, <2>3, SumFamily
  <2>4. QED
    BY <2>1, <2>3, Zenon
<1>13. SumFunctionOnSet(fees, 1 .. n) = SumFunctionOnSet(ins, 1 .. n) - SumFunctionOnSet(outs, 1 .. n)
  <2> DEFINE D == 1 .. n
  <2>1. IsFiniteSet(D)
    BY <1>1, FS_Interval
  <2>2. \A i \in D : ins[i] \in Int /\ outs[i] \in Int /\ fees[i] = ins[i] - outs[i]
    BY <1>9, Zenon
  <2> HIDE DEF D
  <2>3. SumFunctionOnSet(fees, D) = SumFunctionOnSet(ins, D) - SumFunctionOnSet(outs, D)
    BY <2>1, <2>2, SumMinus
  <2>4. QED
    BY <2>3, Zenon DEF D
<1>14. /\ \A o \in SpentIn(b) : f[o] \in Int
       /\ \A o \in PaidIn(b) : g[o] \in Int
  BY <1>4, <1>5, <1>6, <1>7, Zenon
<1>15. QED
  BY <1>4, <1>5, <1>10, <1>11, <1>12, <1>13, <1>14, Zenon DEF P

\* Connecting a block replaces the coins its payments spend by the coins it creates.
LEMMA HeldAfter ==
    ASSUME NEW b \in Block, NEW coins, NEW done, Fits(coins, done), Connectable(b, coins),
           Body[b][1] \notin done
    PROVE  LET minted == CreatedBy(Body[b][1])
               kept == Held(coins) \ SpentIn(b)
               after == Connect(coins, b)
           IN  /\ SpentIn(b) \subseteq Held(coins)
               /\ minted \cap PaidIn(b) = {} /\ kept \cap (minted \cup PaidIn(b)) = {}
               /\ Held(after) = kept \cup (minted \cup PaidIn(b))
               /\ \A o \in kept : after[o] = coins[o]
               /\ \A o \in minted \cup PaidIn(b) :
                    after[o].amount = Outputs[o[1]][o[2]].amount
<1> DEFINE minted == CreatedBy(Body[b][1])
           kept == Held(coins) \ SpentIn(b)
           after == Connect(coins, b)
<1>0. coins \in Log
  BY Zenon DEF Fits
<1>1. /\ 1 \in DOMAIN Body[b] /\ Body[b][1] \in Tx /\ IsCoinbase(Body[b][1])
      /\ \A i \in 1 .. Len(Payments(b)) :
            /\ i + 1 \in DOMAIN Body[b] /\ i + 1 # 1
            /\ Payments(b)[i] = Body[b][i + 1] /\ Payments(b)[i] \in Tx
      /\ \A j \in DOMAIN Body[b] :
            j # 1 => j - 1 \in 1 .. Len(Payments(b)) /\ Payments(b)[j - 1] = Body[b][j]
  BY PaymentsAre, Zenon DEF Connectable
<1>2. \A i \in DOMAIN Body[b] : i # 1 =>
        /\ ~IsCoinbase(Body[b][i])
        /\ \A o \in SpentBy(Body[b][i]) : o \in Outpoint /\ coins[o] # None
  BY <1>0, PaymentsSpend, Zenon
<1>3. \A i \in DOMAIN Body[b] : Body[b][i] \in Tx
  BY LedgerAssumption
<1>4. \A o : o \in minted \cup PaidIn(b) <=> o \in CreatedIn(b)
  <2>1. ASSUME NEW o \in PaidIn(b)
        PROVE  o \in CreatedIn(b)
    <3>1. PICK i \in 1 .. Len(Payments(b)) : o \in CreatedBy(Payments(b)[i])
      BY Zenon DEF PaidIn
    <3>2. QED
      BY <1>1, <3>1, Zenon DEF CreatedIn
  <2>2. ASSUME NEW o \in CreatedIn(b), o \notin minted
        PROVE  o \in PaidIn(b)
    <3>1. PICK j \in DOMAIN Body[b] : o \in CreatedBy(Body[b][j])
      BY Zenon DEF CreatedIn
    <3>2. j # 1
      BY <2>2, <3>1, Zenon
    <3>3. QED
      BY <1>1, <3>1, <3>2, Zenon DEF PaidIn
  <2>3. \A o \in minted : o \in CreatedIn(b)
    BY <1>1, Zenon DEF CreatedIn
  <2>4. QED
    BY <2>1, <2>2, <2>3, Zenon
<1>5. minted \cap PaidIn(b) = {}
  <2> SUFFICES ASSUME NEW o \in minted, o \in PaidIn(b)
               PROVE  FALSE
    BY Zenon
  <2>1. PICK i \in 1 .. Len(Payments(b)) : o \in CreatedBy(Payments(b)[i])
    BY Zenon DEF PaidIn
  <2>2. o[1] = Payments(b)[i] /\ o[1] = Body[b][1]
    BY <1>1, <2>1, CreatedNames, Zenon
  <2>3. ~IsCoinbase(Payments(b)[i])
    BY <1>1, <1>2, Zenon
  <2>4. QED
    BY <1>1, <2>2, <2>3, Zenon
<1>6. ASSUME NEW o \in SpentIn(b)
      PROVE  o \in Outpoint /\ coins[o] # None
  <2>1. PICK i \in DOMAIN Body[b] : ~IsCoinbase(Body[b][i]) /\ o \in SpentBy(Body[b][i])
    BY Zenon DEF SpentIn
  <2>2. i # 1
    BY <1>1, <2>1, Zenon
  <2>3. QED
    BY <1>2, <2>1, <2>2, Zenon
<1>7. \A o \in CreatedIn(b) : o \in Outpoint
  BY <1>3, CreatedNames, Zenon DEF CreatedIn
<1>8. ASSUME NEW o \in CreatedIn(b)
      PROVE  /\ coins[o] = None /\ o \notin SpentIn(b)
             /\ after[o] # None /\ after[o].amount = Outputs[o[1]][o[2]].amount
  <2>1. /\ coins[o] = None /\ o \notin SpentIn(b)
        /\ \E i \in DOMAIN Body[b] : o \in CreatedBy(Body[b][i]) /\ after[o] = NewCoin(b, i, o)
    BY <1>7, ConnectedCoins, Zenon
  <2>2. QED
    BY <2>1, CreatedCoin, Zenon
<1>9. ASSUME NEW o \in SpentIn(b)
      PROVE  after[o] = None
  BY <1>6, ConnectedCoins, Zenon
<1>10. ASSUME NEW o \in Outpoint, o \notin CreatedIn(b), o \notin SpentIn(b)
       PROVE  after[o] = coins[o]
  BY <1>10, ConnectedCoins, Zenon
<1> HIDE DEF minted, after
<1>11. SpentIn(b) \subseteq Held(coins)
  BY <1>6, Zenon DEF Held
<1>12. kept \cap (minted \cup PaidIn(b)) = {}
  <2> SUFFICES ASSUME NEW o \in kept, o \in minted \cup PaidIn(b)
               PROVE  FALSE
    BY Zenon
  <2>1. o \in CreatedIn(b)
    BY <1>4, Zenon
  <2>2. coins[o] # None
    BY Zenon DEF Held
  <2>3. QED
    BY <1>8, <2>1, <2>2, Zenon
<1>13. \A o \in kept : o \in Outpoint /\ o \notin SpentIn(b) /\ coins[o] # None /\ o \notin CreatedIn(b)
  BY <1>8, Zenon DEF Held
<1>14. \A o \in kept : after[o] = coins[o]
  BY <1>10, <1>13, Zenon
<1>15. ASSUME NEW o
       PROVE  o \in Held(after) <=> o \in kept \cup (minted \cup PaidIn(b))
  <2>1. CASE o \in CreatedIn(b)
    BY <1>4, <1>7, <1>8, <2>1, Zenon DEF Held
  <2>2. CASE o \notin CreatedIn(b) /\ o \in SpentIn(b)
    BY <1>4, <1>9, <2>2, Zenon DEF Held
  <2>3. CASE o \notin CreatedIn(b) /\ o \notin SpentIn(b)
    BY <1>4, <1>10, <2>3, Zenon DEF Held
  <2>4. QED
    BY <2>1, <2>2, <2>3, Zenon
<1>16. \A o \in minted \cup PaidIn(b) : after[o].amount = Outputs[o[1]][o[2]].amount
  BY <1>4, <1>8, Zenon
<1>17. Held(after) = kept \cup (minted \cup PaidIn(b))
  BY <1>15, Zenon
<1> HIDE DEF kept
<1>18. QED
  BY <1>5, <1>11, <1>12, <1>14, <1>16, <1>17, Zenon DEF minted, after, kept

\* ApplyBlock and the supply: a block adds to the coins what its coinbase pays out,
\* less the fees, which no output of it carries.
LEMMA SupplyStep ==
    ASSUME NEW b \in Block, NEW coins, NEW done, Fits(coins, done), Connectable(b, coins),
           Body[b][1] \notin done, IsFiniteSet(Held(coins))
    PROVE  /\ IsFiniteSet(Held(Connect(coins, b)))
           /\ Value(Connect(coins, b)) =
                Value(coins) + (OutputTotal(Body[b][1]) - FeeTotal(Payments(b), coins))
           /\ Value(coins) \in Int
           /\ OutputTotal(Body[b][1]) - FeeTotal(Payments(b), coins) \in Int
<1> DEFINE minted == CreatedBy(Body[b][1])
           kept == Held(coins) \ SpentIn(b)
           after == Connect(coins, b)
           new == minted \cup PaidIn(b)
           f == [o \in Held(coins) |-> coins[o].amount]
           h == [o \in Held(after) |-> after[o].amount]
<1>0. coins \in Log /\ Body[b][1] \in Tx
  BY PaymentsAre, Zenon DEF Fits, Connectable
<1>1. /\ SpentIn(b) \subseteq Held(coins)
      /\ minted \cap PaidIn(b) = {} /\ kept \cap new = {}
      /\ Held(after) = kept \cup new
      /\ \A o \in kept : after[o] = coins[o]
      /\ \A o \in new : after[o].amount = Outputs[o[1]][o[2]].amount
  BY HeldAfter, Zenon
<1>2. \A o \in Held(coins) : f[o] = coins[o].amount /\ f[o] \in Int
  BY <1>0 DEF Log, Coin, Held
<1>3. \A o \in Held(after) : h[o] = after[o].amount
  BY Zenon
<1>4. Value(coins) = SumFunctionOnSet(f, Held(coins)) /\ Value(after) = SumFunctionOnSet(h, Held(after))
  BY Zenon DEF Value, SumFunction
<1> HIDE DEF f, h, after
<1>5. \A o \in SpentIn(b) : f[o] = coins[o].amount
  BY <1>1, <1>2, Zenon
<1>6. \A o \in new : h[o] = Outputs[o[1]][o[2]].amount
  BY <1>1, <1>3, Zenon
<1>7. \A o \in kept : h[o] = f[o] /\ f[o] \in Int
  BY <1>1, <1>2, <1>3, Zenon
<1>8. /\ IsFiniteSet(SpentIn(b)) /\ IsFiniteSet(PaidIn(b))
      /\ \A o \in PaidIn(b) : h[o] \in Int
      /\ FeeTotal(Payments(b), coins)
           = SumFunctionOnSet(f, SpentIn(b)) - SumFunctionOnSet(h, PaidIn(b))
  <2>1. \A o \in PaidIn(b) : h[o] = Outputs[o[1]][o[2]].amount
    BY <1>6, Zenon
  <2>2. QED
    BY <1>0, <1>5, <2>1, FeesAre
<1>9. /\ IsFiniteSet(minted) /\ \A o \in minted : h[o] \in Int
      /\ OutputTotal(Body[b][1]) = SumFunctionOnSet(h, minted)
  <2>1. \A o \in minted : h[o] = Outputs[o[1]][o[2]].amount
    BY <1>6, Zenon
  <2>2. QED
    BY <1>0, <2>1, CreatedValue, Zenon
<1> DEFINE H == Held(coins)
           A == Held(after)
           S == SpentIn(b)
           P == PaidIn(b)
<1>10. /\ S \subseteq H /\ kept = H \ S /\ A = kept \cup new /\ new = minted \cup P
       /\ minted \cap P = {} /\ kept \cap new = {} /\ IsFiniteSet(H)
       /\ IsFiniteSet(minted) /\ IsFiniteSet(P) /\ IsFiniteSet(S)
  BY <1>1, <1>8, <1>9, Zenon
<1>11. /\ \A o \in H : f[o] \in Int
       /\ \A o \in kept : h[o] = f[o] /\ f[o] \in Int
       /\ \A o \in minted : h[o] \in Int
       /\ \A o \in P : h[o] \in Int
  BY <1>2, <1>7, <1>8, <1>9, Zenon
<1> HIDE DEF H, A, S, P, minted, kept, new
<1>12. IsFiniteSet(kept) /\ IsFiniteSet(new) /\ IsFiniteSet(A)
  <2>1. IsFiniteSet(kept)
    BY <1>10, FS_Difference, Zenon
  <2>2. IsFiniteSet(new)
    BY <1>10, FS_Union, Zenon
  <2>3. QED
    BY <1>10, <2>1, <2>2, FS_Union, Zenon
<1>13. SumFunctionOnSet(f, H) = SumFunctionOnSet(f, S) + SumFunctionOnSet(f, kept)
  BY <1>10, <1>11, SumSplit
<1>14. SumFunctionOnSet(h, new) = SumFunctionOnSet(h, minted) + SumFunctionOnSet(h, P)
  <2>1. minted \subseteq new /\ P = new \ minted /\ \A o \in new : h[o] \in Int
    BY <1>10, <1>11, Zenon
  <2>2. QED
    BY <1>12, <2>1, SumSplit
<1>15. SumFunctionOnSet(h, A) = SumFunctionOnSet(h, kept) + SumFunctionOnSet(h, new)
  <2>1. kept \subseteq A /\ new = A \ kept /\ \A o \in A : h[o] \in Int
    BY <1>10, <1>11, Zenon
  <2>2. QED
    BY <1>12, <2>1, SumSplit
<1>16. SumFunctionOnSet(h, kept) = SumFunctionOnSet(f, kept)
  BY <1>11, <1>12, SumAgree, Zenon
<1>17. /\ SumFunctionOnSet(f, S) \in Int /\ SumFunctionOnSet(f, kept) \in Int
       /\ SumFunctionOnSet(h, minted) \in Int /\ SumFunctionOnSet(h, P) \in Int
  <2>1. \A o \in S : f[o] \in Int
    BY <1>10, <1>11, Zenon
  <2>2. QED
    BY <1>10, <1>11, <1>12, <2>1, SumType, Zenon
<1>18. /\ Value(coins) = SumFunctionOnSet(f, H) /\ Value(after) = SumFunctionOnSet(h, A)
       /\ FeeTotal(Payments(b), coins) = SumFunctionOnSet(f, S) - SumFunctionOnSet(h, P)
       /\ OutputTotal(Body[b][1]) = SumFunctionOnSet(h, minted)
  BY <1>4, <1>8, <1>9, Zenon DEF H, A, S, P
<1>19. /\ Value(after) = Value(coins) + (OutputTotal(Body[b][1]) - FeeTotal(Payments(b), coins))
       /\ Value(coins) \in Int
       /\ OutputTotal(Body[b][1]) - FeeTotal(Payments(b), coins) \in Int
  BY <1>13, <1>14, <1>15, <1>16, <1>17, <1>18
<1>20. QED
  BY <1>12, <1>19, Zenon DEF A, after

\* What a longer branch issued.
LEMMA IssuedGrows ==
    ASSUME NEW n \in Nat, NEW path, DOMAIN path = 1 .. n,
           NEW longer, DOMAIN longer = 1 .. n + 1, \A i \in 1 .. n : longer[i] = path[i],
           NEW coins, coins = IF n = 0 THEN NoCoins ELSE Replay[path[n]],
           NEW d \in Int,
           d = OutputTotal(Body[longer[n + 1]][1]) - FeeTotal(Payments(longer[n + 1]), coins),
           \A i \in 1 .. n : Issued(path)[i] \in Int
    PROVE  /\ \A i \in DOMAIN longer : Issued(longer)[i] \in Int
           /\ SumFunction(Issued(longer)) = SumFunction(Issued(path)) + d
<1> DEFINE f == Issued(longer)
           g == Issued(path)
           Adds(b, before) == OutputTotal(Body[b][1]) - FeeTotal(Payments(b), before)
           D == 1 .. n
           E == 1 .. n + 1
<1>1. /\ f = [i \in E |-> Adds(longer[i], IF i = 1 THEN NoCoins ELSE Replay[longer[i - 1]])]
      /\ g = [i \in D |-> Adds(path[i], IF i = 1 THEN NoCoins ELSE Replay[path[i - 1]])]
      /\ d = Adds(longer[n + 1], coins)
  BY Zenon DEF Issued
<1>2. DOMAIN f = E /\ DOMAIN g = D
  BY <1>1, Zenon
<1>3. ASSUME NEW i \in D PROVE f[i] = g[i] /\ g[i] \in Int
  <2>1. i \in E /\ longer[i] = path[i] /\ g[i] \in Int
    OBVIOUS
  <2>2. i # 1 => i - 1 \in D
    OBVIOUS
  <2>3. i # 1 => longer[i - 1] = path[i - 1]
    BY <2>2, Zenon
  <2> HIDE DEF f, g, Adds, D, E
  <2>4. f[i] = g[i]
    BY <1>1, <2>1, <2>3, Zenon
  <2>5. QED
    BY <2>1, <2>4, Zenon
<1>4. f[n + 1] = d
  <2>1. n + 1 \in E /\ (n + 1 = 1 <=> n = 0) /\ n + 1 - 1 = n
    OBVIOUS
  <2>2. n # 0 => longer[n] = path[n]
    OBVIOUS
  <2>3. (IF n + 1 = 1 THEN NoCoins ELSE Replay[longer[n + 1 - 1]]) = coins
    BY <2>1, <2>2, Zenon
  <2> HIDE DEF f, g, Adds, D, E
  <2>4. QED
    BY <1>1, <2>1, <2>3
<1>5. IsFiniteSet(D) /\ IsFiniteSet(E) /\ D \subseteq E /\ E \ D = {n + 1} /\ n + 1 \in E
  <2>1. IsFiniteSet(D) /\ IsFiniteSet(E)
    BY FS_Interval
  <2>2. QED
    BY <2>1
<1>6. SumFunction(f) = SumFunctionOnSet(f, E) /\ SumFunction(g) = SumFunctionOnSet(g, D)
  BY <1>2, Zenon DEF SumFunction
<1>7. PICK x : x = n + 1
  BY Zenon
<1>8. \A i \in E : f[i] \in Int
  <2>1. \A i \in E : i \in D \/ i = n + 1
    OBVIOUS
  <2> HIDE DEF f, g, D, E
  <2>2. QED
    BY <1>3, <1>4, <2>1, Zenon
<1> HIDE DEF f, g, D, E, Adds
<1>9. SumFunctionOnSet(f, E) = SumFunctionOnSet(f, D) + SumFunctionOnSet(f, E \ D)
  BY <1>5, <1>8, SumSplit
<1>10. SumFunctionOnSet(f, {x}) = d
  <2>1. IsFiniteSet({x}) /\ x \in {x} /\ \A i \in {x} : f[i] \in Int
    BY <1>4, <1>7, FS_Singleton, Zenon
  <2>2. SumFunctionOnSet(f, {x}) = f[x] + SumFunctionOnSet(f, {x} \ {x})
    BY <2>1, SumTake, Zenon
  <2>3. {x} \ {x} = {}
    BY Zenon
  <2>4. SumFunctionOnSet(f, {}) = 0
    BY SumEmpty, Zenon
  <2>5. SumFunctionOnSet(f, {x}) = d + 0
    BY <1>4, <1>7, <2>2, <2>3, <2>4, Zenon
  <2>6. QED
    BY <2>5
<1>11. SumFunctionOnSet(f, D) = SumFunctionOnSet(g, D)
  BY <1>3, <1>5, SumAgree, Zenon
<1>12. SumFunction(f) = SumFunction(g) + d
  BY <1>5, <1>6, <1>7, <1>9, <1>10, <1>11, Zenon
<1>13. QED
  BY <1>8, <1>12, Zenon DEF f, g, E

-----------------------------------------------------------------------------
(* Before the first block, and after one more *)

\* Before the first block there are no coins.
LEMMA NoCoinsFit ==
    /\ Fits(NoCoins, {}) /\ IsFiniteSet(Held(NoCoins)) /\ Value(NoCoins) = 0
<1>1. NoCoins \in Log /\ \A o \in Outpoint : NoCoins[o] = None
  BY DEF NoCoins, Log
<1>2. Held(NoCoins) = {}
  BY <1>1, Zenon DEF Held
<1>3. DOMAIN [o \in Held(NoCoins) |-> NoCoins[o].amount] = {}
  BY <1>2, Zenon
<1>4. Value(NoCoins) = 0
  BY <1>3, SumEmpty, Zenon DEF Value, SumFunction
<1>5. QED
  BY <1>1, <1>2, <1>4, FS_EmptySet, Zenon DEF Fits

\* No blocks issue nothing.
LEMMA NothingIssued ==
    ASSUME NEW path, DOMAIN path = {}
    PROVE  SumFunction(Issued(path)) = 0
<1>1. DOMAIN Issued(path) = {}
  BY Zenon DEF Issued
<1>2. QED
  BY <1>1, SumEmpty, Zenon DEF SumFunction

\* An output that is there, was spent, or is made by a block, is there or was spent
\* once the block is connected.
LEMMA ThereOrSpent ==
    ASSUME NEW b \in Block, NEW coins, NEW done, Fits(coins, done), Connectable(b, coins),
           Body[b][1] \notin done, NEW o \in Outpoint,
           \/ coins[o] # None
           \/ \E y \in done : o \in SpentBy(y)
           \/ o \in CreatedIn(b)
    PROVE  \/ Connect(coins, b)[o] # None
           \/ \E y \in done \cup Range(Body[b]) : o \in SpentBy(y)
<1>1. CASE \E y \in done : o \in SpentBy(y)
  BY <1>1, Zenon
<1>2. CASE o \in SpentIn(b)
  <2>1. PICK i \in DOMAIN Body[b] : o \in SpentBy(Body[b][i])
    BY <1>2, Zenon DEF SpentIn
  <2>2. Body[b][i] \in Range(Body[b])
    BY Zenon DEF Range
  <2>3. QED
    BY <2>1, <2>2, Zenon
<1>3. CASE o \in CreatedIn(b)
  <2>1. PICK i \in DOMAIN Body[b] :
          o \in CreatedBy(Body[b][i]) /\ Connect(coins, b)[o] = NewCoin(b, i, o)
    BY <1>3, ConnectedCoins
  <2>2. QED
    BY <2>1, CreatedCoin, Zenon
<1>4. CASE o \notin CreatedIn(b) /\ o \notin SpentIn(b) /\ coins[o] # None
  BY <1>4, ConnectedCoins
<1>5. QED
  BY <1>1, <1>2, <1>3, <1>4, Zenon
=============================================================================
