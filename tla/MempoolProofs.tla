--------------------------- MODULE MempoolProofs ---------------------------
(***************************************************************************)
(* What the operations of the mempool preserve, whatever else the node     *)
(* does between them: the double-spend index, the byte counter and its     *)
(* bound, the order of eviction, and the validity of what is pooled.       *)
(* SpendingProofs turns these into theorems about the mempool with its     *)
(* clients, ChainPoolProofs into theorems about the chain manager.         *)
(***************************************************************************)
EXTENDS Mempool, LedgerProofs

-----------------------------------------------------------------------------
(* Sizes *)

\* The sizes of finitely many transactions have a sum.
LEMMA SizesFinite ==
    ASSUME NEW S, S \subseteq Tx, IsFiniteSet(S)
    PROVE  /\ \A t \in S : Size[t] \in Nat
           /\ \A t \in S : Size[t] \in Int
           /\ SizeSum(S) \in Nat
<1>1. \A t \in S : Size[t] \in Nat \ {0}
  BY LedgerAssumption, Zenon
<1>2. \A t \in S : Size[t] \in Nat /\ Size[t] \in Int
  BY <1>1
<1>3. SizeSum(S) \in Nat
  BY <1>2, SumNat, Zenon DEF SizeSum
<1>4. QED
  BY <1>2, <1>3, Zenon

\* Taking transactions out of a set takes their sizes out of the sum.
LEMMA SizesSplit ==
    ASSUME NEW S, S \subseteq Tx, IsFiniteSet(S), NEW R, R \subseteq S
    PROVE  /\ IsFiniteSet(R) /\ IsFiniteSet(S \ R)
           /\ SizeSum(S) \in Nat /\ SizeSum(R) \in Nat /\ SizeSum(S \ R) \in Nat
           /\ SizeSum(S) = SizeSum(R) + SizeSum(S \ R)
           /\ SizeSum(S \ R) = SizeSum(S) - SizeSum(R)
<1>1. IsFiniteSet(R) /\ IsFiniteSet(S \ R)
  BY FS_Subset, Zenon
<1>2. SizeSum(S) \in Nat /\ SizeSum(R) \in Nat /\ SizeSum(S \ R) \in Nat
  BY <1>1, SizesFinite, Zenon
<1>3. SizeSum(S) = SizeSum(R) + SizeSum(S \ R)
  BY SizesFinite, SumSplit DEF SizeSum
<1>4. QED
  BY <1>1, <1>2, <1>3

-----------------------------------------------------------------------------
(* The index and the counter *)

\* The types of the pool and of the double-spend index.
PoolTyped ==
    /\ pool \in [Tx -> Nat \cup {None}]
    /\ spends \in [Outpoint -> Tx \cup {None}]

\* A pooled transaction spends something, and only outputs of transactions.
ClaimsReal == \A t \in Pooled : SpentBy(t) # {} /\ SpentBy(t) \subseteq Outpoint

\* The inductive invariant of the mempool.  A transaction that spent nothing could
\* be admitted twice and counted twice: ClaimsReal and the relay minimum exclude it.
PoolInv ==
    /\ PoolTyped
    /\ ClaimsReal
    /\ SpendsExact
    /\ IsFiniteSet(Pooled)
    /\ BytesExact
    /\ PoolBounded

\* What ValidateTransaction guarantees Add: the fee is a number, the transaction
\* spends something (it could not pay the relay minimum otherwise), and nothing
\* it spends is claimed.
LEMMA AdmittedTx ==
    ASSUME NEW t \in Tx, utxo \in Log, ValidTx(t, utxo, Claimed, AnyHeight)
    PROVE  /\ Fee(t, utxo) \in Nat
           /\ SpentBy(t) # {}
           /\ SpentBy(t) \subseteq Outpoint
           /\ SpentBy(t) \cap Claimed = {}
<1>1. \A i \in DOMAIN Inputs[t] :
        /\ Inputs[t][i].prev \in Outpoint /\ utxo[Inputs[t][i].prev] # None
        /\ Inputs[t][i].prev \notin Claimed
  BY Zenon DEF ValidTx, ValidInputs
<1>2. OutputTotal(t) \in Nat /\ InputTotal(t, utxo) \in Nat
  BY <1>1, OutputTotalNat, InputTotalNat, Zenon
<1>3. MinFee(t) \in Nat \ {0}
  <2>1. Size[t] \in Nat \ {0} /\ MinRelayFeePerByte \in Nat \ {0}
    BY LedgerAssumption, Zenon
  <2>2. \A a, b \in Nat \ {0} : a * b \in Nat \ {0}
    OBVIOUS
  <2>3. QED
    BY <2>1, <2>2, Zenon DEF MinFee
<1>4. Fee(t, utxo) = InputTotal(t, utxo) - OutputTotal(t) /\ Fee(t, utxo) >= MinFee(t)
  BY Zenon DEF ValidTx, Fee
<1>5. Fee(t, utxo) \in Nat \ {0}
  BY <1>2, <1>3, <1>4
<1>6. DOMAIN Inputs[t] # {}
  <2> SUFFICES ASSUME DOMAIN Inputs[t] = {} PROVE FALSE
    BY Zenon
  <2>1. InputTotal(t, utxo) = 0
    BY SumEmpty, Zenon DEF InputTotal, SumFunction
  <2>2. QED
    BY <1>2, <1>4, <1>5, <2>1
<1>7. QED
  BY <1>1, <1>5, <1>6, Zenon DEF SpentBy

\* The empty pool satisfies the invariant.
LEMMA PoolInitInv ==
    ASSUME PoolInit
    PROVE  PoolInv
<1>1. Pooled = {}
  BY Zenon DEF PoolInit, Pooled
<1>2. PoolTyped
  BY Zenon DEF PoolInit, PoolTyped
<1>3. SpendsExact
  <2>1. None \notin Tx
    BY LedgerAssumption, Zenon
  <2>2. QED
    BY <1>1, <2>1, Zenon DEF PoolInit, SpendsExact
<1>4. BytesExact
  BY <1>1, SumEmpty, Zenon DEF PoolInit, BytesExact, SizeSum
<1>5. PoolBounded
  BY MempoolAssumption DEF PoolInit, PoolBounded
<1>6. QED
  BY <1>1, <1>2, <1>3, <1>4, <1>5, FS_EmptySet, Zenon DEF PoolInv, ClaimsReal

\* So does a pool that nothing touches.
LEMMA PoolStutters ==
    ASSUME PoolInv, UNCHANGED poolVars
    PROVE  PoolInv'
BY Zenon DEF PoolInv, PoolTyped, ClaimsReal, SpendsExact, BytesExact, PoolBounded, Pooled, SizeSum, poolVars

\* Removing pooled transactions preserves the invariant.
LEMMA DropPreserves ==
    ASSUME PoolInv, NEW S, S \subseteq Pooled, Drop(S)
    PROVE  PoolInv'
<1>1. Pooled' = Pooled \ S
  BY Zenon DEF PoolInv, PoolTyped, Drop, PoolWithout, Pooled
<1>2. PoolTyped'
  BY Zenon DEF PoolInv, PoolTyped, Drop, PoolWithout, SpendsWithout
<1>3. ClaimsReal'
  BY <1>1, Zenon DEF PoolInv, ClaimsReal
<1>4. SpendsExact'
  <2> SUFFICES ASSUME NEW o \in Outpoint, NEW t \in Tx
               PROVE  spends'[o] = t <=> t \in Pooled' /\ o \in SpentBy(t)
    BY Zenon DEF SpendsExact
  <2>1. spends[o] = t <=> t \in Pooled /\ o \in SpentBy(t)
    BY Zenon DEF PoolInv, SpendsExact
  <2>2. CASE o \in Freed(S)
    <3>1. PICK u \in S : o \in SpentBy(u)
      BY <2>2, Zenon DEF Freed
    <3>2. u \in Tx /\ spends[o] = u
      BY <3>1, Zenon DEF PoolInv, SpendsExact, Pooled
    <3>3. spends'[o] = None /\ None \notin Tx
      BY <2>2, LedgerAssumption, Zenon DEF Drop, SpendsWithout
    <3>4. QED
      BY <1>1, <2>1, <3>1, <3>2, <3>3, Zenon
  <2>3. CASE o \notin Freed(S)
    <3>1. spends'[o] = spends[o]
      BY <2>3, Zenon DEF Drop, SpendsWithout
    <3>2. o \in SpentBy(t) => t \notin S
      BY <2>3, Zenon DEF Freed
    <3>3. QED
      BY <1>1, <2>1, <3>1, <3>2, Zenon
  <2>4. QED
    BY <2>2, <2>3, Zenon
<1>5. /\ IsFiniteSet(Pooled) /\ IsFiniteSet(Pooled \ S) /\ SizeSum(Pooled \ S) \in Nat
      /\ SizeSum(S) \in Nat /\ SizeSum(Pooled) \in Nat
      /\ SizeSum(Pooled \ S) = SizeSum(Pooled) - SizeSum(S)
  <2>1. Pooled \subseteq Tx /\ IsFiniteSet(Pooled)
    BY Zenon DEF Pooled, PoolInv
  <2>2. QED
    BY <2>1, SizesSplit, Zenon
<1>6. bytes = SizeSum(Pooled) /\ bytes' = bytes - SizeSum(S)
  BY Zenon DEF PoolInv, BytesExact, Drop
<1>7. bytes' = SizeSum(Pooled \ S)
  BY <1>5, <1>6, Zenon
<1>8. BytesExact'
  BY <1>1, <1>7, Zenon DEF BytesExact, SizeSum
<1>9. PoolBounded'
  <2>1. MaxPoolBytes \in Nat
    BY MempoolAssumption, Zenon
  <2>2. CASE bytes <= MaxPoolBytes
    <3>1. bytes \in Int
      BY <1>5, <1>6
    <3>2. QED
      BY <1>5, <1>6, <2>1, <2>2, <3>1 DEF PoolBounded
  <2>3. CASE Cardinality(Pooled) = 1
    <3>1. PICK x : Pooled = {x}
      BY <1>5, <2>3, FS_Singleton, Zenon
    <3>2. CASE x \in S
      <4>1. Pooled \ S = {}
        BY <3>1, <3>2, Zenon
      <4>2. bytes' = 0
        BY <1>7, <4>1, SumEmpty, Zenon DEF SizeSum
      <4>3. QED
        BY <2>1, <4>2 DEF PoolBounded
    <3>3. CASE x \notin S
      BY <1>1, <2>3, <3>1, <3>3, Pooled' = Pooled, Zenon DEF PoolBounded
    <3>4. QED
      BY <3>2, <3>3, Zenon
  <2>4. QED
    BY <2>2, <2>3, Zenon DEF PoolInv, PoolBounded
<1>10. QED
  BY <1>1, <1>2, <1>3, <1>4, <1>5, <1>8, <1>9, Zenon DEF PoolInv

\* Mempool.Remove preserves the invariant.
LEMMA RemovePreserves ==
    ASSUME PoolInv, NEW t, RemoveTx(t)
    PROVE  PoolInv'
<1>1. {t} \cap Pooled \subseteq Pooled
  BY Zenon
<1>2. QED
  BY <1>1, DropPreserves, Zenon DEF RemoveTx

\* RemoveMinedBlock preserves the invariant.
LEMMA RemoveMinedPreserves ==
    ASSUME PoolInv, NEW b, RemoveMinedBlock(b)
    PROVE  PoolInv'
<1>1. MinedIn(b) \cap Pooled \subseteq Pooled
  BY Zenon
<1>2. QED
  BY <1>1, DropPreserves, Zenon DEF RemoveMinedBlock

\* Add is never reached by a transaction that is pooled already: its inputs are
\* claimed.  So the pool afterwards is what eviction left and the new one.
LEMMA AddedIsNew ==
    ASSUME PoolInv, utxo \in Log, NEW t \in Tx, ValidTx(t, utxo, Claimed, AnyHeight)
    PROVE  /\ t \notin Pooled
           /\ \A o \in SpentBy(t), u \in Pooled : o \notin SpentBy(u)
<1>1. /\ SpentBy(t) # {} /\ SpentBy(t) \subseteq Outpoint
      /\ SpentBy(t) \cap Claimed = {}
  BY AdmittedTx, Zenon
<1>2. None \notin Tx
  BY LedgerAssumption, Zenon
<1>3. ASSUME NEW o \in SpentBy(t), NEW u \in Pooled, o \in SpentBy(u)
      PROVE  FALSE
  <2>1. o \in Outpoint /\ u \in Tx
    BY <1>1, Zenon DEF Pooled
  <2>2. spends[o] = u
    BY <1>3, <2>1, Zenon DEF PoolInv, SpendsExact
  <2>3. o \in Claimed
    BY <1>2, <2>1, <2>2, Zenon DEF Claimed
  <2>4. QED
    BY <1>1, <2>3, Zenon
<1>4. QED
  BY <1>1, <1>3, Zenon

\* Add, with its evictions, preserves the invariant.
LEMMA AddPreserves ==
    ASSUME PoolInv, utxo \in Log, NEW t \in Tx, Add(t)
    PROVE  PoolInv'
<1>1. ValidTx(t, utxo, Claimed, AnyHeight)
  BY Zenon DEF Add
<1>2. PICK evicted \in SUBSET Pooled :
        /\ Evictable(evicted, Size[t])
        /\ pool' = [PoolWithout(evicted) EXCEPT ![t] = Fee(t, utxo)]
        /\ spends' = [o \in Outpoint |->
                        IF o \in SpentBy(t) THEN t ELSE SpendsWithout(evicted)[o]]
        /\ bytes' = bytes - SizeSum(evicted) + Size[t]
  BY Zenon DEF Add
<1>3. /\ Fee(t, utxo) \in Nat
      /\ SpentBy(t) # {} /\ SpentBy(t) \subseteq Outpoint
      /\ SpentBy(t) \cap Claimed = {}
  BY <1>1, AdmittedTx, Zenon
<1>4. None \notin Tx /\ None \notin Nat
  BY LedgerAssumption, Zenon
<1>5. \A o \in SpentBy(t), u \in Pooled : o \notin SpentBy(u)
  BY <1>1, AddedIsNew, Zenon
<1>6. t \notin Pooled
  BY <1>1, AddedIsNew, Zenon
<1>7. Pooled' = (Pooled \ evicted) \cup {t}
  BY <1>2, <1>3, <1>4, Zenon DEF PoolInv, PoolTyped, PoolWithout, Pooled
<1>8. PoolTyped'
  <2>1. pool' \in [Tx -> Nat \cup {None}]
    BY <1>2, <1>3, Zenon DEF PoolInv, PoolTyped, PoolWithout
  <2>2. spends' \in [Outpoint -> Tx \cup {None}]
    BY <1>2, Zenon DEF PoolInv, PoolTyped, SpendsWithout
  <2>3. QED
    BY <2>1, <2>2, Zenon DEF PoolTyped
<1>9. ClaimsReal'
  BY <1>3, <1>7, Zenon DEF PoolInv, ClaimsReal
<1>10. SpendsExact'
  <2> SUFFICES ASSUME NEW o \in Outpoint, NEW u \in Tx
               PROVE  spends'[o] = u <=> u \in Pooled' /\ o \in SpentBy(u)
    BY Zenon DEF SpendsExact
  <2>1. spends[o] = u <=> u \in Pooled /\ o \in SpentBy(u)
    BY Zenon DEF PoolInv, SpendsExact
  <2>2. CASE o \in SpentBy(t)
    <3>1. spends'[o] = t
      BY <1>2, <2>2, Zenon
    <3>2. QED
      BY <1>5, <1>7, <2>2, <3>1, Zenon
  <2>3. CASE o \notin SpentBy(t) /\ o \in Freed(evicted)
    <3>1. PICK v \in evicted : o \in SpentBy(v)
      BY <2>3, Zenon DEF Freed
    <3>2. v \in Tx /\ spends[o] = v
      BY <1>2, <3>1, Zenon DEF PoolInv, SpendsExact, Pooled
    <3>3. spends'[o] = None
      BY <1>2, <2>3, Zenon DEF SpendsWithout
    <3>4. QED
      BY <1>4, <1>7, <2>1, <2>3, <3>1, <3>2, <3>3, Zenon
  <2>4. CASE o \notin SpentBy(t) /\ o \notin Freed(evicted)
    <3>1. spends'[o] = spends[o]
      BY <1>2, <2>4, Zenon DEF SpendsWithout
    <3>2. o \in SpentBy(u) => u \notin evicted
      BY <2>4, Zenon DEF Freed
    <3>3. QED
      BY <1>7, <2>1, <2>4, <3>1, <3>2, Zenon
  <2>5. QED
    BY <2>2, <2>3, <2>4, Zenon
<1>11. /\ IsFiniteSet(Pooled \ evicted) /\ SizeSum(Pooled \ evicted) \in Nat
       /\ SizeSum(evicted) \in Nat /\ SizeSum(Pooled) \in Nat
       /\ SizeSum(Pooled \ evicted) = SizeSum(Pooled) - SizeSum(evicted)
  <2>1. Pooled \subseteq Tx /\ IsFiniteSet(Pooled)
    BY Zenon DEF Pooled, PoolInv
  <2>2. QED
    BY <1>2, <2>1, SizesSplit, Zenon
<1>12. IsFiniteSet(Pooled')
  BY <1>7, <1>11, FS_AddElement, Zenon
<1>13. BytesExact'
  <2> DEFINE R == (Pooled \ evicted) \cup {t}
  <2>1. R \subseteq Tx /\ IsFiniteSet(R) /\ t \in R
    BY <1>11, FS_AddElement, Zenon DEF Pooled
  <2>2. R \ {t} = Pooled \ evicted
    BY <1>6, Zenon
  <2>3. Size[t] \in Nat /\ \A u \in R : Size[u] \in Int
    BY <2>1, SizesFinite, Zenon
  <2>4. SizeSum(R) = Size[t] + SizeSum(R \ {t})
    <3> HIDE DEF R
    <3> QED
      BY <2>1, <2>3, SumTake DEF SizeSum
  <2>5. bytes = SizeSum(Pooled) /\ bytes' = bytes - SizeSum(evicted) + Size[t]
    BY <1>2, Zenon DEF PoolInv, BytesExact
  <2> HIDE DEF R
  <2>6. bytes' = SizeSum(R)
    <3>1. SizeSum(R) = Size[t] + (SizeSum(Pooled) - SizeSum(evicted))
      BY <1>11, <2>2, <2>4, Zenon
    <3>2. \A a, b, c \in Int : a - b + c = c + (a - b)
      OBVIOUS
    <3>3. bytes' = SizeSum(Pooled) - SizeSum(evicted) + Size[t]
      BY <2>5, Zenon
    <3>4. QED
      BY <1>11, <2>3, <3>1, <3>2, <3>3
  <2>7. QED
    BY <1>7, <2>6, Zenon DEF R, BytesExact, SizeSum
<1>14. PoolBounded'
  <2>1. bytes - SizeSum(evicted) + Size[t] <= MaxPoolBytes \/ evicted = Pooled
    BY <1>2, Zenon DEF Evictable
  <2>2. CASE evicted = Pooled
    <3>1. Pooled' = {t}
      BY <1>7, <2>2, Zenon
    <3>2. QED
      BY <3>1, FS_Singleton, Zenon DEF PoolBounded
  <2>3. QED
    BY <1>2, <2>1, <2>2, Zenon DEF PoolBounded
<1>15. QED
  BY <1>8, <1>9, <1>10, <1>12, <1>13, <1>14, Zenon DEF PoolInv

-----------------------------------------------------------------------------
(* Eviction *)

\* No product of a pooled fee and a pooled size exceeds a uint64, so that the
\* cross multiplication of fee rates compares the rates.
RatesExact == \A t, u \in Pooled : pool[t] * Size[u] <= MaxUint

\* A number that fits is not changed by the wrap.
LEMMA NoWrap ==
    ASSUME NEW x \in Nat, NEW m \in Nat, x <= m
    PROVE  x % (m + 1) = x
OBVIOUS

\* A positive factor does not change a comparison.
LEMMA Scaled ==
    ASSUME NEW a \in Nat, NEW b \in Nat, NEW c \in Nat \ {0}
    PROVE  a < b <=> a * c < b * c
OBVIOUS

\* Fractions are ordered transitively.
LEMMA RatesChain ==
    ASSUME NEW a \in Nat, NEW b \in Nat, NEW c \in Nat,
           NEW r \in Nat \ {0}, NEW s \in Nat \ {0}, NEW t \in Nat \ {0},
           a * s < b * r, b * t < c * s
    PROVE  a * t < c * r
<1>1. (a * s) * t < (b * r) * t
  BY Scaled
<1>2. (b * t) * r < (c * s) * r
  BY Scaled
<1>3. (a * t) * s = (a * s) * t /\ (b * r) * t = (b * t) * r /\ (c * s) * r = (c * r) * s
  OBVIOUS
<1>4. (a * t) * s < (c * r) * s
  <2> DEFINE u == (a * t) * s
             v == (b * t) * r
             w == (c * r) * s
  <2>1. u \in Int /\ v \in Int /\ w \in Int
    OBVIOUS
  <2>2. u < v /\ v < w
    BY <1>1, <1>2, <1>3, Zenon
  <2> HIDE DEF u, v, w
  <2>3. u < w
    BY <2>1, <2>2
  <2>4. QED
    BY <2>3, Zenon DEF u, w
<1>5. QED
  BY <1>4, Scaled

\* A pooled transaction has a fee and a positive size.
LEMMA PooledTyped ==
    ASSUME PoolTyped, NEW t \in Pooled
    PROVE  t \in Tx /\ pool[t] \in Nat /\ Size[t] \in Nat \ {0}
BY LedgerAssumption DEF PoolTyped, Pooled

\* LowerRate compares the products.
LEMMA RateCompared ==
    ASSUME PoolTyped, RatesExact, NEW t \in Pooled, NEW u \in Pooled
    PROVE  LowerRate(t, u) <=> pool[t] * Size[u] < pool[u] * Size[t]
<1>1. /\ pool[t] \in Nat /\ Size[t] \in Nat \ {0}
      /\ pool[u] \in Nat /\ Size[u] \in Nat \ {0}
      /\ MaxUint \in Nat
  BY PooledTyped, LedgerAssumption, Zenon
<1>2. pool[t] * Size[u] \in Nat /\ pool[u] * Size[t] \in Nat
  BY <1>1
<1>3. pool[t] * Size[u] <= MaxUint /\ pool[u] * Size[t] <= MaxUint
  BY Zenon DEF RatesExact
<1>4. /\ (pool[t] * Size[u]) % (MaxUint + 1) = pool[t] * Size[u]
      /\ (pool[u] * Size[t]) % (MaxUint + 1) = pool[u] * Size[t]
  BY <1>1, <1>2, <1>3, NoWrap, Zenon
<1>5. QED
  BY <1>4, Zenon DEF LowerRate

\* LowerRate is transitive.
LEMMA RatesTransitive ==
    ASSUME PoolTyped, RatesExact,
           NEW t \in Pooled, NEW u \in Pooled, NEW v \in Pooled,
           LowerRate(t, u), LowerRate(u, v)
    PROVE  LowerRate(t, v)
<1>1. /\ pool[t] \in Nat /\ Size[t] \in Nat \ {0}
      /\ pool[u] \in Nat /\ Size[u] \in Nat \ {0}
      /\ pool[v] \in Nat /\ Size[v] \in Nat \ {0}
  BY PooledTyped, Zenon
<1>2. pool[t] * Size[u] < pool[u] * Size[t] /\ pool[u] * Size[v] < pool[v] * Size[u]
  BY RateCompared, Zenon
<1>3. pool[t] * Size[v] < pool[v] * Size[t]
  BY <1>1, <1>2, RatesChain, Zenon
<1>4. QED
  BY <1>3, RateCompared, Zenon

\* No rate is lower than itself.
LEMMA RateIrreflexive ==
    ASSUME PoolTyped, RatesExact, NEW t \in Pooled
    PROVE  ~LowerRate(t, t)
BY RateCompared, PooledTyped

\* low is the result of evictLowest's scan after each entry of order.
Scans(low, order) ==
    low = [i \in DOMAIN order |->
            IF i = 1 \/ LowerRate(order[i], low[i - 1]) THEN order[i] ELSE low[i - 1]]

\* What evictLowest returns is the end of a scan of the whole set.
LEMMA LowestUnfolds ==
    ASSUME NEW t, NEW S, CanBeLowest(t, S)
    PROVE  \E order \in [1 .. Cardinality(S) -> S] :
                IsInjective(order) /\ t = (CHOOSE low : Scans(low, order))[Cardinality(S)]
BY Zenon DEF CanBeLowest, Scans

\* A scan of finitely many entries has a result.
LEMMA ScanExists ==
    ASSUME NEW S, NEW n \in Nat, NEW order \in [1 .. n -> S]
    PROVE  \E low : Scans(low, order)
<1> DEFINE Scanned(low, k) ==
             low = [i \in 1 .. k |->
                     IF i = 1 \/ LowerRate(order[i], low[i - 1]) THEN order[i] ELSE low[i - 1]]
           Bad == {k \in 0 .. n : ~ \E low : Scanned(low, k)}
<1>1. SUFFICES ASSUME Bad # {} PROVE FALSE
  <2>1. DOMAIN order = 1 .. n
    BY Zenon
  <2>2. \A low : Scanned(low, n) => Scans(low, order)
    BY <2>1, Zenon DEF Scans
  <2>3. n \in 0 .. n
    OBVIOUS
  <2> HIDE DEF Scanned
  <2>4. QED
    BY <2>2, <2>3, Zenon
<1>2. PICK k \in Bad : \A m \in Bad : k <= m
  <2>1. Bad \subseteq Nat
    OBVIOUS
  <2> HIDE DEF Bad
  <2>2. QED
    BY <1>1, <2>1, LeastNumber, Zenon
<1>3. k \in 0 .. n /\ ~ \E low : Scanned(low, k)
  BY <1>2, Zenon
<1>4. k # 0
  <2>1. Scanned([i \in 1 .. 0 |-> 0], 0)
    OBVIOUS
  <2>2. QED
    BY <1>3, <2>1, Zenon
<1>5. k - 1 \in 0 .. n /\ k - 1 \notin Bad
  BY <1>2, <1>3, <1>4
<1>6. PICK low : Scanned(low, k - 1)
  BY <1>5, Zenon
<1> DEFINE next == [i \in 1 .. k |->
                      IF i = 1 \/ LowerRate(order[i], low[i - 1]) THEN order[i] ELSE low[i - 1]]
<1>7. \A i \in 1 .. k - 1 : next[i] = low[i]
  BY <1>3, <1>6
<1>8. \A i \in 1 .. k : next[i] = IF i = 1 \/ LowerRate(order[i], next[i - 1])
                                  THEN order[i] ELSE next[i - 1]
  <2> SUFFICES ASSUME NEW i \in 1 .. k
               PROVE  next[i] = IF i = 1 \/ LowerRate(order[i], next[i - 1])
                                THEN order[i] ELSE next[i - 1]
    BY Zenon
  <2>1. next[i] = IF i = 1 \/ LowerRate(order[i], low[i - 1]) THEN order[i] ELSE low[i - 1]
    BY Zenon
  <2>2. i # 1 => next[i - 1] = low[i - 1]
    <3>1. i # 1 => i - 1 \in 1 .. k - 1
      BY <1>3
    <3> HIDE DEF next
    <3>2. QED
      BY <1>7, <3>1, Zenon
  <2> HIDE DEF next
  <2>3. QED
    BY <2>1, <2>2, Zenon
<1>9. next = [i \in 1 .. k |-> next[i]]
  BY Zenon
<1>10. Scanned(next, k)
  <2> HIDE DEF next
  <2> QED
    BY <1>8, <1>9, Zenon
<1>11. QED
  BY <1>3, <1>10, Zenon

\* At every point of a scan, no entry seen so far has a lower rate.
LEMMA ScanLowest ==
    ASSUME PoolTyped, RatesExact,
           NEW S, S \subseteq Pooled, NEW n \in Nat, NEW order \in [1 .. n -> S],
           NEW low, Scans(low, order), NEW i \in 1 .. n
    PROVE  low[i] \in S /\ \A j \in 1 .. i : ~LowerRate(order[j], low[i])
<1> DEFINE Good(k) == low[k] \in S /\ \A j \in 1 .. k : ~LowerRate(order[j], low[k])
           Bad == {k \in 1 .. n : ~Good(k)}
<1>1. SUFFICES ASSUME Bad # {} PROVE FALSE
  BY Zenon
<1>2. PICK k \in Bad : \A m \in Bad : k <= m
  <2>1. Bad \subseteq Nat
    OBVIOUS
  <2> HIDE DEF Bad
  <2>2. QED
    BY <1>1, <2>1, LeastNumber, Zenon
<1>3. k \in 1 .. n /\ ~Good(k)
  BY <1>2, Zenon
<1>4. low[k] = IF k = 1 \/ LowerRate(order[k], low[k - 1]) THEN order[k] ELSE low[k - 1]
  <2>1. k \in DOMAIN order
    BY <1>3, Zenon
  <2>2. QED
    BY <2>1, Zenon DEF Scans
<1>5. \A j \in 1 .. k : order[j] \in S /\ order[j] \in Pooled
  BY <1>3
<1>6. CASE k = 1
  <2>1. low[k] = order[k] /\ order[k] \in S /\ ~LowerRate(order[k], order[k])
    BY <1>3, <1>4, <1>5, <1>6, RateIrreflexive, Zenon
  <2>2. \A j \in 1 .. k : j = k
    BY <1>6
  <2>3. QED
    BY <1>3, <2>1, <2>2, Zenon
<1>7. CASE k # 1
  <2>1. k - 1 \in 1 .. n /\ k - 1 \notin Bad
    BY <1>2, <1>3, <1>7
  <2>2. Good(k - 1)
    BY <2>1, Zenon
  <2>3. \A j \in 1 .. k : j # k => j \in 1 .. k - 1
    BY <1>3
  <2>4. CASE LowerRate(order[k], low[k - 1])
    <3>1. low[k] = order[k] /\ order[k] \in S /\ order[k] \in Pooled /\ low[k - 1] \in Pooled
      BY <1>3, <1>4, <1>5, <2>2, <2>4, Zenon
    <3>2. ~LowerRate(order[k], order[k])
      BY <3>1, RateIrreflexive, Zenon
    <3>3. \A j \in 1 .. k - 1 : ~LowerRate(order[j], order[k])
      <4> SUFFICES ASSUME NEW j \in 1 .. k - 1, LowerRate(order[j], order[k]) PROVE FALSE
        BY Zenon
      <4>1. order[j] \in Pooled /\ ~LowerRate(order[j], low[k - 1])
        BY <1>3, <1>5, <2>2
      <4>2. QED
        BY <2>4, <3>1, <4>1, RatesTransitive, Zenon
    <3>4. QED
      BY <1>3, <2>3, <3>1, <3>2, <3>3, Zenon
  <2>5. CASE ~LowerRate(order[k], low[k - 1])
    <3>1. low[k] = low[k - 1]
      BY <1>4, <1>7, <2>5, Zenon
    <3>2. QED
      BY <1>3, <2>2, <2>3, <2>5, <3>1, Zenon
  <2>6. QED
    BY <2>4, <2>5, Zenon
<1>8. QED
  BY <1>6, <1>7, Zenon

\* evictLowest returns an entry that no other one undercuts, in whatever order
\* the map is scanned.
LEMMA LowestIsLowest ==
    ASSUME PoolTyped, RatesExact,
           NEW S, S \subseteq Pooled, IsFiniteSet(S), NEW t, CanBeLowest(t, S), NEW u \in S
    PROVE  ~LowerRate(u, t)
<1> DEFINE n == Cardinality(S)
<1>1. PICK order \in [1 .. n -> S] :
        IsInjective(order) /\ t = (CHOOSE low : Scans(low, order))[n]
  BY LowestUnfolds, Zenon
<1>2. n \in Nat /\ \E i \in 1 .. n : order[i] = u
  BY <1>1, OrdersAreOnto, Zenon
<1> HIDE DEF n
<1>3. PICK i \in 1 .. n : order[i] = u
  BY <1>2, Zenon
<1> DEFINE low == CHOOSE low : Scans(low, order)
<1>4. Scans(low, order)
  BY <1>2, ScanExists, Zenon
<1>5. t = low[n]
  BY <1>1, Zenon
<1>6. n \in 1 .. n
  BY <1>2, <1>3
<1> HIDE DEF low
<1>7. \A j \in 1 .. n : ~LowerRate(order[j], low[n])
  BY <1>2, <1>4, <1>6, ScanLowest, Zenon
<1>8. QED
  BY <1>3, <1>5, <1>7, Zenon

\* So whatever Add keeps pays no lower rate than what it evicts.
LEMMA AddEvictsLowest ==
    ASSUME PoolInv, RatesExact, utxo \in Log, NEW t \in Tx, Add(t),
           NEW gone \in Pooled \ Pooled', NEW kept \in Pooled \cap Pooled'
    PROVE  ~LowerRate(kept, gone)
<1>1. PICK evicted \in SUBSET Pooled :
        /\ Evictable(evicted, Size[t])
        /\ pool' = [PoolWithout(evicted) EXCEPT ![t] = Fee(t, utxo)]
  BY Zenon DEF Add
<1>2. Fee(t, utxo) \in Nat
  BY AdmittedTx, Zenon DEF Add
<1>3. None \notin Nat
  BY LedgerAssumption, Zenon
<1>4. t \notin Pooled
  BY AddedIsNew, Zenon DEF Add
<1>5. Pooled' = (Pooled \ evicted) \cup {t}
  BY <1>1, <1>2, <1>3, Zenon DEF PoolInv, PoolTyped, PoolWithout, Pooled
<1>6. gone \in evicted /\ kept \in Pooled /\ kept \notin evicted
  BY <1>4, <1>5, Zenon
<1>7. IsFiniteSet(evicted) /\ IsFiniteSet(Pooled)
  BY FS_Subset, Zenon DEF PoolInv
<1>8. PICK order \in [1 .. Cardinality(evicted) -> evicted] :
        /\ IsInjective(order)
        /\ \A i \in DOMAIN order :
            CanBeLowest(order[i], Pooled \ {order[j] : j \in 1 .. i - 1})
  BY <1>1, Zenon DEF Evictable
<1>9. PICK i \in 1 .. Cardinality(evicted) : order[i] = gone
  BY <1>6, <1>7, <1>8, OrdersAreOnto
<1> DEFINE S == Pooled \ {order[j] : j \in 1 .. i - 1}
<1>10. CanBeLowest(gone, S)
  BY <1>8, <1>9, Zenon
<1>11. S \subseteq Pooled /\ IsFiniteSet(S)
  BY <1>7, FS_Subset, Zenon
<1>12. kept \in S
  <2>1. Cardinality(evicted) \in Nat
    BY <1>7, FS_CardinalityType, Zenon
  <2>2. \A j \in 1 .. i - 1 : order[j] \in evicted
    BY <1>8, <1>9, <2>1
  <2>3. QED
    BY <1>6, <2>2, Zenon
<1> HIDE DEF S
<1>13. QED
  BY <1>10, <1>11, <1>12, LowestIsLowest, Zenon DEF PoolInv

\* The steps EvictsLowestFirst allows.
LowestFirst ==
    \A gone \in Pooled \ Pooled', kept \in Pooled \cap Pooled' :
        Pooled' \ Pooled # {} => ~LowerRate(kept, gone)

\* A removal admits nothing.
LEMMA DropAddsNothing ==
    ASSUME NEW S, Drop(S)
    PROVE  LowestFirst
<1>1. Pooled' \subseteq Pooled
  BY Zenon DEF Drop, PoolWithout, Pooled
<1>2. QED
  BY <1>1, Zenon DEF LowestFirst

-----------------------------------------------------------------------------
(* Templates *)

\* The coin a block creates at an outpoint has its type.
LEMMA NewCoinTyped ==
    ASSUME NEW b \in Block, NEW o \in Outpoint, NEW i
    PROVE  NewCoin(b, i, o) \in Coin
<1>1. PICK t \in Tx : o \in {t} \X DOMAIN Outputs[t]
  BY Zenon DEF Outpoint
<1>2. o[1] \in Tx /\ o[2] \in DOMAIN Outputs[o[1]]
  BY <1>1, Zenon
<1>3. Outputs[o[1]] \in Seq([amount : 0 .. MaxUint, script : Script])
  BY <1>2, LedgerAssumption, Zenon
<1>4. Outputs[o[1]][o[2]] \in [amount : 0 .. MaxUint, script : Script]
  BY <1>2, <1>3, SeqElement, Zenon
<1>5. MaxUint \in Nat /\ HeightOf(b) \in Nat
  BY LedgerAssumption DEF HeightOf
<1>6. Outputs[o[1]][o[2]].amount \in Nat /\ Outputs[o[1]][o[2]].script \in Script
  BY <1>4, <1>5
<1>7. QED
  BY <1>5, <1>6, Zenon DEF NewCoin, Coin

\* What a coin at an outpoint says, whichever block created it.
Genuine ==
    [o \in Outpoint |-> [amount |-> Outputs[o[1]][o[2]].amount,
                         script |-> Outputs[o[1]][o[2]].script,
                         height |-> 0, coinbase |-> FALSE]]

\* Every coin says what the output it stands for says.
AreGenuine(coins) ==
    \A o \in Outpoint : coins[o] # None =>
        coins[o].amount = Genuine[o].amount /\ coins[o].script = Genuine[o].script

\* The coins of the table do.
CoinsGenuine == AreGenuine(utxo)

\* A pooled transaction is valid by what it says and by what the outputs it
\* spends say; the fee recorded at admission is the fee it pays.
PoolValid ==
    \A t \in Pooled : ValidTx(t, Genuine, {}, AnyHeight) /\ pool[t] = Fee(t, Genuine)

\* Such a coin has its type.
LEMMA GenuineCoin ==
    ASSUME NEW o \in Outpoint
    PROVE  Genuine[o] \in Coin /\ Genuine[o] # None
<1>1. Genesis \in Block /\ None \notin Coin
  BY LedgerAssumption, Zenon
<1>2. NewCoin(Genesis, 0, o) \in Coin
  BY <1>1, NewCoinTyped, Zenon
<1>3. Genuine[o] \in Coin
  BY <1>2, Zenon DEF NewCoin, Coin, Genuine
<1>4. QED
  BY <1>1, <1>3, Zenon

\* The amounts a transaction takes in do not depend on which block created them.
LEMMA InputTotalGenuine ==
    ASSUME NEW t \in Tx, CoinsGenuine,
           \A i \in DOMAIN Inputs[t] :
                Inputs[t][i].prev \in Outpoint /\ utxo[Inputs[t][i].prev] # None
    PROVE  InputTotal(t, utxo) = InputTotal(t, Genuine) /\ Fee(t, utxo) = Fee(t, Genuine)
<1>1. \A i \in DOMAIN Inputs[t] :
        utxo[Inputs[t][i].prev].amount = Genuine[Inputs[t][i].prev].amount
  BY Zenon DEF CoinsGenuine, AreGenuine
<1>2. [i \in DOMAIN Inputs[t] |-> utxo[Inputs[t][i].prev].amount]
        = [i \in DOMAIN Inputs[t] |-> Genuine[Inputs[t][i].prev].amount]
  BY <1>1, Zenon
<1>3. QED
  BY <1>2, Zenon DEF InputTotal, Fee

\* A transaction that Add admits is valid by its content.
LEMMA ValidByContent ==
    ASSUME NEW t \in Tx, utxo \in Log, CoinsGenuine, ValidTx(t, utxo, Claimed, AnyHeight)
    PROVE  ValidTx(t, Genuine, {}, AnyHeight) /\ Fee(t, utxo) = Fee(t, Genuine)
<1>1. \A i \in DOMAIN Inputs[t] :
        /\ Inputs[t][i].prev \in Outpoint /\ utxo[Inputs[t][i].prev] # None
        /\ Inputs[t][i].key = utxo[Inputs[t][i].prev].script
  BY Zenon DEF ValidTx, ValidInputs
<1>2. InputTotal(t, utxo) = InputTotal(t, Genuine) /\ Fee(t, utxo) = Fee(t, Genuine)
  BY <1>1, InputTotalGenuine, Zenon
<1>3. \A o \in Outpoint : Genuine[o] # None
  BY GenuineCoin, Zenon
<1>4. ValidInputs(t, Genuine, {}, AnyHeight)
  BY <1>1, <1>3, Zenon DEF ValidTx, ValidInputs, MatureAt, CoinsGenuine, AreGenuine
<1>5. QED
  BY <1>2, <1>4, Zenon DEF ValidTx

\* Add preserves the validity of what is pooled.
LEMMA AddKeepsValid ==
    ASSUME PoolInv, PoolValid, CoinsGenuine, utxo \in Log, NEW t \in Tx, Add(t)
    PROVE  PoolValid'
<1>1. PICK evicted \in SUBSET Pooled :
        pool' = [PoolWithout(evicted) EXCEPT ![t] = Fee(t, utxo)]
  BY Zenon DEF Add
<1>2. ValidTx(t, Genuine, {}, AnyHeight) /\ Fee(t, utxo) = Fee(t, Genuine)
  BY ValidByContent, Zenon DEF Add
<1>3. \A u \in Pooled' : u = t \/ (u \in Pooled /\ pool'[u] = pool[u])
  BY <1>1, Zenon DEF Pooled, PoolWithout, PoolInv, PoolTyped
<1>4. pool'[t] = Fee(t, Genuine)
  BY <1>1, <1>2, Zenon DEF PoolWithout
<1>5. QED
  BY <1>2, <1>3, <1>4, Zenon DEF PoolValid

\* So does every removal.
LEMMA DropKeepsValid ==
    ASSUME PoolInv, PoolValid, NEW S, Drop(S)
    PROVE  PoolValid'
<1>1. \A u \in Pooled' : u \in Pooled /\ pool'[u] = pool[u]
  BY Zenon DEF Drop, Pooled, PoolWithout
<1>2. QED
  BY <1>1, Zenon DEF PoolValid

\* What the pool pays in fees, as recorded at admission.
PoolFees == SumFunctionOnSet(pool, Pooled)

\* The reward and the fees of the whole pool fit a uint64.
FeesFit == InitialReward + PoolFees <= MaxUint

\* When the coins are there, the payments of a template made of the whole pool are
\* valid and pay the fees that were recorded.
LEMMA PooledTemplate ==
    ASSUME PoolInv, utxo \in Log, CoinsGenuine, PoolValid,
           NEW txs \in FeeRateOrders, NEW height,
           \A t \in Pooled : \A o \in SpentBy(t) : utxo[o] # None /\ MatureAt(utxo[o], height)
    PROVE  /\ ValidPayments(txs, height, utxo)
           /\ FeeTotal(txs, utxo) = PoolFees /\ PoolFees \in Nat
<1> DEFINE n == Cardinality(Pooled)
<1>1. IsFiniteSet(Pooled) /\ Pooled \subseteq Tx
  BY Zenon DEF PoolInv, Pooled
<1>2. txs \in [1 .. n -> Pooled] /\ IsInjective(txs)
  BY Zenon DEF FeeRateOrders
<1>3. n \in Nat /\ \A t \in Pooled : \E i \in 1 .. n : txs[i] = t
  BY <1>1, <1>2, OrdersAreOnto, Zenon
<1> HIDE DEF n
<1>4. \A t \in Pooled :
        /\ \A i \in DOMAIN Inputs[t] :
            /\ Inputs[t][i].prev \in Outpoint /\ utxo[Inputs[t][i].prev] # None
            /\ MatureAt(utxo[Inputs[t][i].prev], height)
        /\ InputTotal(t, utxo) = InputTotal(t, Genuine) /\ Fee(t, utxo) = Fee(t, Genuine)
  <2> SUFFICES ASSUME NEW t \in Pooled
               PROVE  /\ \A i \in DOMAIN Inputs[t] :
                            /\ Inputs[t][i].prev \in Outpoint
                            /\ utxo[Inputs[t][i].prev] # None
                            /\ MatureAt(utxo[Inputs[t][i].prev], height)
                      /\ InputTotal(t, utxo) = InputTotal(t, Genuine)
                      /\ Fee(t, utxo) = Fee(t, Genuine)
    BY Zenon
  <2>1. \A i \in DOMAIN Inputs[t] : Inputs[t][i].prev \in SpentBy(t)
    BY Zenon DEF SpentBy
  <2>2. \A i \in DOMAIN Inputs[t] :
            /\ Inputs[t][i].prev \in Outpoint /\ utxo[Inputs[t][i].prev] # None
            /\ MatureAt(utxo[Inputs[t][i].prev], height)
    BY <2>1, Zenon DEF PoolInv, ClaimsReal
  <2>3. QED
    BY <1>1, <2>2, InputTotalGenuine, Zenon
<1>5. ASSUME NEW i \in DOMAIN txs
      PROVE  ValidTx(txs[i], utxo, SpentBefore(txs, i), height)
  <2> DEFINE t == txs[i]
  <2>1. t \in Pooled /\ i \in 1 .. n
    BY <1>2, <1>5, Zenon
  <2>2. ValidTx(t, Genuine, {}, AnyHeight)
    BY <2>1, Zenon DEF PoolValid
  <2>3. \A o \in SpentBy(t) : o \notin SpentBefore(txs, i)
    <3> SUFFICES ASSUME NEW o \in SpentBy(t), o \in SpentBefore(txs, i) PROVE FALSE
      BY Zenon
    <3>1. PICK j \in 1 .. i - 1 : o \in SpentBy(txs[j])
      BY Zenon DEF SpentBefore
    <3>2. j \in 1 .. n /\ j # i
      BY <1>3, <2>1, <3>1
    <3>3. txs[j] \in Pooled /\ txs[j] # t
      BY <1>2, <2>1, <3>2, Zenon DEF IsInjective
    <3>4. o \in Outpoint
      BY <2>1, Zenon DEF PoolInv, ClaimsReal
    <3>5. QED
      BY <1>1, <2>1, <3>1, <3>3, <3>4, Zenon DEF PoolInv, SpendsExact
  <2>4. \A k \in DOMAIN Inputs[t] : Inputs[t][k].prev \in SpentBy(t)
    BY Zenon DEF SpentBy
  <2> HIDE DEF t
  <2>5. \A k \in DOMAIN Inputs[t] : Inputs[t][k].key = utxo[Inputs[t][k].prev].script
    BY <1>4, <2>1, <2>2, Zenon DEF ValidTx, ValidInputs, CoinsGenuine, AreGenuine
  <2>6. ValidInputs(t, utxo, SpentBefore(txs, i), height)
    BY <1>4, <2>1, <2>2, <2>3, <2>4, <2>5, Zenon DEF ValidTx, ValidInputs
  <2>7. ValidTx(t, utxo, SpentBefore(txs, i), height)
    BY <1>4, <2>1, <2>2, <2>6, Zenon DEF ValidTx
  <2>8. QED
    BY <2>7, Zenon DEF t
<1>6. \A t \in Pooled : pool[t] \in Nat /\ pool[t] \in Int
  BY PooledTyped DEF PoolInv
<1>7. FeeTotal(txs, utxo) = PoolFees
  <2> DEFINE g == [i \in DOMAIN txs |-> Fee(txs[i], utxo)]
  <2>1. DOMAIN txs = 1 .. n /\ DOMAIN g = 1 .. n
    BY <1>2, Zenon
  <2>2. \A i \in 1 .. n : g[i] = pool[txs[i]]
    BY <1>2, <1>4, Zenon DEF PoolValid
  <2>3. FeeTotal(txs, utxo) = SumFunctionOnSet(g, 1 .. n)
    BY <2>1, Zenon DEF FeeTotal, SumFunction
  <2> HIDE DEF g
  <2>4. SumFunctionOnSet(g, 1 .. n) = SumFunctionOnSet(pool, Pooled)
    BY <1>2, <1>3, <1>6, <2>2, SumReindex
  <2>5. QED
    BY <2>3, <2>4, Zenon DEF PoolFees
<1>8. PoolFees \in Nat
  BY <1>1, <1>6, SumNat, Zenon DEF PoolFees
<1>9. QED
  BY <1>5, <1>7, <1>8, Zenon DEF ValidPayments

\* So the template is accepted, as long as reward and fees do not wrap.
LEMMA MinableNow ==
    ASSUME PoolInv, utxo \in Log, CoinsGenuine, PoolValid, FeesFit
    PROVE  TemplateMinable
<1> SUFFICES ASSUME NEW height \in 1 .. MaxHeight + 1, NEW txs \in FeeRateOrders,
                    \A t \in Pooled : \A o \in SpentBy(t) :
                        utxo[o] # None /\ MatureAt(utxo[o], height)
             PROVE  TemplateAccepted(txs, height)
  BY Zenon DEF TemplateMinable
<1>1. /\ ValidPayments(txs, height, utxo)
      /\ FeeTotal(txs, utxo) = PoolFees /\ PoolFees \in Nat
  BY PooledTemplate, Zenon
<1>2. BlockReward(height) \in 0 .. InitialReward /\ InitialReward \in Nat /\ MaxUint \in Nat
  BY RewardAssumption, LedgerAssumption
<1>3. /\ BlockReward(height) + PoolFees \in Nat
      /\ BlockReward(height) + PoolFees <= MaxUint
      /\ BlockReward(height) <= BlockReward(height) + PoolFees
      /\ PoolFees <= MaxUint
  BY <1>1, <1>2 DEF FeesFit
<1>4. (BlockReward(height) + PoolFees) % (MaxUint + 1) = BlockReward(height) + PoolFees
  BY <1>2, <1>3, NoWrap, Zenon
<1>5. MayClaim(BlockReward(height), height, FeeTotal(txs, utxo))
  BY <1>1, <1>3, <1>4, Zenon DEF MayClaim
<1>6. QED
  BY <1>1, <1>5, Zenon DEF TemplateAccepted
=============================================================================
