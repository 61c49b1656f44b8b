------------------------------ MODULE Mempool ------------------------------
(***************************************************************************)
(* The mempool (mempool/mempool.go): every operation holds its mutex, so   *)
(* each is one step.  It validates against the utxo table of the store,    *)
(* which the chain manager changes without holding the mempool's mutex;    *)
(* on its own, this module lets the table change in any way.               *)
(***************************************************************************)
EXTENDS Storage

CONSTANT MaxPoolBytes    \* maxBytes

ASSUME MempoolAssumption == MaxPoolBytes \in Nat

VARIABLES
    utxo,     \* the store's unspent outputs, written by the chain manager
    pool,     \* txs: the fee of each pooled transaction, None if not pooled
    spends,   \* spends: the pooled transaction an outpoint is claimed by
    bytes     \* bytes

poolVars == <<pool, spends, bytes>>

Pooled == {t \in Tx : pool[t] # None}

SizeSum(S) == SumFunctionOnSet(Size, S)

PoolInit ==
    /\ pool = [t \in Tx |-> None]
    /\ spends = [o \in Outpoint |-> None]
    /\ bytes = 0

-----------------------------------------------------------------------------
\* Fee rates are compared by cross multiplication in uint64.
LowerRate(t, u) ==
    (pool[t] * Size[u]) % (MaxUint + 1) < (pool[u] * Size[t]) % (MaxUint + 1)

\* Mutant: the entry found last is taken for the lowest.
CanBeLowestAny(t, S) == t \in S

\* evictLowest scans the map in an arbitrary order and keeps the lowest so far.
CanBeLowest(t, S) ==
    \E order \in {s \in [1 .. Cardinality(S) -> S] : IsInjective(s)} :
        LET low[i \in DOMAIN order] ==
                IF i = 1 \/ LowerRate(order[i], low[i - 1]) THEN order[i] ELSE low[i - 1]
        IN  t = low[Cardinality(S)]

\* Mutant: the pool never evicts.
EvictableNone(evicted, size) == evicted = {}

\* A set of transactions the eviction loop of Add can remove, one at a time,
\* to make room for size more bytes: it stops as soon as there is room or the
\* pool is empty.
Evictable(evicted, size) ==
    /\ bytes - SizeSum(evicted) + size <= MaxPoolBytes \/ evicted = Pooled
    /\ \E order \in {s \in [1 .. Cardinality(evicted) -> evicted] : IsInjective(s)} :
        \A i \in DOMAIN order :
            LET gone == {order[j] : j \in 1 .. i - 1}
            IN  /\ bytes - SizeSum(gone) + size > MaxPoolBytes
                /\ CanBeLowest(order[i], Pooled \ gone)

\* delete(txs, h), bytes -= size, delete(spends, input) for each of S.
PoolWithout(S) == [t \in Tx |-> IF t \in S THEN None ELSE pool[t]]

Freed(S) == UNION {SpentBy(t) : t \in S}

\* Mutant: the claims of a removed transaction stay.
SpendsWithoutKept(S) == spends

SpendsWithout(S) == [o \in Outpoint |-> IF o \in Freed(S) THEN None ELSE spends[o]]

\* Mutant: what the pool already spends is not looked at.
ClaimedNothing == {}

Claimed == {o \in Outpoint : spends[o] # None}

Add(t) ==
    /\ ValidTx(t, utxo, Claimed, AnyHeight)
    /\ \E evicted \in SUBSET Pooled :
        /\ Evictable(evicted, Size[t])
        /\ pool' = [PoolWithout(evicted) EXCEPT ![t] = Fee(t, utxo)]
        /\ spends' = [o \in Outpoint |->
                        IF o \in SpentBy(t) THEN t ELSE SpendsWithout(evicted)[o]]
        /\ bytes' = bytes - SizeSum(evicted) + Size[t]

\* Mutant: the byte counter is not reduced.
DropLeaky(S) ==
    /\ pool' = PoolWithout(S)
    /\ spends' = SpendsWithout(S)
    /\ UNCHANGED bytes

\* Both Remove and RemoveMinedBlock come down to this.
Drop(S) ==
    /\ pool' = PoolWithout(S)
    /\ spends' = SpendsWithout(S)
    /\ bytes' = bytes - SizeSum(S)

RemoveTx(t) == Drop({t} \cap Pooled)

\* Mutant: only the coinbase is looked for.
MinedInHead(b) == {Body[b][1]}

\* The transactions RemoveMinedBlock removes.
MinedIn(b) == {Body[b][i] : i \in {j \in DOMAIN Body[b] : ~IsCoinbase(Body[b][j])}}

RemoveMinedBlock(b) == Drop(MinedIn(b) \cap Pooled)

-----------------------------------------------------------------------------
\* The orders EntriesByFeeRate can return: a higher rate never comes later.
FeeRateOrders ==
    {s \in [1 .. Cardinality(Pooled) -> Pooled] :
        IsInjective(s) /\ \A i \in 1 .. Cardinality(Pooled) - 1 : ~LowerRate(s[i], s[i + 1])}

\* Whether ValidateBlockTransactions would pass the block that BuildTemplate
\* makes of these transactions: its coinbase claims the reward and no fees.
TemplateAccepted(txs, height) ==
    /\ ValidPayments(txs, height, utxo)
    /\ MayClaim(BlockReward(height), height, FeeTotal(txs, utxo))

-----------------------------------------------------------------------------
\* The coins the store may hold at an outpoint: what connecting some block with
\* the creating transaction would have put there.
CoinsAt(o) ==
    UNION {{NewCoin(b, i, o) : i \in {j \in DOMAIN Body[b] : Body[b][j] = o[1]}} : b \in Block}

\* The environment of a mempool on its own: blocks come and go.
LedgerMoves ==
    /\ \E o \in Outpoint : \E c \in CoinsAt(o) \cup {None} : utxo' = [utxo EXCEPT ![o] = c]
    /\ UNCHANGED poolVars

PoolNext ==
    \/ \E t \in Tx : (Add(t) \/ RemoveTx(t)) /\ UNCHANGED utxo
    \/ \E b \in Block : RemoveMinedBlock(b) /\ UNCHANGED utxo
    \/ LedgerMoves

PoolSpec ==
    /\ PoolInit /\ utxo = [o \in Outpoint |-> None]
    /\ [][PoolNext]_<<poolVars, utxo>>

-----------------------------------------------------------------------------
\* The double-spend index is exact: an outpoint is claimed by a transaction if
\* and only if that transaction is pooled and spends it.  So no two pooled
\* transactions conflict, and no removal (Remove, RemoveMinedBlock, evictLowest)
\* leaves behind a claim that would refuse later spenders for ever.
SpendsExact ==
    \A o \in Outpoint, t \in Tx :
        spends[o] = t <=> t \in Pooled /\ o \in SpentBy(t)

\* The byte counter is the total size of the pooled transactions, after any mix
\* of admissions, evictions and removals: it can neither leak nor go negative.
BytesExact == bytes = SizeSum(Pooled)

\* The pool stays within maxBytes, unless a single oversized transaction is all
\* it holds (Add admits it once evictLowest finds nothing left to evict).
PoolBounded == bytes <= MaxPoolBytes \/ Cardinality(Pooled) = 1

\* The pool as a whole can be mined: once the coins its transactions spend are
\* there and mature, the template BuildTemplate makes of all of them passes
\* ValidateBlockTransactions, in whatever order equal fee rates are sorted.
TemplateMinable ==
    \A height \in 1 .. MaxHeight + 1 :
        (\A t \in Pooled : \A o \in SpentBy(t) : utxo[o] # None /\ MatureAt(utxo[o], height))
        => \A txs \in FeeRateOrders : TemplateAccepted(txs, height)

\* Add never evicts a transaction while keeping one of a lower fee rate.
EvictsLowestFirst ==
    [][\A gone \in Pooled \ Pooled', kept \in Pooled \cap Pooled' :
        Pooled' \ Pooled # {} => ~LowerRate(kept, gone)]_poolVars
=============================================================================
