---------------------------- MODULE ChainReplay ----------------------------
(***************************************************************************)
(* What the database of ChainNode must contain, by reference definitions   *)
(* that replay the branch of the tip from its genesis block: the height    *)
(* and transaction indexes, the coins, the total work and the mempool are  *)
(* compared with the replay whenever no call is in progress.               *)
(***************************************************************************)
EXTENDS ChainNode, Branches

Settled == up /\ tip # None /\ \A t \in Thread : th[t] = Idle

MainChain == PathTo[tip]

\* The coins of the main chain.
MainChainCoins == IF tip = None THEN NoCoins ELSE Replay[tip]

MainChainTxs == UNION {Range(Body[b]) : b \in Range(MainChain)}

-----------------------------------------------------------------------------
(* The refinement: the node as a ledger. *)

\* The coins as they are between batches.  While a batch is half executed the
\* tip has not moved yet, and the ledger is still the one before the batch.
CoinsBetweenBatches == IF \E t \in Thread : MidCommit(t) THEN MainChainCoins ELSE utxo

Promise == INSTANCE AbstractChain WITH
    branch <- IF tip = None THEN <<>> ELSE MainChain,
    coins <- CoinsBetweenBatches

\* The node implements the ledger it promises: every step of every call either
\* leaves the ledger alone or appends one block that is valid on top of it, and
\* the coins on disk are then exactly those of the longer branch.  No batch
\* shows through and nothing is ever taken back.
ImplementsLedger == Promise!ChainSpec

\* A node that loses a write or its process still implements a ledger: each
\* batch of a reorg takes back exactly the newest block with all its effects on
\* the coins, or appends one that is valid where it lands, and a restart finds
\* the ledger as the last batch left it.
ImplementsForkingLedger == Promise!ForkingSpec

-----------------------------------------------------------------------------
\* GetBlock by height and GetTx answer from the branch of the tip: the height
\* index lists exactly that branch up to the tip's height, and all of its
\* transactions are indexed.  This is what reorg's walk to "the main chain" and
\* ExpectedBits' window lookup rely on.
MainChainIndexed ==
    Settled =>
        /\ \A i \in DOMAIN MainChain : height[i - 1] = MainChain[i]
        /\ \A t \in MainChainTxs : txs[t]

\* The utxo table is what replaying the branch of the tip yields: no coin is
\* lost, kept after it was spent, or left over from another branch.
UtxoIsReplay == Settled => utxo = Replay[tip]

\* The value of all coins is what the coinbases of the main chain issued, less
\* the fees their miners left unclaimed: nothing is created twice or destroyed.
SupplyExact ==
    LET coins == {o \in Outpoint : utxo[o] # None}
    IN  Settled => SumFunction([o \in coins |-> utxo[o].amount]) = SumFunction(Issued(MainChain))

\* The tip is a heaviest block among all the node has stored, by true work: the
\* node only ever left a branch for one with more work.
HeaviestStored ==
    Settled => \A b \in Block : stored[b] => ChainWork[b] <= ChainWork[tip]

\* The record the next fork choice compares with is the true work of the tip.
TipWorkExact == Settled => work[tip] = ChainWork[tip]

\* RemoveMinedBlock was called for every accepted block: no transaction of the
\* main chain is still in the mempool.
PoolNotMined == Settled => Pooled \cap MainChainTxs = {}

\* A pooled transaction lost an input only to a transaction of the main chain:
\* the mempool never holds a spend of a coin that does not exist.
PoolInputsAccounted ==
    Settled =>
        \A t \in Pooled : \A o \in SpentBy(t) :
            utxo[o] # None \/ \E x \in MainChainTxs : o \in SpentBy(x)

\* What the loop of HeaderFirstSync demands of the headers it is sent: the first
\* follows the block it asked from, each other one follows the one before.
Contiguous(headers, from) ==
    \A i \in DOMAIN headers : Header[headers[i]].prev = IF i = 1 THEN from ELSE headers[i - 1]

\* gatherHeaders serves a node that is on any block this node has stored: the
\* headers it sends continue from there without a gap, and end at the tip.
HeadersFollow ==
    Settled =>
        \A b \in Block : stored[b] =>
            LET headers == GatherHeaders(b)
            IN  /\ Contiguous(headers, b)
                /\ HeightOf(b) + Len(headers) = HeightOf(tip)
=============================================================================
