------------------------------- MODULE Ledger -------------------------------
(***************************************************************************)
(* Transactions, blocks and the consensus rules that judge them            *)
(* (tx/transaction.go, blockchain/block.go, consensus/consensus.go).       *)
(*                                                                         *)
(* Hashes are collision-free names: a transaction or a block IS its hash.  *)
(* What the code reads out of serialized bytes is given by the constants   *)
(* Inputs, Outputs, Size, Header and Body.                                 *)
(***************************************************************************)
EXTENDS Difficulty, Sequences, FiniteSets

CONSTANTS
    None,                \* the missing value; also the null outpoint
    Tx,                  \* transactions
    Script,              \* locking scripts; a key is named by the script it opens
    Inputs,              \* Inputs[t]: sequence of [prev, key]
    Outputs,             \* Outputs[t]: sequence of [amount, script]
    Size,                \* Size[t]: length of the serialized transaction
    Block,               \* blocks
    Genesis,             \* the block CreateGenesisBlock and Mine produce
    Header,              \* Header[b]: [prev, height, time, bits, sound]
    Body,                \* Body[b]: sequence of transactions
    MaxUint,             \* ^uint64(0)
    MaxHeight,           \* bound: the largest height in Block
    InitialReward,
    HalvingInterval,
    CoinbaseMaturity,
    MinRelayFeePerByte

Outpoint == UNION {{t} \X DOMAIN Outputs[t] : t \in Tx}

\* storage.UTXO, without the outpoint it is stored under.
Coin == [amount : Nat, script : Script, height : Nat, coinbase : BOOLEAN]

ASSUME LedgerAssumption ==
    /\ \A t \in Tx :
        /\ Inputs[t] \in Seq([prev : Outpoint \cup {None}, key : Script])
        /\ Outputs[t] \in Seq([amount : 0 .. MaxUint, script : Script])
        /\ Size[t] \in Nat \ {0}
    /\ MaxHeight \in Nat
    /\ \A b \in Block :
        /\ Header[b].prev \in Block \cup {None}
        /\ Header[b].height \in 0 .. MaxHeight
        /\ Header[b].bits \in Nat
        /\ Body[b] \in Seq(Tx)
    /\ Genesis \in Block /\ Header[Genesis].height = 0
    /\ None \notin Block /\ None \notin Tx /\ None \notin Nat /\ None \notin Coin
    /\ None \notin Outpoint
    /\ {MaxUint, InitialReward, CoinbaseMaturity} \subseteq Nat
    /\ {HalvingInterval, MinRelayFeePerByte} \subseteq Nat \ {0}

-----------------------------------------------------------------------------
(* Transactions *)

IsCoinbase(t) == Len(Inputs[t]) = 1 /\ Inputs[t][1].prev = None

SpentBy(t) == {Inputs[t][i].prev : i \in DOMAIN Inputs[t]}

CreatedBy(t) == {t} \X DOMAIN Outputs[t]

MinFee(t) == Size[t] * MinRelayFeePerByte

InputTotal(t, coins) ==
    SumFunction([i \in DOMAIN Inputs[t] |-> coins[Inputs[t][i].prev].amount])

OutputTotal(t) == SumFunction([i \in DOMAIN Outputs[t] |-> Outputs[t][i].amount])

\* Only meaningful for a valid transaction.
Fee(t, coins) == InputTotal(t, coins) - OutputTotal(t)

\* The height the mempool passes: maturity is not looked at.
AnyHeight == MaxUint

MatureAt(coin, spendHeight) ==
    coin.coinbase /\ spendHeight # AnyHeight =>
        spendHeight >= coin.height + CoinbaseMaturity

\* The input loop of ValidateTransactionAt; pendingSpent also collects the
\* transaction's own inputs, so one that spends an outpoint twice is refused.
ValidInputs(t, coins, pendingSpent, spendHeight) ==
    /\ \A i, j \in DOMAIN Inputs[t] : i # j => Inputs[t][i].prev # Inputs[t][j].prev
    /\ \A i \in DOMAIN Inputs[t] :
        LET prev == Inputs[t][i].prev
        IN  /\ prev \notin pendingSpent
            /\ prev \in Outpoint /\ coins[prev] # None
            /\ MatureAt(coins[prev], spendHeight)
            /\ Inputs[t][i].key = coins[prev].script

\* ValidateTransactionAt.
ValidTx(t, coins, pendingSpent, spendHeight) ==
    /\ ~IsCoinbase(t)
    /\ ValidInputs(t, coins, pendingSpent, spendHeight)
    /\ InputTotal(t, coins) <= MaxUint
    /\ \A i \in DOMAIN Outputs[t] : Outputs[t][i].amount > 0
    /\ OutputTotal(t) <= InputTotal(t, coins)
    /\ Fee(t, coins) >= MinFee(t)

-----------------------------------------------------------------------------
(* Blocks *)

HeightOf(b) == Header[b].height

\* A shift by 64 or more yields 0, as does the division for such heights.
BlockReward(height) ==
    IF height \div HalvingInterval >= 64 THEN 0
    ELSE InitialReward \div 2 ^ (height \div HalvingInterval)

\* The reward only ever falls; exponentiation is opaque to the provers.
ASSUME RewardAssumption == \A h \in 0 .. MaxHeight + 1 : BlockReward(h) \in 0 .. InitialReward

\* The transactions of a block after its coinbase.
Payments(b) == SubSeq(Body[b], 2, Len(Body[b]))

\* The outpoints that the payments before the i-th one spend.
SpentBefore(txs, i) == UNION {SpentBy(txs[j]) : j \in 1 .. i - 1}

ValidPayments(txs, spendHeight, coins) ==
    \A i \in DOMAIN txs : ValidTx(txs[i], coins, SpentBefore(txs, i), spendHeight)

FeeTotal(txs, coins) == SumFunction([i \in DOMAIN txs |-> Fee(txs[i], coins)])

\* What a coinbase may claim.  The sum of reward and fees is a plain uint64
\* addition: it wraps.
MayClaim(amount, height, fees) ==
    fees <= MaxUint /\ amount <= (BlockReward(height) + fees) % (MaxUint + 1)

\* ValidateBlockTransactions.
ValidBlockTxs(b, coins) ==
    /\ Len(Body[b]) > 0 /\ IsCoinbase(Body[b][1])
    /\ ValidPayments(Payments(b), HeightOf(b), coins)
    /\ MayClaim(OutputTotal(Body[b][1]), HeightOf(b), FeeTotal(Payments(b), coins))

\* ValidateBlockHeader.  "sound" stands for what only depends on the block:
\* its merkle root, its hash against its own target.  A block from the future
\* is refused without a trace, as if it had not been submitted yet.
ValidHeader(b, prev) ==
    /\ Header[b].sound
    /\ TargetInRange(Header[b].bits)
    /\ prev # None => HeightOf(b) = HeightOf(prev) + 1 /\ Header[b].prev = prev

AtWindowBoundary(prev) == (HeightOf(prev) + 1) % DifficultyWindow = 0

\* ExpectedBits; index is the height index, the window's first block is looked
\* up there and not on the branch of prev.  None is the lookup's error.
ExpectedBits(prev, index) ==
    LET first == index[HeightOf(prev) + 1 - DifficultyWindow]
    IN  IF ~AtWindowBoundary(prev) THEN Header[prev].bits
        ELSE IF first = None THEN None
        ELSE NextBits(Header[prev].bits, Header[prev].time - Header[first].time)

BlockWork(b) == WorkForBits(Header[b].bits)
=============================================================================
