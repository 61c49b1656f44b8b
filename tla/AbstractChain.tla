--------------------------- MODULE AbstractChain ---------------------------
(***************************************************************************)
(* What a node promises its users: a ledger that starts with the genesis   *)
(* block and grows by one block at a time that is valid on top of it; a    *)
(* node that reorganises also takes back its newest block.  There are no   *)
(* tables, no batches and no calls in progress; the coins are those of the *)
(* whole branch at every instant.                                          *)
(***************************************************************************)
EXTENDS Naturals, Sequences

CONSTANTS
    Block,
    Genesis,
    NoCoins,            \* the coins before the genesis block
    Connect(_, _),      \* the coins after a block, given those before it
    Replay,             \* Replay[b]: the coins after the whole branch of b
    ValidNext(_, _, _)  \* a block is valid on top of a branch and its coins

VARIABLES
    branch,   \* the blocks of the ledger, oldest first
    coins     \* the unspent outputs after the last of them

chainVars == <<branch, coins>>

Found ==
    /\ branch = <<>>
    /\ branch' = <<Genesis>>
    /\ coins' = Connect(NoCoins, Genesis)

Extend(b) ==
    /\ branch # <<>>
    /\ ValidNext(b, branch, coins)
    /\ branch' = Append(branch, b)
    /\ coins' = Connect(coins, b)

\* The genesis block is never taken back.
Retract ==
    /\ Len(branch) > 1
    /\ branch' = SubSeq(branch, 1, Len(branch) - 1)
    /\ coins' = Replay[branch[Len(branch) - 1]]

ChainInit == branch = <<>> /\ coins = NoCoins

ChainNext == Found \/ \E b \in Block : Extend(b)

\* The ledger of a node that never has to change its mind, and of any node.
ChainSpec == ChainInit /\ [][ChainNext]_chainVars

ForkingSpec == ChainInit /\ [][ChainNext \/ Retract]_chainVars
=============================================================================
