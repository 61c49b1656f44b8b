\* Two concurrent calls, interleaved at every read and every chunk of a batch.
\* The blocks run out, so the node may come to rest.
CONSTANTS
    Base = 4
    Digits = 4
    PowLimit = 31
    ExpectedRetargetSec = 8
    DifficultyWindow = 2
    None = None
    Tx <- MCTx
    Script = {"miner", "shop", "genesis"}
    Inputs <- MCInputs
    Outputs <- MCOutputs
    Size <- MCSize
    Block <- ForkAt1
    Genesis = "G"
    Header <- MCHeader
    Body <- MCBody
    MaxUint = 255
    MaxHeight = 3
    InitialReward = 16
    HalvingInterval = 3
    CoinbaseMaturity = 2
    MinRelayFeePerByte = 1
    MaxPoolBytes = 8
    Thread = {t1, t2}
    MaxFaults = 0
    AtomicCommit = FALSE
    ChainWork <- MCChainWork
CHECK_DEADLOCK FALSE
SPECIFICATION Spec
INVARIANT CallsConsistent
SYMMETRY ThreadSymmetry
