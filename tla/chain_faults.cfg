\* One call at a time, a failed write or a crash at any point, also inside a batch.
CONSTANTS
    Base = 4
    Digits = 4
    PowLimit = 31
    ExpectedRetargetSec = 8
    DifficultyWindow = 2
    None = None
    Tx <- MCTx
    Script = {"miner", "shop", "genesis"}
    Inputs <- MCInputs
    Outputs <- MCOutputs
    Size <- MCSize
    Block <- MCBlock
    Genesis = "G"
    Header <- MCHeader
    Body <- MCBody
    MaxUint = 255
    MaxHeight = 3
    InitialReward = 16
    HalvingInterval = 3
    CoinbaseMaturity = 2
    MinRelayFeePerByte = 1
    MaxPoolBytes = 8
    Thread = {t1}
    MaxFaults = 1
    AtomicCommit = FALSE
    ChainWork <- MCChainWork
SPECIFICATION FairSpec
INVARIANT TypeOK
INVARIANT StoreClosed
 
INVARIANT WorkNeverOverstated
 
