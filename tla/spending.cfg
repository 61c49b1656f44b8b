CONSTANTS
    Base = 4
    Digits = 4
    PowLimit = 63
    ExpectedRetargetSec = 8
    DifficultyWindow = 2
    None = None
    Tx <- MCTx
    Script = {"alice", "bob", "shop"}
    Inputs <- MCInputs
    Outputs <- MCOutputs
    Size <- MCSize
    Block <- MCBlock
    Genesis = "G"
    Header <- MCHeader
    Body <- MCBody
    MaxUint = 100
    MaxHeight = 1
    InitialReward = 60
    HalvingInterval = 4
    CoinbaseMaturity = 1
    MinRelayFeePerByte = 1
    MaxPoolBytes = 5
    Handler = {h1}
    Request <- MCRequest
    DefaultFee = 3
    KeyOrder <- MCKeyOrder
SPECIFICATION Spec
INVARIANT SpendsExact
INVARIANT BytesExact
INVARIANT PoolBounded
INVARIANT TemplateMinable
INVARIANT RequestAdmissible
PROPERTY EvictsLowestFirst
