\* Base 4, five digits: targets up to 1023, the limit has its sign bit set when
\* written with three digits (the 0x207fffff shape of the regtest limit).
CONSTANTS
    Base = 4
    Digits = 5
    PowLimit = 496
    ExpectedRetargetSec = 12
    DifficultyWindow = 2
    GenesisBits = 351
    Spans <- MCSpans
    SmallestTarget = 4
SPECIFICATION Spec
INVARIANT AlwaysMineable
INVARIANT NoDrift
INVARIANT FasterIsHarder
PROPERTY AdjustmentBounded
CHECK_DEADLOCK FALSE
