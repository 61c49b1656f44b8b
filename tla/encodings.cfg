\* Inputs of six kinds, grown to their bounds; a behaviour ends there.
CONSTANTS
    MaxField = 1
    MaxCount = 2
    MaxItems = 1
    MaxTxs = 2
    pbkdf2Iter = 3
    MaxKeyBytes = 2
    Symbol <- MCSymbol
    Start <- MCStart
    Bound <- MCBound
    Script <- MCScript
    prefix <- Nevel
    other <- Rnevel
    Saved <- MCSaved
CHECK_DEADLOCK FALSE
SPECIFICATION Spec
INVARIANT Canonical
INVARIANT TruncationDetected
INVARIANT RootBinds
INVARIANT SignatureBinds
 
INVARIANT OneAddress
INVARIANT WalletReloads
