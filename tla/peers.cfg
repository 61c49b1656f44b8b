\* Two connections at a time, for two inbound addresses of one host and one
\* dialled address.
CONSTANTS
    None = None
    Conn = {c1, c2}
    Inbound = {"a1", "a2"}
    Dialled = {"s"}
    Resolve <- NoNames
    Host <- MCHost
    MaxPeers = 2
    MaxPeersPerIP = 1
    PeerRateLimit = 1
    BanScore <- MCBanScore
    MessageType = {"block", "ping", "pong"}
SPECIFICATION Spec
SYMMETRY ConnSymmetry
INVARIANT PeersBounded
INVARIANT BannedUnlisted
 
 
 
