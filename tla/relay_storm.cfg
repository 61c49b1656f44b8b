\* Three connected nodes and two blocks that compete.
\* The blocks run out, so the network may come to rest.
CONSTANTS
    None = None
    Node = {"n1", "n2", "n3"}
    Peers <- Triangle
    Outside = "outside"
    Entry = {"n1"}
    Busy = {}
    Source <- Ring
    Block = {"g", "b1", "c1"}
    Genesis = "g"
    Parent <- Fork
    Capacity = 2
CHECK_DEADLOCK FALSE
SPECIFICATION FairSpec
PROPERTY FallsQuiet
