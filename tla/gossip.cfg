\* Three connected nodes and a chain of two blocks.
\* The blocks run out, so the network may come to rest.
CONSTANTS
    None = None
    Node = {"n1", "n2", "n3"}
    Peers <- Triangle
    Outside = "outside"
    Entry = {"n1", "n2"}
    Busy <- OneBusy
    Source <- Ring
    Block = {"g", "b1", "b2"}
    Genesis = "g"
    Parent <- Line
    Capacity = 2
CHECK_DEADLOCK FALSE
SPECIFICATION FairSpec
PROPERTY FallsQuiet
 
