SPECIFICATION FairSpec
CONSTANTS
    CPUs = {}
    Writers = {w1, w2}
    Nodes <- MCNodes
    ProbesOf <- MCProbesOf
    MaxObjects = 0
    MaxWrites = 3
PROPERTIES
    ReleasedMeansFree
CHECK_DEADLOCK FALSE
