\* Each part by itself, the bounds of each where MCCacheParts instantiates it.  Of single
\* values: a middle level has a base and is one; as many objects as levels, which is all
\* that can be held at once; a log of two values, of which the earlier is the savepoint.
CONSTANTS
    k1 = k1
    v1 = v1
    v2 = v2
    Absent = Absent
    Value = {v1}
    Empty = Empty
    NoRecord = NoRecord
    Null = Null
    Ref = {r1, r2, r3}
    MaxLevel = 3
    MaxLog = 2
SPECIFICATION PartsSpec
SYMMETRY Symmetry
INVARIANT ReaderShowsRecent
INVARIANT VisitsTheView
INVARIANT NoSharedData
INVARIANT WindowIsOfChain
 
INVARIANT MedianIsOfChain
PROPERTY ReaderIsQuiet
PROPERTY SimpleImplementsStore
