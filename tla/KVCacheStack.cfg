\* Two values.  Three stacked caches that hold one key, or two that hold two with a value:
\* every order of reads, writes, flushes, drops, undos and restarts.  MCKVCache bounds each.
CONSTANTS
    k1 = k1
    k2 = k2
    Key = {k1, k2}
    Value = {v1, v2}
    Empty = Empty
    Absent = Absent
    MaxLevel = 3
    MaxLog = 3
    KeySize <- KeySizes
    ValueSize <- ValueSizes
SPECIFICATION BoundedSpec
SYMMETRY Symmetry
 
INVARIANT SizeIsExact
INVARIANT UndoIsReplay
PROPERTY ImplementsStore
