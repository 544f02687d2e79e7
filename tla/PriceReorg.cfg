\* A block cache over the cache of a chain over the root: what disconnecting a block
\* marks is lost at the first flush.
CONSTANTS
    Feeder = {f1}
    Price = {1}
    Word = 8
    Window = 2
    Permitted = {TRUE}
    None = None
    MaxHeight = 2
    MaxLevel = 3
SPECIFICATION Spec
PROPERTY MarkIsDeleted
