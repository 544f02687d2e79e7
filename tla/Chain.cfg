CONSTANTS
    FlushOrder <- MCFlushOrder
    BlockDb = "block"
    Value = {v0, v1}
    Genesis = v0
    Limits <- MCLimits
SPECIFICATION MCSpec
INVARIANT StateIsOfTip
 
 
