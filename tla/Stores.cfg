\* CDPs: two owners and two pairs; ratios below, at and beyond the largest number; totals
\* wrap.  Operators 0 to 3 of four owners; two orders of two blocks and two types.
\* Interest parameters: four heights, three values of each, the default among them.
\* Three delegates of up to three votes.  Three governors, the default one among them.
\* Two accounts, their tokens together up to a number that wraps.  Transactions: two levels
\* above the root, so that a mark is flushed into a cache that keeps it and into the root,
\* which does not; blocks of any of two.
CONSTANTS
    RegID = {o0, o1, o2, o3}
    Absent = Absent
    Id = {i1, i2, i3}
    Pair = {p1, p2}
    CDP <- MCCDP
    CdpOwner = {o1, o2}
    Amount = {1, 2}
    BlockHeight = {1, 2}
    Word = 4
    Boost = 2
    Unit = 2
    OrderId = {t1, t2}
    Order <- MCOrder
    GenerateType = {1, 2}
    Dex0Owner = o0
    MaxId = 3
    ParamValue = {d, v, w}
    Default = d
    MaxHeight = 3
    Delegate = {1, 2, 3}
    MaxVotes = 3
    GovernorID = {o0, o1, o3}
    DefaultGovernor = o0
    Proposal = {q1, q2}
    AccountID = {o1, o2}
    KeyID = {k1, k2}
    NoRegID = NoRegID
    MaxAmount = 2
    Tx = {x1, x2}
    MaxLevel = 3
SPECIFICATION StoresSpec
SYMMETRY Symmetry
INVARIANT IndexesAgree
INVARIANT OwnersAgree
INVARIANT HeldAreCurrent
INVARIANT TotalsAreSums
INVARIANT OperatorsAgree
INVARIANT OrdersAgree
INVARIANT ChangesAreHistory
INVARIANT TopDelegatesAreTop
INVARIANT QuorumsMeet
INVARIANT AccountsAgree
PROPERTY TxImplementsStore
