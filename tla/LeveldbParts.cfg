\* Each part by itself, the bounds of the others where MCLeveldbParts instantiates them.
\* Three keys, three levels; two threads and another process at one database, two databases.
CONSTANTS
    r1 = r1
    r2 = r2
    f1 = f1
    f2 = f2
    p1 = p1
    p2 = p2
    d1 = d1
    d2 = d2
    None = None
    LastKey = 3
    kMaxHeight = 3
    Process = {p1, p2}
    Opener <- MCOpener
    Database = {d1, d2}
    MaxSchedule = 2
    Nobody = None
SPECIFICATION Spec
SYMMETRY Symmetry
INVARIANT SearchesAreRight
INVARIANT CachesAreSound
 
INVARIANT ShowsTheView
INVARIANT TableIsRead
INVARIANT FilesAreKept
INVARIANT ThreadsAreKeptApart
CHECK_DEADLOCK FALSE
