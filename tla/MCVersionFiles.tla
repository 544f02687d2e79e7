--------------------------- MODULE MCVersionFiles ---------------------------
(* VersionFiles for TLC. *)
EXTENDS VersionFiles

Keys == 1..2
EntriesForLevel == [l \in 1..NumLevels - 2 |-> 2]

Limited(w, r, s, e, f, c) ==
    [writes |-> w, readers |-> r, snapshots |-> s, entries |-> e, fail |-> f, crash |-> c]

\* More writes; readers; a snapshot, with one output a compaction; both; errors and a
\* crash.  (A snapshot with several outputs: see NewerIsAbove.)
SafeLimits ==
    {Limited(4, 0, 0, 1, 0, 0), Limited(3, 1, 0, 1, 0, 0), Limited(3, 0, 1, 9, 0, 0),
     Limited(2, 1, 1, 9, 0, 0), Limited(3, 0, 0, 1, 1, 1)}

SnapshotLimits == {Limited(3, 0, 1, 1, 0, 0)}
ErrorLimits == {Limited(3, 0, 0, 1, 1, 1)}
=============================================================================
