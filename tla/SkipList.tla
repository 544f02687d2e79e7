------------------------------ MODULE SkipList ------------------------------
(***************************************************************************)
(* The memtable of LevelDB (db/skiplist.h, db/memtable.cc): one writer     *)
(* inserts, linking its node level by level, while a reader that takes no  *)
(* lock searches.  Keys are internal keys in their order, so that Get of a *)
(* user key at a sequence number is a Seek; links are release stores and   *)
(* acquire loads, so what a reader finds through one is complete; the      *)
(* height is read without a barrier and may be an old one.                 *)
(***************************************************************************)
EXTENDS Integers

CONSTANTS
    LastKey,     \* the keys are 1..LastKey
    kMaxHeight

ASSUME SkipAssumption == LastKey \in Nat /\ kMaxHeight \in Nat \ {0}

VARIABLES
    next,        \* next[n][i]: next_[i] of node n; 0 is head_, LastKey + 1 is NULL
    height,      \* height[n] of the nodes there are
    max_height,
    insert,      \* the Insert under way: its node, prev[] and the levels linked
    iter,        \* the reader's search and, between two, its Iterator
    seen         \* nodes whose Insert had returned when the reader's search began

skipVars == <<next, height, max_height, insert, iter, seen>>

Key == 1..LastKey
head == 0
NULL == LastKey + 1
SkipLevel == 0..kMaxHeight - 1
NoInsert == [node |-> NULL, prev |-> <<>>, linked |-> 0]

Inserted == {n \in DOMAIN height \ {head} : n # insert.node}

SkipInit ==
    /\ next = [n \in {head} |-> [i \in SkipLevel |-> NULL]]
    /\ height = [n \in {head} |-> kMaxHeight] /\ max_height = 1
    /\ insert = NoInsert
    /\ iter = [pc |-> "done", node |-> NULL, target |-> head, less |-> FALSE, x |-> head, level |-> 0]
    /\ seen = {}

-----------------------------------------------------------------------------
(* The writer, which no other writer disturbs *)

\* FindGreaterOrEqual's prev: the last node before k at each level.
Prev(k) == [i \in SkipLevel |->
              CHOOSE n \in {m \in DOMAIN height : m < k /\ height[m] > i} : next[n][i] >= k]

\* Insert: a node of some height; max_height_ first, then the links from the lowest up.
StartInsert(k, h) ==
    /\ insert = NoInsert /\ k \notin DOMAIN height
    /\ insert' = [node |-> k, prev |-> Prev(k), linked |-> 0]
    /\ height' = [n \in DOMAIN height \union {k} |-> IF n = k THEN h ELSE height[n]]
    /\ next' = [n \in DOMAIN height' |-> IF n = k THEN [i \in SkipLevel |-> NULL] ELSE next[n]]
    /\ max_height' = IF h > max_height THEN h ELSE max_height
    /\ UNCHANGED <<iter, seen>>

\* (mutant of LinkedNext: the links are made from the highest down)
LinkedFromTop(x) == height[x] - 1 - insert.linked

\* The level of node x that is linked next.
LinkedNext(x) == insert.linked

Link ==
    /\ insert # NoInsert
    /\ LET x == insert.node
           i == LinkedNext(x)
           p == insert.prev[i]
       IN  /\ next' = [next EXCEPT ![x][i] = next[p][i], ![p][i] = x]
           /\ insert' = IF insert.linked + 1 = height[x] THEN NoInsert
                        ELSE [insert EXCEPT !.linked = @ + 1]
    /\ UNCHANGED <<height, max_height, iter, seen>>

-----------------------------------------------------------------------------
(* The reader *)

\* FindGreaterOrEqual, FindLessThan and FindLast differ in what they return.
Search(target, less) ==
    \E h \in 1..max_height :
        /\ iter' = [iter EXCEPT !.pc = "search", !.target = target, !.less = less,
                                !.x = head, !.level = h - 1]
        /\ seen' = Inserted

Between == iter.pc = "done"
Valid == Between /\ iter.node # NULL

Seek == Between /\ \E k \in Key : Search(k, FALSE)
SeekToLast == Between /\ Search(NULL, TRUE)
SkipPrev == Valid /\ Search(iter.node, TRUE)

\* SeekToFirst and Next are one load each.
Load(x) ==
    /\ iter' = [iter EXCEPT !.node = next[x][0], !.target = x + 1, !.less = FALSE]
    /\ seen' = Inserted
SeekToFirst == Between /\ Load(head)
SkipNext == Valid /\ Load(iter.node)

SearchStep ==
    /\ iter.pc = "search"
    /\ LET n == next[iter.x][iter.level]
           found == IF iter.less THEN iter.x ELSE n
       IN  iter' = IF n < iter.target THEN [iter EXCEPT !.x = n]
                   ELSE IF iter.level > 0 THEN [iter EXCEPT !.level = @ - 1]
                   ELSE [iter EXCEPT !.pc = "done", !.node = IF found = head THEN NULL ELSE found]
    /\ UNCHANGED seen

SkipNextState ==
    \/ \E k \in Key, h \in 1..kMaxHeight : StartInsert(k, h)
    \/ Link
    \/ (Seek \/ SeekToLast \/ SkipPrev \/ SeekToFirst \/ SkipNext \/ SearchStep)
          /\ UNCHANGED <<next, height, max_height, insert>>

SkipSpec == SkipInit /\ [][SkipNextState]_skipVars

-----------------------------------------------------------------------------
\* A search passes over no node that was there when it began, whatever is inserted
\* meanwhile, and finds none on the wrong side of what it was asked for.
SearchesAreRight ==
    Between =>
        IF iter.less
        THEN LET found == IF iter.node = NULL THEN head ELSE iter.node
             IN  found < iter.target /\ \A n \in seen : ~(found < n /\ n < iter.target)
        ELSE iter.node >= iter.target /\ \A n \in seen : ~(iter.target <= n /\ n < iter.node)
=============================================================================
