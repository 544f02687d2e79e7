------------------------------- MODULE DBIter -------------------------------
(***************************************************************************)
(* The iterator a client of LevelDB holds (db/db_iter.cc), over the merge  *)
(* (table/merger.cc) of a memtable, to which the writer goes on adding,    *)
(* and of a table read block by block (table/two_level_iterator.cc).  Each *)
(* step moves the merged iterator once, so that the writer inserts between *)
(* any two.  An internal key is a number: the order of user keys, then of  *)
(* sequence numbers from the newest.                                       *)
(***************************************************************************)
EXTENDS Integers, FiniteSetsExt

CONSTANTS
    UserKey,      \* 1..n
    MaxSequence   \* bound: entries written in all

VARIABLES
    type,         \* type[k] of the entries there are, by internal key
    mem,          \* the entries of the memtable
    block,        \* block[k]: the block of the table that has k, for the others
    sequence_,    \* of the iterator's snapshot
    child,        \* where the two children stand
    current_,     \* the child the merge stands on
    direction,    \* of the merge
    dbi           \* the DBIter, and what it is asked for

iterVars == <<type, mem, block, sequence_, child, current_, direction, dbi>>

Kind == {"value", "deletion"}
IKey(u, s) == u * (MaxSequence + 1) - s
UserKeyOf(k) == (k + MaxSequence) \div (MaxSequence + 1)
SequenceOf(k) == UserKeyOf(k) * (MaxSequence + 1) - k
Visible(k) == SequenceOf(k) <= sequence_
NONE == 0

Smallest(S) == IF S = {} THEN NONE ELSE Min(S)
Largest(S) == IF S = {} THEN NONE ELSE Max(S)

-----------------------------------------------------------------------------
(* The children.  A position is a key, or NONE when the child is not valid *)

Table == DOMAIN type \ mem
Blocks == {block[k] : k \in Table}
LastOf(b) == Max({k \in Table : block[k] = b})
FirstOf(b) == Min({k \in Table : block[k] = b})

MemSeek(k) == Smallest({e \in mem : e >= k})
MemNext(k) == Smallest({e \in mem : e > k})
MemPrev(k) == Largest({e \in mem : e < k})

\* The index has for each block a key not below its last one and below the first of the
\* next: of these, the highest.
IndexKey(b) == IF b = Max(Blocks) THEN LastOf(b) ELSE FirstOf(b + 1) - 1

\* TwoLevelIterator: the block the index says; past its end, the first of the next block.
TableSeek(k) ==
    LET b == Smallest({c \in Blocks : IndexKey(c) >= k})
        e == Smallest({x \in Table : block[x] = b /\ x >= k})
    IN  IF b = NONE THEN NONE
        ELSE IF e # NONE THEN e
        ELSE IF b + 1 \in Blocks THEN FirstOf(b + 1) ELSE NONE
TableNext(k) ==
    LET e == Smallest({x \in Table : block[x] = block[k] /\ x > k})
    IN  IF e # NONE THEN e ELSE IF block[k] + 1 \in Blocks THEN FirstOf(block[k] + 1) ELSE NONE
TablePrev(k) ==
    LET e == Largest({x \in Table : block[x] = block[k] /\ x < k})
    IN  IF e # NONE THEN e ELSE IF block[k] - 1 \in Blocks THEN LastOf(block[k] - 1) ELSE NONE

Child == 1..2
SeekOf(c, k) == IF c = 1 THEN MemSeek(k) ELSE TableSeek(k)
NextOf(c, k) == IF c = 1 THEN MemNext(k) ELSE TableNext(k)
PrevOf(c, k) == IF c = 1 THEN MemPrev(k) ELSE TablePrev(k)
FirstOfChild(c) == Smallest(IF c = 1 THEN mem ELSE Table)
LastOfChild(c) == Largest(IF c = 1 THEN mem ELSE Table)

-----------------------------------------------------------------------------
(* The merge.  Each step says where the children stand then; at is the key *)
(* the merge stands on afterwards, NONE when it is not valid               *)

FindSmallest(pos) == Smallest({pos[c] : c \in Child} \ {NONE})
FindLargest(pos) == Largest({pos[c] : c \in Child} \ {NONE})

Moved(pos, forward, at) ==
    /\ child' = pos
    /\ current_' = IF at = NONE THEN 0 ELSE CHOOSE c \in Child : pos[c] = at
    /\ direction' = IF forward THEN "forward" ELSE "reverse"

MergeSeek(k) == LET pos == [c \in Child |-> SeekOf(c, k)] IN Moved(pos, TRUE, FindSmallest(pos))
MergeFirst == LET pos == [c \in Child |-> FirstOfChild(c)] IN Moved(pos, TRUE, FindSmallest(pos))
MergeLast == LET pos == [c \in Child |-> LastOfChild(c)] IN Moved(pos, FALSE, FindLargest(pos))

\* (mutant of SteppedBack: the other child stays at the first entry not below)
SteppedBackNot(c, k) == SeekOf(c, k)

\* Where the other child stands when the merge turns backwards.
SteppedBack(c, k) ==
    LET e == SeekOf(c, k)
    IN  IF e # NONE THEN PrevOf(c, e) ELSE LastOfChild(c)

SteppedAfter(c, k) ==
    LET e == SeekOf(c, k)
    IN  IF e = k THEN NextOf(c, e) ELSE e

Key == child[current_]

MergeNext ==
    LET pos == [c \in Child |-> IF c = current_ THEN NextOf(c, Key)
                                ELSE IF direction = "forward" THEN child[c]
                                ELSE SteppedAfter(c, Key)]
    IN  Moved(pos, TRUE, FindSmallest(pos))
MergePrev ==
    LET pos == [c \in Child |-> IF c = current_ THEN PrevOf(c, Key)
                                ELSE IF direction = "reverse" THEN child[c]
                                ELSE SteppedBack(c, Key)]
    IN  Moved(pos, FALSE, FindLargest(pos))

-----------------------------------------------------------------------------
(* DBIter.  pc says which loop runs: "next" is FindNextUserEntry, "back"   *)
(* the scan with which Prev turns, "prev" FindPrevUserEntry                *)

At == IF current_ = 0 THEN NONE ELSE Key
Is(d) == dbi' = d

Asked(d, request, from) == [d EXCEPT !.request = request, !.from = from]

Seek(u) ==
    /\ dbi.pc = "idle"
    /\ MergeSeek(IKey(u, sequence_))
    /\ Is([Asked(dbi, "from", u) EXCEPT !.pc = "next", !.forward = TRUE, !.skipping = FALSE,
                                        !.saved_key_ = NONE, !.saved = NONE])
SeekToFirst ==
    /\ dbi.pc = "idle"
    /\ MergeFirst
    /\ Is([Asked(dbi, "from", Min(UserKey)) EXCEPT !.pc = "next", !.forward = TRUE, !.skipping = FALSE,
                                                   !.saved = NONE])
SeekToLast ==
    /\ dbi.pc = "idle"
    /\ MergeLast
    /\ Is([Asked(dbi, "upto", Max(UserKey)) EXCEPT !.pc = "prev", !.forward = FALSE, !.last = "deletion"])

\* key() of the iterator.
Shown == IF dbi.forward THEN UserKeyOf(Key) ELSE dbi.saved_key_

Next ==
    /\ dbi.pc = "idle" /\ dbi.valid_
    /\ LET d == [Asked(dbi, "from", Shown + 1) EXCEPT !.pc = "next", !.forward = TRUE, !.skipping = TRUE,
                                                      !.saved_key_ = Shown]
       IN  /\ Is(d)
           /\ IF dbi.forward THEN UNCHANGED <<child, current_, direction>>
              ELSE IF At = NONE THEN MergeFirst ELSE MergeNext

Prev ==
    /\ dbi.pc = "idle" /\ dbi.valid_
    /\ LET d == Asked(dbi, "upto", Shown - 1)
       IN  IF dbi.forward
           THEN /\ MergePrev
                /\ Is([d EXCEPT !.pc = "back", !.saved_key_ = Shown])
           ELSE /\ UNCHANGED <<child, current_, direction>>
                /\ Is([d EXCEPT !.pc = "prev", !.last = "deletion"])

Idle(d, valid) == Is([d EXCEPT !.pc = "idle", !.valid_ = valid])

\* FindNextUserEntry's loop.
FindNext ==
    /\ dbi.pc = "next"
    /\ IF At = NONE
       THEN /\ Idle([dbi EXCEPT !.saved_key_ = NONE], FALSE)
            /\ UNCHANGED <<child, current_, direction>>
       ELSE LET u == UserKeyOf(At)
                hidden == dbi.skipping /\ u <= dbi.saved_key_
            IN  IF Visible(At) /\ type[At] = "value" /\ ~hidden
                THEN /\ Idle([dbi EXCEPT !.saved_key_ = NONE], TRUE)
                     /\ UNCHANGED <<child, current_, direction>>
                ELSE /\ MergeNext
                     /\ Is(IF Visible(At) /\ type[At] = "deletion"
                           THEN [dbi EXCEPT !.saved_key_ = u, !.skipping = TRUE] ELSE dbi)

\* Prev of an iterator that went forward: back to where the key changes.
ScanBack ==
    /\ dbi.pc = "back"
    /\ IF At = NONE
       THEN /\ Idle([dbi EXCEPT !.saved_key_ = NONE, !.saved = NONE], FALSE)
            /\ UNCHANGED <<child, current_, direction>>
       ELSE IF UserKeyOf(At) < dbi.saved_key_
       THEN /\ Is([dbi EXCEPT !.pc = "prev", !.forward = FALSE, !.last = "deletion"])
            /\ UNCHANGED <<child, current_, direction>>
       ELSE MergePrev /\ UNCHANGED dbi

\* FindPrevUserEntry's loop.
FindPrev ==
    /\ dbi.pc = "prev"
    /\ LET u == UserKeyOf(At)
           ends == At = NONE \/ (Visible(At) /\ dbi.last # "deletion" /\ u < dbi.saved_key_)
       IN  IF ends
           THEN /\ IF dbi.last = "deletion"
                   THEN Idle([dbi EXCEPT !.saved_key_ = NONE, !.saved = NONE, !.forward = TRUE], FALSE)
                   ELSE Idle(dbi, TRUE)
                /\ UNCHANGED <<child, current_, direction>>
           ELSE /\ MergePrev
                /\ Is(IF ~Visible(At) THEN dbi
                      ELSE IF type[At] = "deletion"
                      THEN [dbi EXCEPT !.last = "deletion", !.saved_key_ = NONE, !.saved = NONE]
                      ELSE [dbi EXCEPT !.last = "value", !.saved_key_ = u, !.saved = At])

-----------------------------------------------------------------------------
(* The writer: each entry takes the next sequence number *)

LastSequence == Cardinality(DOMAIN type)
Write ==
    /\ LastSequence < MaxSequence
    /\ \E u \in UserKey, t \in Kind :
         LET k == IKey(u, LastSequence + 1)
         IN  /\ type' = [x \in DOMAIN type \union {k} |-> IF x = k THEN t ELSE type[x]]
             /\ mem' = mem \union {k}
    /\ UNCHANGED <<block, sequence_, child, current_, direction, dbi>>

\* Any history of the database: the oldest entries are in the table, cut into blocks
\* anywhere, the newer ones in the memtable; the snapshot is the last sequence number.
IterInit ==
    \E n \in 0..MaxSequence - 1 : \E user \in [1..n -> UserKey], kind \in [1..n -> Kind], flushed \in 0..n :
        LET keys == {IKey(user[s], s) : s \in 1..n}
            old == {IKey(user[s], s) : s \in 1..flushed}
        IN  /\ type = [k \in keys |-> kind[SequenceOf(k)]] /\ mem = keys \ old
            /\ \E cut \in SUBSET old :
                 /\ old # {} => Min(old) \in cut
                 /\ block = [k \in old |-> Cardinality({c \in cut : c <= k})]
            /\ sequence_ = n
            /\ child = [c \in Child |-> NONE] /\ current_ = 0 /\ direction = "forward"
            /\ dbi = [pc |-> "idle", valid_ |-> FALSE, forward |-> TRUE, skipping |-> FALSE,
                      saved_key_ |-> NONE, saved |-> NONE, last |-> "deletion",
                      request |-> "none", from |-> 0]

IterNext ==
    \/ Write
    \/ /\ \/ \E u \in UserKey : Seek(u)
          \/ SeekToFirst \/ SeekToLast \/ Next \/ Prev
          \/ FindNext \/ ScanBack \/ FindPrev
       /\ UNCHANGED <<type, mem, block, sequence_>>

IterSpec == IterInit /\ [][IterNext]_iterVars

-----------------------------------------------------------------------------
\* The newest entry of each user key at the snapshot, where it is a value.
View == {k \in DOMAIN type :
           /\ Visible(k) /\ type[k] = "value"
           /\ \A x \in DOMAIN type : UserKeyOf(x) = UserKeyOf(k) /\ Visible(x) => x >= k}

\* After every Seek, Next and Prev, in whatever order and with turns anywhere, the iterator
\* shows the nearest key of the view of its snapshot and its value there, or is at the end;
\* what the writer adds meanwhile is never seen and never moves it.
ShowsTheView ==
    dbi.pc = "idle" /\ dbi.request # "none" =>
        LET entry == IF dbi.forward THEN At ELSE dbi.saved
            wanted == IF dbi.request = "from"
                      THEN Smallest({k \in View : UserKeyOf(k) >= dbi.from})
                      ELSE Largest({k \in View : UserKeyOf(k) <= dbi.from})
        IN  IF dbi.valid_ THEN entry = wanted /\ Shown = UserKeyOf(entry) ELSE wanted = NONE
=============================================================================
