----------------------------- MODULE TableFormat -----------------------------
(***************************************************************************)
(* A table file of LevelDB as table/table_builder.cc writes it, key by     *)
(* key, and as table/table.cc reads it: data blocks with shared prefixes   *)
(* and restart points (table/block_builder.cc, table/block.cc), the index  *)
(* with keys shortened by util/comparator.cc and db/dbformat.cc, and the   *)
(* filters found by the offset of a block (table/filter_block.cc).         *)
(* A user key is a sequence of bytes; an internal key has one byte more,   *)
(* that stands for its sequence number.                                    *)
(***************************************************************************)
EXTENDS Integers, Sequences, SequencesExt, FiniteSetsExt

CONSTANTS
    UserKeys,
    kMaxByte,                \* 0xff
    MaxSequence,
    block_restart_interval,
    kFilterBase,
    BlockSizes,              \* the bytes a data block may take in the file
    MaxEntry                 \* bound: entries of the table

VARIABLE table   \* the TableBuilder, and the table it leaves

NoKey == <<>>
InternalKey(u, s) == Append(u, kMaxByte + s)
UserKeyOf(k) == SubSeq(k, 1, Len(k) - 1)
kMaxSequenceNumber == MaxSequence + 1

-----------------------------------------------------------------------------
(* Comparators *)

Common(a, b) ==
    LET differ == {i \in 1..Min({Len(a), Len(b)}) : a[i] # b[i]}
    IN  Min({i - 1 : i \in differ} \union {Len(a), Len(b)})

BytesBelow(a, b) ==
    LET n == Common(a, b)
    IN  n < Len(b) /\ (n < Len(a) => a[n + 1] < b[n + 1])

\* InternalKeyComparator: the newest entry of a user key first.
Below(a, b) ==
    IF UserKeyOf(a) = UserKeyOf(b) THEN Last(a) > Last(b) ELSE BytesBelow(UserKeyOf(a), UserKeyOf(b))

BytesSeparator(start, limit) ==
    LET i == Common(start, limit) + 1
    IN  IF i > Len(start) \/ i > Len(limit) \/ start[i] = kMaxByte \/ start[i] + 1 >= limit[i]
        THEN start
        ELSE Append(SubSeq(start, 1, i - 1), start[i] + 1)

BytesSuccessor(key) ==
    LET at == {i \in DOMAIN key : key[i] # kMaxByte}
    IN  IF at = {} THEN key ELSE Append(SubSeq(key, 1, Min(at) - 1), key[Min(at)] + 1)

\* A user key that became shorter and larger takes the earliest sequence number.
Shortened(key, user) ==
    IF Len(user) < Len(UserKeyOf(key)) /\ BytesBelow(UserKeyOf(key), user)
    THEN InternalKey(user, kMaxSequenceNumber)
    ELSE key

FindShortestSeparator(start, limit) ==
    Shortened(start, BytesSeparator(UserKeyOf(start), UserKeyOf(limit)))
FindShortSuccessor(key) == Shortened(key, BytesSuccessor(UserKeyOf(key)))

-----------------------------------------------------------------------------
(* A block: its entries with what they share with the one before, and the  *)
(* entries that share nothing                                              *)

NewBlock == [entries |-> <<>>, restarts |-> <<1>>, last_key |-> NoKey]

BlockAdd(b, key, value, interval) ==
    LET n == Len(b.entries) + 1
        restart == n - Last(b.restarts) >= interval
        shared == IF restart THEN 0 ELSE Common(b.last_key, key)
    IN  [entries |-> Append(b.entries, [shared |-> shared, delta |-> SubSeq(key, shared + 1, Len(key)),
                                        value |-> value]),
         restarts |-> IF restart THEN Append(b.restarts, n) ELSE b.restarts,
         last_key |-> key]

\* ParseNextKey from restart point r on, up to entry i.
Parsed(b, r, i) ==
    LET key_[j \in r - 1..i] ==
            IF j < r THEN NoKey
            ELSE SubSeq(key_[j - 1], 1, b.entries[j].shared) \o b.entries[j].delta
    IN  key_[i]

\* Seek: binary search of the last restart point whose key is below target, then entry by
\* entry; 0 when there is no entry.
BlockSeek(b, target) ==
    LET n == Len(b.restarts)
        restart[left \in 1..n, right \in 0..n] ==
            IF left >= right THEN b.restarts[left]
            ELSE LET mid == (left + right + 1) \div 2
                 IN  IF Below(b.entries[b.restarts[mid]].delta, target)
                     THEN restart[mid, right] ELSE restart[left, mid - 1]
        from == restart[1, n]
        found == {i \in from..Len(b.entries) : ~Below(Parsed(b, from, i), target)}
    IN  IF found = {} THEN [at |-> 0, key |-> NoKey]
        ELSE [at |-> Min(found), key |-> Parsed(b, from, Min(found))]

\* Prev from entry i: the restart point before it, and forward to the entry before it.
BlockPrev(b, i) ==
    LET before == {r \in ToSet(b.restarts) : r < i}
    IN  IF before = {} THEN NoKey ELSE Parsed(b, Max(before), i - 1)

-----------------------------------------------------------------------------
(* The filter block: one set of keys for each kFilterBase bytes of the file *)

NewFilter == [filters |-> <<>>, keys |-> {}]

GenerateFilter(f) == [filters |-> Append(f.filters, f.keys), keys |-> {}]

\* (mutant of StartBlock: one filter at most, where a block passes several bases)
StartBlockOnce(f, offset) ==
    IF offset \div kFilterBase <= Len(f.filters) THEN f ELSE GenerateFilter(f)

\* A filter for each base passed: the first has the keys, the others none.
StartBlock(f, offset) ==
    LET missing == offset \div kFilterBase - Len(f.filters)
    IN  IF missing <= 0 THEN f
        ELSE LET g == GenerateFilter(f)
             IN  [g EXCEPT !.filters = @ \o [i \in 1..missing - 1 |-> {}]]

FinishFilter(f) == IF f.keys = {} THEN f ELSE GenerateFilter(f)

\* The policy may match other keys too: the strictest one is taken.
KeyMayMatch(f, offset, key) ==
    LET index == offset \div kFilterBase + 1
    IN  index \in DOMAIN f.filters => UserKeyOf(key) \in f.filters[index]

-----------------------------------------------------------------------------
(* TableBuilder *)

TableInit ==
    table = [data_block |-> NewBlock, index_block |-> NewBlock, filter |-> NewFilter, blocks |-> <<>>,
             offset |-> 0, last_key |-> NoKey, pending_index_entry |-> FALSE, closed |-> FALSE,
             added |-> <<>>]

\* The handle of the last block written; its index entry waits for the next key.
IndexEntry(t, key) ==
    IF ~t.pending_index_entry THEN t
    ELSE [t EXCEPT !.index_block = BlockAdd(@, key, Len(t.blocks), 1), !.pending_index_entry = FALSE]

\* Flush: a block of some size goes to the file.
Flushed(t, size) ==
    IF t.data_block.entries = <<>> THEN t
    ELSE [t EXCEPT !.blocks = Append(@, [offset |-> t.offset, block |-> t.data_block]),
                   !.data_block = NewBlock, !.pending_index_entry = TRUE,
                   !.offset = @ + size, !.filter = StartBlock(@, t.offset + size)]

Added(t, key) ==
    LET u == IndexEntry(t, FindShortestSeparator(t.last_key, key))
    IN  [u EXCEPT !.filter.keys = @ \union {UserKeyOf(key)}, !.last_key = key,
                  !.data_block = BlockAdd(@, key, 0, block_restart_interval),
                  !.added = Append(@, key)]

Add ==
    /\ ~table.closed /\ Len(table.added) < MaxEntry
    /\ \E u \in UserKeys, s \in 1..MaxSequence :
         LET key == InternalKey(u, s)
         IN  /\ table.added # <<>> => Below(table.last_key, key)
             /\ \/ table' = Added(table, key)
                \/ \E size \in BlockSizes : table' = Flushed(Added(table, key), size)

Finish ==
    /\ ~table.closed /\ table.added # <<>>
    /\ \E size \in BlockSizes :
         LET t == Flushed(table, size)
             i == IndexEntry(t, FindShortSuccessor(t.last_key))
         IN  table' = [i EXCEPT !.filter = FinishFilter(@), !.closed = TRUE]

TableNext == Add \/ Finish
TableSpec == TableInit /\ [][TableNext]_table

-----------------------------------------------------------------------------
(* Reading *)

DataBlock(b) == table.blocks[b].block

\* InternalGet: the index, the filter, then the block; what it hands to saver.
InternalGet(key) ==
    LET i == BlockSeek(table.index_block, key)
    IN  IF i.at = 0 THEN NoKey
        ELSE LET b == table.index_block.entries[i.at].value
             IN  IF KeyMayMatch(table.filter, table.blocks[b].offset, key)
                 THEN BlockSeek(DataBlock(b), key).key ELSE NoKey

\* TwoLevelIterator's Seek goes on to the next block.
IterSeek(key) ==
    LET i == BlockSeek(table.index_block, key)
        b == IF i.at = 0 THEN 0 ELSE table.index_block.entries[i.at].value
    IN  IF b = 0 THEN NoKey
        ELSE IF BlockSeek(DataBlock(b), key).at # 0 THEN BlockSeek(DataBlock(b), key).key
        ELSE IF b = Len(table.blocks) THEN NoKey
        ELSE Parsed(DataBlock(b + 1), 1, 1)

FirstNotBelow(key) ==
    LET at == {i \in DOMAIN table.added : ~Below(table.added[i], key)}
    IN  IF at = {} THEN NoKey ELSE table.added[Min(at)]

\* However the keys fall into blocks, restart points and filters, a finished table answers
\* every Get as the keys that were added do: the newest entry not newer than asked of that
\* very user key; and an iterator finds every first entry not below, and every one before.
TableIsRead ==
    table.closed =>
        /\ \A u \in UserKeys, s \in 1..MaxSequence :
             LET key == InternalKey(u, s)
                 wanted == FirstNotBelow(key)
                 got == InternalGet(key)
             IN  /\ IterSeek(key) = wanted
                 /\ IF wanted # NoKey /\ UserKeyOf(wanted) = u THEN got = wanted
                    ELSE got = NoKey \/ UserKeyOf(got) # u
        /\ \A b \in DOMAIN table.blocks : \A i \in 2..Len(DataBlock(b).entries) :
             BlockPrev(DataBlock(b), i) = Parsed(DataBlock(b), 1, i - 1)
=============================================================================
