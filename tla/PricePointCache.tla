--------------------------- MODULE PricePointCache ---------------------------
(***************************************************************************)
(* IneryPricePointMemCache (persistence/pricefeeddb.cpp): the prices fed   *)
(* in the last slideWindow blocks, in memory only, from which the median   *)
(* price of each block is computed; all nodes must compute the same one.   *)
(* It is stacked like the other caches but has rules of its own: prices of *)
(* one height are hidden by an empty entry (a mark), and a flush merges.   *)
(*                                                                         *)
(* One coin pair is modelled: pairs share no state.  A block is connected  *)
(* or disconnected in a fresh cache that is then flushed or dropped, as    *)
(* the functions taking the tip and the block imply (the callers are in    *)
(* main.cpp, outside src/); the block's transactions call AddPrice, the    *)
(* last one computes and stores the median.                                *)
(***************************************************************************)
EXTENDS FiniteSetsExt, SequencesExt

CONSTANTS
    Feeder,      \* the reg ids that feed prices
    Price,       \* the prices, not zero
    Word,        \* 2^64: the modulus of uint64_t
    Window,      \* MEDIAN_PRICE_SLIDE_WINDOW_BLOCKCOUNT, not changed by governance
    Permitted,   \* whether the pair may have the price feed permission, or not have it
    None,        \* "no entry for the pair in this map"
    MaxHeight,   \* bound on the length of the chain
    MaxLevel     \* bound on the caches stacked

\* Twice a price is less than Word, so the sum of the two middle prices does not wrap: the
\* check is in the price feed transaction, outside src/.

VARIABLES
    top,         \* the innermost open cache
    cache,       \* cache[l]: None, or height -> (feeder -> price), a partial function
    chain        \* chain[l]: the blocks below and in level l, [feeds, price, last]

vars == <<top, cache, chain>>

Level == 1..MaxLevel
Height == 1..MaxHeight
Feeds == UNION {[F -> Price] : F \in SUBSET Feeder}
NoFeeds == [f \in {} |-> 0]

-----------------------------------------------------------------------------
(* The maps of one level. *)

Entries(m) == IF m = None THEN [h \in {} |-> NoFeeds] ELSE m
HasEntry(m, h) == m # None /\ h \in DOMAIN m

\* AddUserPrice: operator[] makes the entries it needs.
AddUserPrice(m, h, f, p) ==
    LET old == IF HasEntry(m, h) THEN m[h] ELSE NoFeeds IN (h :> (f :> p @@ old)) @@ Entries(m)

\* ExistBlockUserPrice asks the level and every one below it, marks or not.
ExistBlockUserPrice(l, m, h, f) ==
    \/ HasEntry(m, h) /\ f \in DOMAIN m[h]
    \/ \E i \in 1..(l - 1) : HasEntry(cache[i], h) /\ f \in DOMAIN cache[i][h]

\* DeleteBlockFromCache: the height is marked for the pairs the block feeds and for
\* those the map of this level knows.
DeleteBlockFromCache(m, h, block) ==
    IF block.feeds = NoFeeds /\ m = None THEN m ELSE (h :> NoFeeds) @@ Entries(m)

\* AddPriceByBlock leaves out the prices AddPrice refuses.
AddPriceByBlock(l, m, h, block) ==
    FoldSet(LAMBDA f, acc : AddUserPrice(acc, h, f, block.feeds[f]), m,
            {f \in DOMAIN block.feeds : ~ ExistBlockUserPrice(l, m, h, f)})

\* (mutant of BatchWrite: a mark leaves the base's entry alone)
BatchWriteNoErase(base, m) ==
    IF m = None THEN base
    ELSE [h \in DOMAIN Entries(base) \union DOMAIN m |->
            IF h \notin DOMAIN m THEN base[h] ELSE IF HasEntry(base, h) THEN base[h] @@ m[h] ELSE m[h]]

\* BatchWrite: a mark erases the base's entry, prices are emplaced beside those the
\* base already has.
BatchWrite(base, m) ==
    IF m = None THEN base
    ELSE LET kept == {h \in DOMAIN Entries(base) \union DOMAIN m :
                        h \in DOMAIN m => m[h] # NoFeeds}
         IN  [h \in kept |->
                IF h \notin DOMAIN m THEN base[h]
                ELSE IF HasEntry(base, h) THEN base[h] @@ m[h] ELSE m[h]]

-----------------------------------------------------------------------------
(* The median. *)

\* GetBlockUserPrices: the nearest entry of a height decides, a mark means none.
BlockUserPrices(l, c, h) ==
    LET holders == {i \in 1..l : HasEntry(c[i], h)}
    IN  IF holders = {} THEN NoFeeds ELSE c[Max(holders)][h]

InWindow(tip) == (IF tip > Window THEN tip - Window + 1 ELSE 1)..tip

\* The k-th smallest price of items; prices maps each height to its feeds.
Items(prices) == UNION {{h} \X DOMAIN prices[h] : h \in DOMAIN prices}
KthPrice(prices, k) ==
    CHOOSE p \in Price :
        /\ Cardinality({i \in Items(prices) : prices[i[1]][i[2]] <= p}) >= k
        /\ Cardinality({i \in Items(prices) : prices[i[1]][i[2]] < p}) < k

ComputeMedianNumber(prices) ==
    LET n == Cardinality(Items(prices))
    IN  IF n = 0 THEN 0
        ELSE IF n % 2 = 1 THEN KthPrice(prices, (n + 1) \div 2)
        ELSE ((KthPrice(prices, n \div 2) + KthPrice(prices, n \div 2 + 1)) % Word) \div 2

\* (mutant of MedianPrice: the height of the last feed is not carried over)
MedianPriceForgets(l, c, h, prev) ==
    LET prices == [g \in InWindow(h) |-> BlockUserPrices(l, c, g)]
        price == ComputeMedianNumber(prices)
    IN  [price |-> IF price = 0 THEN prev.price ELSE price,
         last |-> IF prices[h] # NoFeeds THEN h ELSE 0]

\* GetMedianPrice of the block at height h, whose parent stored the detail prev (price
\* zero: the pair was not among the stored medians).
MedianPrice(l, c, h, prev) ==
    LET prices == [g \in InWindow(h) |-> BlockUserPrices(l, c, g)]
        price == ComputeMedianNumber(prices)
        fed == IF prices[h] # NoFeeds THEN h ELSE 0
    IN  IF prev.price = 0 THEN [price |-> price, last |-> IF price = 0 THEN 0 ELSE fed]
        ELSE IF price = 0 THEN [price |-> prev.price, last |-> prev.last]
        ELSE [price |-> price, last |-> IF fed = h THEN h ELSE prev.last]

-----------------------------------------------------------------------------
Init ==
    /\ top = 1
    /\ cache = [l \in Level |-> None]
    /\ chain = [l \in Level |-> <<>>]

\* A wrapper on the innermost cache, for a block or for a chain of them.
Open ==
    /\ top < MaxLevel
    /\ top' = top + 1
    /\ chain' = [chain EXCEPT ![top + 1] = chain[top]]
    /\ UNCHANGED cache

Drop ==
    /\ top > 1
    /\ top' = top - 1
    /\ cache' = [cache EXCEPT ![top] = None]
    /\ chain' = [chain EXCEPT ![top] = <<>>]

Fresh == top > 1 /\ cache[top] = None

Parent(c) == IF c = <<>> THEN [feeds |-> NoFeeds, price |-> 0, last |-> 0] ELSE Last(c)

\* The stored medians of the parent, and the pair only while its base asset is permitted
\* and its median is not zero.
CalcMedianPriceDetails(permitted, c, h) ==
    IF permitted THEN MedianPrice(top, c, h, Parent(chain[top])) ELSE [price |-> 0, last |-> 0]

\* A block is connected in a fresh cache: AddPrice for each feed, the median with the
\* pairs permitted at the time, PushBlock.  A block with a feed AddPrice refuses is
\* not valid and would be dropped.
PushBlock(feeds, permitted) ==
    LET h == Len(chain[top]) + 1
        m == FoldSet(LAMBDA f, acc : AddUserPrice(acc, h, f, feeds[f]), None, DOMAIN feeds)
        detail == CalcMedianPriceDetails(permitted, [cache EXCEPT ![top] = m], h)
    IN  /\ Fresh
        /\ h <= MaxHeight
        /\ \A f \in DOMAIN feeds : ~ ExistBlockUserPrice(top, cache[top], h, f)
        /\ chain' = [chain EXCEPT ![top] =
                Append(@, [feeds |-> feeds, price |-> detail.price, last |-> detail.last,
                           permitted |-> permitted])]
        /\ cache' = [cache EXCEPT ![top] =
                IF h > Window THEN DeleteBlockFromCache(m, h - Window, chain[top][h - Window]) ELSE m]
        /\ UNCHANGED top

\* (mutant of UndoBlock: the block that comes back into the window is not added)
UndoBlockNoReload ==
    LET h == Len(chain[top])
    IN  /\ Fresh
        /\ h > 0
        /\ cache' = [cache EXCEPT ![top] = DeleteBlockFromCache(None, h, chain[top][h])]
        /\ chain' = [chain EXCEPT ![top] = Front(@)]
        /\ UNCHANGED top

\* The tip is disconnected in a fresh cache: its prices are marked, and the block that
\* comes back into the window is added again.
UndoBlock ==
    LET h == Len(chain[top])
        m == DeleteBlockFromCache(None, h, chain[top][h])
    IN  /\ Fresh
        /\ h > 0
        /\ cache' = [cache EXCEPT ![top] =
                IF h > Window THEN AddPriceByBlock(top, m, h - Window, chain[top][h - Window]) ELSE m]
        /\ chain' = [chain EXCEPT ![top] = Front(@)]
        /\ UNCHANGED top

Flush ==
    /\ top > 1
    /\ top' = top - 1
    /\ cache' = [cache EXCEPT ![top - 1] = BatchWrite(@, cache[top]), ![top] = None]
    /\ chain' = [chain EXCEPT ![top - 1] = chain[top], ![top] = <<>>]

\* The process starts again on the chain it had flushed: ReleadBlocks adds the blocks
\* of the window, from the tip down.
ReleadBlocks ==
    LET n == Len(chain[1])
        fed == {h \in InWindow(n) : chain[1][h].feeds # NoFeeds}
    IN  /\ top' = 1
        /\ cache' = [l \in Level |->
                IF l = 1 /\ fed # {} THEN [h \in fed |-> chain[1][h].feeds] ELSE None]
        /\ chain' = [l \in Level |-> IF l = 1 THEN chain[1] ELSE <<>>]

Next ==
    \/ Open \/ Drop \/ UndoBlock \/ Flush \/ ReleadBlocks
    \/ \E feeds \in Feeds, permitted \in Permitted : PushBlock(feeds, permitted)

Spec == Init /\ [][Next]_vars

-----------------------------------------------------------------------------
\* Every open cache shows, for each height of its window, exactly the prices the
\* chain's block of that height fed, and nothing above the tip: whatever was connected,
\* disconnected, flushed, dropped or reloaded, the median has the same inputs; and the
\* root holds no more than its window, for the flush of a mark erases what leaves it.
WindowIsOfChain ==
    /\ \A l \in 1..top :
         /\ \A h \in InWindow(Len(chain[l])) : BlockUserPrices(l, cache, h) = chain[l][h].feeds
         /\ \A h \in (Len(chain[l]) + 1)..MaxHeight : BlockUserPrices(l, cache, h) = NoFeeds
    /\ DOMAIN Entries(cache[1]) \subseteq InWindow(Len(chain[1]))

\* No feeder of the next block is refused for a price of a block that is no longer
\* there: ExistBlockUserPrice looks through marks into the caches below.
FeedsAccepted ==
    Fresh => \A f \in Feeder : ~ ExistBlockUserPrice(top, None, Len(chain[top]) + 1, f)

\* The median stored with a block, carried from parent to child, is the one the chain
\* defines: over the last block with a fed window, with the height of the last feed.
\* (While the pair keeps its permission; losing it loses the history.)
MedianIsOfChain ==
    \A l \in 1..top :
        LET c == chain[l]
            fed == {h \in DOMAIN c : c[h].feeds # NoFeeds}
            tip == IF Len(c) < Max(fed) + Window THEN Len(c) ELSE Max(fed) + Window - 1
        IN  c # <<>> /\ (\A h \in DOMAIN c : c[h].permitted) =>
                IF fed = {} THEN Last(c).price = 0 /\ Last(c).last = 0
                ELSE /\ Last(c).last = Max(fed)
                     /\ Last(c).price = ComputeMedianNumber([h \in InWindow(tip) |-> c[h].feeds])

\* A height marked empty in a cache has no prices in the base once the cache is
\* flushed: "Marked the value empty, the base cache will delete it when Flush() is
\* called." (pricefeeddb.cpp:19)
MarkIsDeleted ==
    [][Flush => \A h \in Height :
            HasEntry(cache[top], h) /\ cache[top][h] = NoFeeds
                => BlockUserPrices(top - 1, cache', h) = NoFeeds]_vars
=============================================================================
