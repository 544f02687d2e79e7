---------------------------- MODULE MCCacheParts ----------------------------
(***************************************************************************)
(* What stands beside the caches of KVCache, and caches that are not one   *)
(* of them, for TLC: a behaviour is followed in the part chosen at the     *)
(* start, with the bounds of that part; those of SimpleKVCache are the     *)
(* constants of this module.                                               *)
(***************************************************************************)
EXTENDS SimpleKVCache, SequencesExt, TLC

CONSTANTS
    k1,                  \* a key
    v1, v2,              \* values; feeders
    Absent

VARIABLES
    part,
    kvTop, mapData, kvDb, kvLogged, kvLog,                \* KVCache, under the first two
    kind, readerMap, own, values,                         \* CacheReader
    it, snapshot, range, seen, startView,                 \* DbIterator
    priceTop, cache, chain                                \* PricePointCache

Reader == INSTANCE CacheReader WITH
    Key <- {k1}, Value <- {v1, v2}, MaxLevel <- 2, MaxLog <- 2, seen <- values,
    top <- kvTop, db <- kvDb, logged <- kvLogged, opLog <- kvLog
\* Every way the entries of two caches and the database can hide each other.
Iter == INSTANCE DbIterator WITH
    Key <- 1..3, LastKey <- 3, Value <- {v1}, MaxLevel <- 2, MaxLog <- 0,
    top <- kvTop, db <- kvDb, logged <- kvLogged, opLog <- kvLog
\* A block cache over the root; four heights and a window of two, so that blocks leave the
\* window and come back.
Price == INSTANCE PricePointCache WITH
    Feeder <- {v1, v2}, Price <- {1, 3}, Word <- 8, Window <- 2, Permitted <- {TRUE, FALSE},
    MaxHeight <- 4, MaxLevel <- 2, None <- Null, top <- priceTop

kvVars == <<kvTop, mapData, kvDb, kvLogged, kvLog>>
readerVars == <<kind, readerMap, own, values>>
iterVars == <<it, snapshot, range, seen, startView>>
priceVars == <<priceTop, cache, chain>>
partsVars == <<part, vars, kvVars, readerVars, iterVars, priceVars>>

Symmetry == Permutations({v1, v2})

-----------------------------------------------------------------------------

PartsInit ==
    /\ part \in {"reader", "iter", "simple", "price"}
    /\ IF part = "reader" THEN Reader!ReaderInit
       ELSE kind = "none" /\ readerMap = <<>> /\ own = <<>> /\ values = <<>>
    /\ IF part = "iter" THEN Iter!IterInit
       ELSE it = Null /\ snapshot = <<>> /\ range = {} /\ seen = <<>> /\ startView = <<>>
    /\ part \in {"simple", "price"} =>
         kvTop = 1 /\ mapData = <<>> /\ kvDb = <<>> /\ kvLogged = 0 /\ kvLog = <<>>
    /\ Init /\ (part # "simple" => db = NoRecord)
    /\ Price!Init

PartsNext ==
    /\ \/ part = "reader" /\ Reader!ReaderNext
          /\ UNCHANGED <<iterVars, vars, priceVars>>
       \/ part = "iter" /\ Iter!IterNext
          /\ UNCHANGED <<readerVars, vars, priceVars>>
       \/ part = "simple" /\ Next
          /\ UNCHANGED <<kvVars, readerVars, iterVars, priceVars>>
       \/ part = "price" /\ Price!Next
          /\ UNCHANGED <<kvVars, readerVars, iterVars, vars>>
    /\ UNCHANGED part

PartsSpec == PartsInit /\ [][PartsNext]_partsVars

-----------------------------------------------------------------------------

\* A copy or a wrapper beside the stack shows what was written in it or, for other keys, a
\* value its source had since it was made.
ReaderShowsRecent == part = "reader" => Reader!ReaderShowsRecent

\* Nothing done in it changes what the stack, the database or an undo shows.
ReaderIsQuiet == [][part = "reader" /\ Reader!ReaderStep =>
        UNCHANGED <<Reader!View, Reader!DbView, Reader!Savepoint>>]_partsVars

\* An iterator over the stack visits exactly the view it was started on.
VisitsTheView == part = "iter" => Iter!VisitsTheView

\* Each cache shows the prices of the window of its chain.
WindowIsOfChain == part = "price" => Price!WindowIsOfChain

\* No feed of the next block is refused for one of a block that is no longer there.
FeedsAccepted == part = "price" => Price!FeedsAccepted

\* The median and its height carried from block to block are those the chain defines.
MedianIsOfChain == part = "price" => Price!MedianIsOfChain
=============================================================================
