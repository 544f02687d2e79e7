------------------------------ MODULE CdpStore ------------------------------
(***************************************************************************)
(* IneryCdpDBCache (persistence/cdpdb.cpp): the collateralised debt        *)
(* positions, the index of their owners, two indexes that hold COPIES of   *)
(* them (by collateral ratio and by height), and the totals of each coin   *)
(* pair.  NewCDP, UpdateCDP and EraseCDP write all of them; UpdateCDP and  *)
(* EraseCDP find the entries to remove from the oldCDP they are given.     *)
(* Each record is a cache of KVCache and appears as what that shows.       *)
(*                                                                         *)
(* The caller's protocol is external: an owner has one CDP of a pair, and  *)
(* the oldCDP is what GetCDP gave or an element of the list that           *)
(* GetCdpListByCollateralRatio gave (held), each element used once and     *)
(* nothing else written while the list is used.                            *)
(***************************************************************************)
EXTENDS FiniteSetsExt, StoreBase

CONSTANTS
    Id, Pair,
    CDP,         \* the values of an IneryUserCDP
    Boost,       \* CDP_BASE_RATIO_BOOST
    Unit         \* collateral_ratio_base, a double, in multiples of 1/Unit

ASSUME CDPAssumption ==
    CDP \subseteq [cdpid : Id, owner : RegID, pair : Pair, staked : Nat, owed : Nat,
                   collateral_ratio_base : Nat, block_height : Nat]
ASSUME AbsentAssumption == Absent \notin Id \union CDP
ASSUME RatioAssumption == Boost \in Nat /\ Unit \in Nat \ {0}

VARIABLES
    cdp_cache,       \* cdp_cache[i]: the CDP of that id
    user_cdp_cache,  \* user_cdp_cache[<<owner, pair>>]: its id
    index,           \* cdp_global_data_cache and the two index caches
    held             \* the caller's list: what it has not used yet

cdpVars == <<cdp_cache, user_cdp_cache, index, held>>

Stored == {cdp_cache[i] : i \in Id} \ {Absent}
UserKey(c) == <<c.owner, c.pair>>

-----------------------------------------------------------------------------
(* The keys of the indexes and what is written to them                     *)

\* boostedRatio: a product beyond 64 bits is taken as UINT64_MAX.
Ratio(c) ==
    LET boosted == (c.collateral_ratio_base * Boost) \div Unit
    IN  IF boosted < Word THEN boosted ELSE Word - 1

MakeCdpRatioIndexKey(c) == <<c.pair, Ratio(c), c.block_height, c.cdpid>>
MakeCdpHeightIndexKey(c) == <<c.pair, c.block_height, c.cdpid>>

SaveCdpIndexData(x, c) ==
    [totals |-> [x.totals EXCEPT ![c.pair] =
                    [staked |-> (@.staked + c.staked) % Word, owed |-> (@.owed + c.owed) % Word]],
     ratio  |-> SetData(x.ratio, MakeCdpRatioIndexKey(c), c),
     height |-> SetData(x.height, MakeCdpHeightIndexKey(c), c)]

EraseCdpIndexData(x, c) ==
    [totals |-> [x.totals EXCEPT ![c.pair] =
                    [staked |-> (@.staked - c.staked) % Word, owed |-> (@.owed - c.owed) % Word]],
     ratio  |-> EraseData(x.ratio, MakeCdpRatioIndexKey(c)),
     height |-> EraseData(x.height, MakeCdpHeightIndexKey(c))]

-----------------------------------------------------------------------------
CdpInit ==
    /\ cdp_cache = [i \in Id |-> Absent]
    /\ user_cdp_cache = [u \in RegID \X Pair |-> Absent]
    /\ index = [totals |-> [p \in Pair |-> [staked |-> 0, owed |-> 0]], ratio |-> {}, height |-> {}]
    /\ held = {}

NewCDP(c) ==
    /\ held = {}
    /\ cdp_cache[c.cdpid] = Absent /\ user_cdp_cache[UserKey(c)] = Absent
    /\ cdp_cache' = [cdp_cache EXCEPT ![c.cdpid] = c]
    /\ user_cdp_cache' = [user_cdp_cache EXCEPT ![UserKey(c)] = c.cdpid]
    /\ index' = SaveCdpIndexData(index, c)
    /\ UNCHANGED held

\* What the caller has read of a CDP: an element of its list, or what GetCDP gave.
Known(old) == IF held = {} THEN old \in Stored ELSE old \in held

\* The same CDP: owner and pair are fixed when it is created.
SameCDP(c, d) == c.cdpid = d.cdpid /\ UserKey(c) = UserKey(d)

\* (mutant of UpdateCDP: the entries of the old CDP are looked up by the new one)
UpdateCDPErasesNew(old, new) ==
    /\ Known(old) /\ SameCDP(old, new)
    /\ cdp_cache' = [cdp_cache EXCEPT ![new.cdpid] = new]
    /\ index' = SaveCdpIndexData(EraseCdpIndexData(index, new), new)
    /\ held' = held \ {old}
    /\ UNCHANGED user_cdp_cache

\* (mutant of UpdateCDP: the old entries are erased after the new are saved)
UpdateCDPErasesLast(old, new) ==
    /\ Known(old) /\ SameCDP(old, new)
    /\ cdp_cache' = [cdp_cache EXCEPT ![new.cdpid] = new]
    /\ index' = EraseCdpIndexData(SaveCdpIndexData(index, new), old)
    /\ held' = held \ {old}
    /\ UNCHANGED user_cdp_cache

UpdateCDP(old, new) ==
    /\ Known(old) /\ SameCDP(old, new)
    /\ cdp_cache' = [cdp_cache EXCEPT ![new.cdpid] = new]
    /\ index' = SaveCdpIndexData(EraseCdpIndexData(index, old), new)
    /\ held' = held \ {old}
    /\ UNCHANGED user_cdp_cache

\* (mutant of EraseCDP: the index of the owner is forgotten)
EraseCDPKeepsOwner(old, cdp) ==
    /\ Known(old) /\ SameCDP(old, cdp)
    /\ cdp_cache' = [cdp_cache EXCEPT ![cdp.cdpid] = Absent]
    /\ index' = EraseCdpIndexData(index, old)
    /\ held' = held \ {old}
    /\ UNCHANGED user_cdp_cache

\* EraseCDP(oldCDP, cdp): cdp is the position as the caller has changed it.
EraseCDP(old, cdp) ==
    /\ Known(old) /\ SameCDP(old, cdp)
    /\ cdp_cache' = [cdp_cache EXCEPT ![cdp.cdpid] = Absent]
    /\ user_cdp_cache' = [user_cdp_cache EXCEPT ![UserKey(cdp)] = Absent]
    /\ index' = EraseCdpIndexData(index, old)
    /\ held' = held \ {old}

\* The list stops at the first ratio above the bound, and holds the index's copies.
GetCdpListByCollateralRatio(pair, bound) ==
    {e.value : e \in {d \in index.ratio : d.key[1] = pair /\ d.key[2] <= bound}}

\* The bound is asserted to be below UINT64_MAX.
TakeList(pair, bound) ==
    /\ held = {}
    /\ held' = GetCdpListByCollateralRatio(pair, bound)
    /\ UNCHANGED <<cdp_cache, user_cdp_cache, index>>

LeaveList == held # {} /\ held' = {} /\ UNCHANGED <<cdp_cache, user_cdp_cache, index>>

CdpNext ==
    \/ \E c \in CDP : NewCDP(c)
    \/ \E old, new \in CDP : UpdateCDP(old, new) \/ EraseCDP(old, new)
    \/ \E p \in Pair, bound \in 0..(Word - 2) : TakeList(p, bound)
    \/ LeaveList

CdpSpec == CdpInit /\ [][CdpNext]_cdpVars

-----------------------------------------------------------------------------
CdpTypeOK ==
    /\ cdp_cache \in [Id -> CDP \union {Absent}]
    /\ \A i \in Id : cdp_cache[i] # Absent => cdp_cache[i].cdpid = i
    /\ user_cdp_cache \in [RegID \X Pair -> Id \union {Absent}]
    /\ index.totals \in [Pair -> [staked : 0..(Word - 1), owed : 0..(Word - 1)]]
    /\ held \subseteq CDP

\* Each index holds one entry for each CDP, under its present key and with its
\* present value: an entry under an old key would be liquidated by a ratio the CDP no
\* longer has, and an old copy would be passed on as oldCDP to the next update.
IndexesAgree ==
    /\ index.ratio = {Entry(MakeCdpRatioIndexKey(c), c) : c \in Stored}
    /\ index.height = {Entry(MakeCdpHeightIndexKey(c), c) : c \in Stored}

\* The index of the owners names exactly the CDPs there are, so that GetCDPList never
\* meets an id without a CDP and UserHaveCdp is right.
OwnersAgree ==
    \A u \in RegID \X Pair, i \in Id :
        user_cdp_cache[u] = i <=> cdp_cache[i] # Absent /\ UserKey(cdp_cache[i]) = u

\* Through all the updates and closings made from a list, what is left of it is what
\* the store has: the oldCDP of each is current.
HeldAreCurrent == held \subseteq Stored

\* The totals of a pair are the sums over its CDPs, as 64-bit numbers: what an update
\* takes off them is what the CDP had been counted with.
TotalsAreSums ==
    \A p \in Pair :
        LET cdps == {c \in Stored : c.pair = p}
            staked(c) == c.staked
            owed(c) == c.owed
        IN  /\ index.totals[p].staked = MapThenSumSet(staked, cdps) % Word
            /\ index.totals[p].owed = MapThenSumSet(owed, cdps) % Word
=============================================================================
