------------------------------ MODULE DexStore ------------------------------
(***************************************************************************)
(* CDexDBCache (persistence/dexdb.cpp, dexdb.h): the operators of the      *)
(* exchange with the map from their owners, and the active orders with     *)
(* copies of them sorted by block.  Operator 0 exists without a record:    *)
(* GetDexOperator makes it up, owned by an account of the configuration,   *)
(* until UpdateDexOperator writes one.  An operator's detail is its owner, *)
(* since nothing here depends on the rest.                                 *)
(*                                                                         *)
(* The caller's protocol is external: an operator is created with the id   *)
(* IncDexID gave; UpdateDexOperator, which checks nothing, gets as         *)
(* old_detail what GetDexOperator gave and as new owner one that has no    *)
(* operator; the block and the type of an order never change.              *)
(***************************************************************************)
EXTENDS StoreBase

CONSTANTS
    OrderId,
    Order,       \* the values of a CDEXOrderDetail
    Dex0Owner,   \* SysCfg().GetDex0OwnerRegId()
    MaxId        \* bound on the operators created

ASSUME RegIDAssumption == Dex0Owner \in RegID /\ Absent \notin RegID \union Nat
ASSUME OrderAssumption == Absent \notin Order
ASSUME BoundAssumption == MaxId \in Nat

VARIABLES
    operator_detail_cache,     \* operator_detail_cache[id]: its owner
    operator_owner_map_cache,  \* operator_owner_map_cache[owner]: the id
    operator_last_id_cache,
    activeOrderCache,          \* activeOrderCache[id]: the order
    blockOrdersCache           \* the orders by MakeBlockOrderKey

operatorVars == <<operator_detail_cache, operator_owner_map_cache, operator_last_id_cache>>
orderVars == <<activeOrderCache, blockOrdersCache>>
dexVars == <<operator_detail_cache, operator_owner_map_cache, operator_last_id_cache,
            activeOrderCache, blockOrdersCache>>

MAIN_DEX_ID == 0
DexID == 0..MaxId

-----------------------------------------------------------------------------
(* Operators                                                               *)

\* The owner of an operator; Absent stands for false.
GetDexOperator(id) ==
    IF operator_detail_cache[id] # Absent THEN operator_detail_cache[id]
    ELSE IF id = MAIN_DEX_ID THEN Dex0Owner ELSE Absent

\* (mutant of GetDexOperatorByOwner: the configured account is taken for the owner)
ByOwnerUnchecked(owner) ==
    IF operator_owner_map_cache[owner] # Absent THEN operator_owner_map_cache[owner]
    ELSE IF owner = Dex0Owner THEN MAIN_DEX_ID ELSE Absent

\* The id found; HasDexOperatorByOwner is whether there is one.
GetDexOperatorByOwner(owner) ==
    IF operator_owner_map_cache[owner] # Absent THEN operator_owner_map_cache[owner]
    ELSE IF owner = Dex0Owner /\ GetDexOperator(MAIN_DEX_ID) = owner THEN MAIN_DEX_ID
    ELSE Absent

IncDexID == operator_last_id_cache + 1

\* IncDexID, then CreateDexOperator with the id it gave.
CreateDexOperator(owner) ==
    LET id == IncDexID
    IN  /\ id <= MaxId
        /\ operator_detail_cache[id] = Absent
        /\ GetDexOperatorByOwner(owner) = Absent
        /\ operator_last_id_cache' = id
        /\ operator_detail_cache' = [operator_detail_cache EXCEPT ![id] = owner]
        /\ operator_owner_map_cache' = [operator_owner_map_cache EXCEPT ![owner] = id]
        /\ UNCHANGED orderVars

\* What the caller checks of an update.
MayUpdate(id, owner) ==
    /\ GetDexOperator(id) # Absent
    /\ owner # GetDexOperator(id) => GetDexOperatorByOwner(owner) = Absent

UpdateDexOperator(id, owner) ==
    /\ MayUpdate(id, owner)
    /\ operator_owner_map_cache' =
            IF owner = GetDexOperator(id) THEN operator_owner_map_cache
            ELSE [operator_owner_map_cache EXCEPT ![GetDexOperator(id)] = Absent, ![owner] = id]
    /\ operator_detail_cache' = [operator_detail_cache EXCEPT ![id] = owner]
    /\ UNCHANGED <<operator_last_id_cache, orderVars>>

-----------------------------------------------------------------------------
(* Orders                                                                  *)

MakeBlockOrderKey(id, order) == <<order.height, order.generate_type, id>>
SameCord(o1, o2) == o1.height = o2.height /\ o1.generate_type = o2.generate_type

CreateActiveOrder(id, order) ==
    /\ activeOrderCache[id] = Absent
    /\ activeOrderCache' = [activeOrderCache EXCEPT ![id] = order]
    /\ blockOrdersCache' = SetData(blockOrdersCache, MakeBlockOrderKey(id, order), order)
    /\ UNCHANGED operatorVars

\* (mutant of UpdateActiveOrder: the copy sorted by block is forgotten)
UpdateActiveOrderOnly(id, order) ==
    /\ activeOrderCache[id] # Absent /\ SameCord(activeOrderCache[id], order)
    /\ activeOrderCache' = [activeOrderCache EXCEPT ![id] = order]
    /\ UNCHANGED <<operatorVars, blockOrdersCache>>

UpdateActiveOrder(id, order) ==
    /\ activeOrderCache[id] # Absent /\ SameCord(activeOrderCache[id], order)
    /\ activeOrderCache' = [activeOrderCache EXCEPT ![id] = order]
    /\ blockOrdersCache' = SetData(blockOrdersCache, MakeBlockOrderKey(id, order), order)
    /\ UNCHANGED operatorVars

\* The order passed is the active one as the caller has changed it.
EraseActiveOrder(id, order) ==
    /\ activeOrderCache[id] # Absent /\ SameCord(activeOrderCache[id], order)
    /\ activeOrderCache' = [activeOrderCache EXCEPT ![id] = Absent]
    /\ blockOrdersCache' = EraseData(blockOrdersCache, MakeBlockOrderKey(id, order))
    /\ UNCHANGED operatorVars

-----------------------------------------------------------------------------
DexInit ==
    /\ operator_detail_cache = [id \in DexID |-> Absent]
    /\ operator_owner_map_cache = [o \in RegID |-> Absent]
    /\ operator_last_id_cache = 0
    /\ activeOrderCache = [id \in OrderId |-> Absent]
    /\ blockOrdersCache = {}

DexNext ==
    \/ \E o \in RegID : CreateDexOperator(o)
    \/ \E id \in DexID, o \in RegID : UpdateDexOperator(id, o)
    \/ \E id \in OrderId, order \in Order :
            \/ CreateActiveOrder(id, order) \/ UpdateActiveOrder(id, order)
            \/ EraseActiveOrder(id, order)

DexSpec == DexInit /\ [][DexNext]_dexVars

-----------------------------------------------------------------------------
DexTypeOK ==
    /\ operator_detail_cache \in [DexID -> RegID \union {Absent}]
    /\ operator_owner_map_cache \in [RegID -> DexID \union {Absent}]
    /\ operator_last_id_cache \in DexID
    /\ activeOrderCache \in [OrderId -> Order \union {Absent}]

\* The operator found by its owner is the one that owner has, for every owner and
\* operator, the one without a record too while it is passed on, taken back, or its
\* configured owner gets another operator: so an owner has at most one.
OperatorsAgree ==
    \A o \in RegID, id \in DexID : GetDexOperatorByOwner(o) = id <=> GetDexOperator(id) = o

\* The orders by block are the active orders, each once and with its present value.
OrdersAgree ==
    blockOrdersCache =
        {Entry(MakeBlockOrderKey(id, activeOrderCache[id]), activeOrderCache[id]) :
            id \in {i \in OrderId : activeOrderCache[i] # Absent}}

\* What OperatorsAgree rests on: the map has exactly the operators with a record, save
\* that operator 0 may have its configured owner's record without an entry; and no id
\* beyond the last one given is used.
MapHasRecords ==
    /\ \A o \in RegID, id \in DexID :
          operator_owner_map_cache[o] = id => operator_detail_cache[id] = o
    /\ \A id \in DexID :
          \/ operator_detail_cache[id] = Absent
          \/ operator_owner_map_cache[operator_detail_cache[id]] = id
          \/ id = MAIN_DEX_ID /\ operator_detail_cache[id] = Dex0Owner
                /\ operator_owner_map_cache[Dex0Owner] = Absent
    /\ \A id \in DexID : id > operator_last_id_cache => operator_detail_cache[id] = Absent
    /\ operator_detail_cache[MAIN_DEX_ID] = Absent => operator_owner_map_cache[Dex0Owner] = Absent
=============================================================================
