--------------------------- MODULE InterestParams ---------------------------
(***************************************************************************)
(* The interest parameters of one CDP coin pair in InerySysParamDBCache    *)
(* (persistence/sysparamdb.h): the values in force (cdp_param_cache), and  *)
(* the map from heights to the values they changed to                      *)
(* (cdp_interest_param_changes_cache), from which the interest of a CDP is *)
(* computed over the heights since it was last paid.  Both parameters are  *)
(* recorded at every change of one.                                        *)
(*                                                                         *)
(* The caller, a proposal executed in a block, is external: it calls       *)
(* SetCdpParam and then SetCdpInterestParam with the height of the block.  *)
(* Values are not 0, which a VarInt cache takes for no value.              *)
(***************************************************************************)
EXTENDS SequencesExt, StoreBase

CONSTANTS
    ParamValue,
    Default,     \* GetCdpParamDefaultValue, of both parameters
    MaxHeight    \* bound on the chain

ASSUME ParamAssumption == Default \in ParamValue /\ Absent \notin ParamValue /\ 0 \notin ParamValue

VARIABLES
    height,            \* the block being executed
    cdp_param_cache,   \* cdp_param_cache[t]: the value of parameter t
    changeMap          \* changeMap[h]: what was recorded at height h

\* History: the values in force when the block of a height was done.
VARIABLE effective

interestVars == <<height, cdp_param_cache, changeMap, effective>>

CDP_INTEREST_PARAM_A == "a"
CDP_INTEREST_PARAM_B == "b"
ParamType == {CDP_INTEREST_PARAM_A, CDP_INTEREST_PARAM_B}
Params == [ParamType -> ParamValue]
Height == 0..MaxHeight

GetCdpParam(cache, t) == IF cache[t] = Absent THEN Default ELSE cache[t]

\* The other parameter is read from the values in force.
SetCdpInterestParam(cache, t, h, v) ==
    [changeMap EXCEPT ![h] = [u \in ParamType |-> IF u = t THEN v ELSE GetCdpParam(cache, u)]]

-----------------------------------------------------------------------------
InterestInit ==
    /\ height = 0
    /\ cdp_param_cache = [t \in ParamType |-> Absent]
    /\ changeMap = [h \in Height |-> Absent]
    /\ effective = [h \in Height |-> [t \in ParamType |-> Default]]

\* A proposal: SetCdpParam, then SetCdpInterestParam; a block may have several.
Change(t, v) ==
    /\ cdp_param_cache' = [cdp_param_cache EXCEPT ![t] = v]
    /\ changeMap' = SetCdpInterestParam(cdp_param_cache', t, height, v)
    /\ effective' = [effective EXCEPT ![height] = [u \in ParamType |-> GetCdpParam(cdp_param_cache', u)]]
    /\ UNCHANGED height

NextBlock ==
    /\ height < MaxHeight
    /\ height' = height + 1
    /\ effective' = [effective EXCEPT ![height + 1] = effective[height]]
    /\ UNCHANGED <<cdp_param_cache, changeMap>>

InterestNext == NextBlock \/ \E t \in ParamType, v \in ParamValue : Change(t, v)

InterestSpec == InterestInit /\ [][InterestNext]_interestVars

-----------------------------------------------------------------------------
Recorded == SetToSortSeq({h \in Height : changeMap[h] # Absent}, <)

\* (mutant of BeginChange: a change at the first height is not the one it belongs to)
BeginChangeStrict(begin) == Len(SelectSeq(Recorded, LAMBDA h : h < begin))

\* The position in the map of the change that begin belongs to, 0 when there is none.
BeginChange(begin) == Len(SelectSeq(Recorded, LAMBDA h : h <= begin))

\* The values of each interval of begin..end.
GetCdpInterestParamChanges(begin, end) ==
    LET first == BeginChange(begin)
        later == SelectSeq(SubSeq(Recorded, first + 1, Len(Recorded)), LAMBDA h : h <= end)
        begins == <<begin>> \o later
    IN  [i \in DOMAIN begins |->
            [begin_height |-> begins[i],
             end_height   |-> IF i = Len(begins) THEN end ELSE begins[i + 1] - 1,
             params       |-> IF i > 1 THEN changeMap[begins[i]]
                              ELSE IF first = 0 THEN [t \in ParamType |-> Default]
                              ELSE changeMap[Recorded[first]]]]

-----------------------------------------------------------------------------
InterestTypeOK ==
    /\ height \in Height
    /\ cdp_param_cache \in [ParamType -> ParamValue \union {Absent}]
    /\ changeMap \in [Height -> Params \union {Absent}]

\* For any past heights the intervals returned follow each other from the first to the
\* last, none empty, and each has the values that were in force at its heights, with
\* changes of one or both parameters in a block, repeated or not: the interest charged
\* does not depend on how often it is computed.
ChangesAreHistory ==
    \A begin, end \in 0..height : begin <= end =>
        LET changes == GetCdpInterestParamChanges(begin, end)
        IN  /\ Head(changes).begin_height = begin
            /\ Last(changes).end_height = end
            /\ \A i \in DOMAIN changes :
                  /\ changes[i].begin_height <= changes[i].end_height
                  /\ i > 1 => changes[i].begin_height = changes[i - 1].end_height + 1
                  /\ \A h \in changes[i].begin_height..changes[i].end_height :
                        changes[i].params = effective[h]
=============================================================================
