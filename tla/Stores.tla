------------------------------- MODULE Stores -------------------------------
(***************************************************************************)
(* The stores of a CCacheWrapper.  They share no state and no operation of *)
(* one calls another's, so a behaviour is followed in one store at a time: *)
(* the one chosen at the start.                                            *)
(***************************************************************************)
EXTENDS CdpStore, DexStore, InterestParams, DelegateStore, SysGovern, AccountStore,
        TxMemCache

VARIABLE store

storesVars == <<store, cdpVars, dexVars, interestVars, delegateVars, governVars,
                accountVars, txVars>>

StoresInit ==
    /\ store \in {"cdpCache", "dexCache", "sysParamCache", "delegateCache", "sysGovernCache",
                  "accountCache", "txCache"}
    /\ CdpInit /\ DexInit /\ InterestInit /\ DelegateInit /\ GovernInit /\ AccountInit
    /\ TxInit

StoresNext ==
    /\ \/ store = "cdpCache" /\ CdpNext
          /\ UNCHANGED <<dexVars, interestVars, delegateVars, governVars, accountVars, txVars>>
       \/ store = "dexCache" /\ DexNext
          /\ UNCHANGED <<cdpVars, interestVars, delegateVars, governVars, accountVars, txVars>>
       \/ store = "sysParamCache" /\ InterestNext
          /\ UNCHANGED <<cdpVars, dexVars, delegateVars, governVars, accountVars, txVars>>
       \/ store = "delegateCache" /\ DelegateNext
          /\ UNCHANGED <<cdpVars, dexVars, interestVars, governVars, accountVars, txVars>>
       \/ store = "sysGovernCache" /\ GovernNext
          /\ UNCHANGED <<cdpVars, dexVars, interestVars, delegateVars, accountVars, txVars>>
       \/ store = "accountCache" /\ AccountNext
          /\ UNCHANGED <<cdpVars, dexVars, interestVars, delegateVars, governVars, txVars>>
       \/ store = "txCache" /\ TxNext
          /\ UNCHANGED <<cdpVars, dexVars, interestVars, delegateVars, governVars, accountVars>>
    /\ UNCHANGED store

StoresSpec == StoresInit /\ [][StoresNext]_storesVars
=============================================================================
