---------------------------- MODULE AccountStore ----------------------------
(***************************************************************************)
(* IneryAccountDBCache (persistence/accountdb.cpp): the accounts by key    *)
(* id, and the key ids by registration id.  An account is named by either  *)
(* id; a public key is its key id.                                         *)
(*                                                                         *)
(* The caller is external: it reads an account under an id, changes the    *)
(* copy and writes it back, under an id or by SaveAccount; it registers an *)
(* account once, and gives the two sides of a payment, read before either  *)
(* is written, only when they are two accounts.                            *)
(***************************************************************************)
EXTENDS FiniteSetsExt, Functions, StoreBase

CONSTANTS
    AccountID,        \* the regids the accounts of this store get, among RegID
    KeyID,
    NoRegID,          \* an empty regid
    MaxAmount         \* bound on the tokens of an account

\* An IneryAccount: its ids and what it has of one token.
Account == [regid : AccountID \union {NoRegID}, keyid : KeyID, amount : Nat]

\* Regids, key ids and records are of different types.
ASSUME AccountAssumption ==
    /\ AccountID \intersect KeyID = {} /\ NoRegID \notin AccountID
    /\ Absent \notin KeyID \union Account
    /\ MaxAmount \in Nat

VARIABLES
    regId2KeyIdCache, \* [AccountID -> KeyID or Absent]
    accountCache,     \* [KeyID -> Account or Absent], of one token here
    minted            \* history: the tokens ever given out, less those of closed accounts

accountVars == <<regId2KeyIdCache, accountCache, minted>>

UserID == AccountID \union KeyID

\* The key id that a user id stands for.
GetKeyId(uid) == IF uid \in KeyID THEN uid ELSE regId2KeyIdCache[uid]

GetAccount(uid) ==
    LET k == GetKeyId(uid) IN IF k = Absent THEN Absent ELSE accountCache[k]

\* A regid is looked for in the first map only.
HasAccount(uid) ==
    IF uid \in AccountID THEN regId2KeyIdCache[uid] # Absent ELSE accountCache[uid] # Absent

GetRegId(uid) ==
    IF uid \in AccountID THEN uid
    ELSE IF accountCache[uid] = Absent THEN NoRegID ELSE accountCache[uid].regid

\* The iterator visits every account; the sum is a uint64_t.
GetAssetTotalSupply ==
    LET amount(a) == a.amount
    IN  MapThenSumSet(amount, Range(accountCache) \ {Absent}) % Word

-----------------------------------------------------------------------------
(* Writes, as functions of the map of accounts or of both maps. *)

\* Under a regid that is not known nothing is written.
SetAccount(accounts, uid, account) ==
    IF GetKeyId(uid) = Absent THEN accounts ELSE [accounts EXCEPT ![GetKeyId(uid)] = account]

\* (mutant of SaveAccount: the regid is recorded for a new account only)
SaveNewAccount(account) ==
    /\ regId2KeyIdCache' =
         IF account.regid = NoRegID \/ HasAccount(account.keyid) THEN regId2KeyIdCache
         ELSE [regId2KeyIdCache EXCEPT ![account.regid] = account.keyid]
    /\ accountCache' = [accountCache EXCEPT ![account.keyid] = account]

SaveAccount(account) ==
    /\ regId2KeyIdCache' =
         IF account.regid = NoRegID THEN regId2KeyIdCache
         ELSE [regId2KeyIdCache EXCEPT ![account.regid] = account.keyid]
    /\ accountCache' = [accountCache EXCEPT ![account.keyid] = account]

-----------------------------------------------------------------------------
AccountInit ==
    /\ regId2KeyIdCache = [r \in AccountID |-> Absent]
    /\ accountCache = [k \in KeyID |-> Absent]
    /\ minted = 0

NewAccount(k) ==
    /\ ~HasAccount(k)
    /\ SaveAccount([keyid |-> k, regid |-> NoRegID, amount |-> 0])
    /\ UNCHANGED minted

RegisterAccount(k, r) ==
    /\ HasAccount(k) /\ GetRegId(k) = NoRegID /\ ~HasAccount(r)
    /\ SaveAccount([GetAccount(k) EXCEPT !.regid = r])
    /\ UNCHANGED minted

\* NewRegId, for an account that is written with its regid after it.
NewRegId(k, r) ==
    /\ HasAccount(k) /\ GetRegId(k) = NoRegID /\ ~HasAccount(r)
    /\ regId2KeyIdCache' = [regId2KeyIdCache EXCEPT ![r] = k]
    /\ accountCache' = SetAccount(accountCache, k, [GetAccount(k) EXCEPT !.regid = r])
    /\ UNCHANGED minted

Mint(uid, n) ==
    /\ HasAccount(uid)
    /\ LET account == GetAccount(uid)
       IN  /\ account.amount + n <= MaxAmount
           /\ accountCache' = SetAccount(accountCache, uid, [account EXCEPT !.amount = @ + n])
    /\ minted' = minted + n
    /\ UNCHANGED regId2KeyIdCache

Pay(payer, payee, n) ==
    /\ HasAccount(payer) /\ HasAccount(payee) /\ GetKeyId(payer) # GetKeyId(payee)
    /\ LET from == GetAccount(payer)
           to == GetAccount(payee)
       IN  /\ from.amount >= n /\ to.amount + n <= MaxAmount
           /\ accountCache' = SetAccount(
                SetAccount(accountCache, payer, [from EXCEPT !.amount = @ - n]),
                payee, [to EXCEPT !.amount = @ + n])
    /\ UNCHANGED <<regId2KeyIdCache, minted>>

\* EraseKeyId takes a regid, EraseAccount a key id: the caller closes an account with both.
EraseAccount(k) ==
    /\ HasAccount(k)
    /\ regId2KeyIdCache' = IF GetRegId(k) = NoRegID THEN regId2KeyIdCache
                           ELSE [regId2KeyIdCache EXCEPT ![GetRegId(k)] = Absent]
    /\ accountCache' = [accountCache EXCEPT ![k] = Absent]
    /\ minted' = minted - GetAccount(k).amount

AccountNext ==
    \/ \E k \in KeyID : NewAccount(k) \/ EraseAccount(k)
    \/ \E k \in KeyID, r \in AccountID : RegisterAccount(k, r) \/ NewRegId(k, r)
    \/ \E uid \in UserID, n \in 1..MaxAmount :
          Mint(uid, n) \/ \E payee \in UserID : Pay(uid, payee, n)

AccountSpec == AccountInit /\ [][AccountNext]_accountVars

-----------------------------------------------------------------------------

\* However accounts were made, registered, written under either id and erased, both ids of
\* an account lead to it and to nothing else, also for HasAccount, which looks for a regid
\* in the one map and for a key id in the other; and no payment between two ids changed
\* the tokens there are.
AccountsAgree ==
    /\ \A r \in AccountID :
         IF HasAccount(r) THEN GetAccount(r) # Absent /\ GetAccount(r).regid = r
         ELSE \A k \in KeyID : GetRegId(k) # r
    /\ \A k \in KeyID : HasAccount(k) => GetAccount(k).keyid = k
    /\ GetAssetTotalSupply = minted % Word
=============================================================================
