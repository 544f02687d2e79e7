--------------------------- MODULE DelegateStore ---------------------------
(***************************************************************************)
(* The vote index of IneryDelegateDBCache (persistence/delegatedb.cpp): a  *)
(* key for each delegate and number of votes, made of UINT64_MAX - votes   *)
(* so that the keys are ordered by falling votes, and the list of the top  *)
(* delegates read from it.  An account that has no regid yet is left out.  *)
(*                                                                         *)
(* External are the account's own number of votes and its registration,    *)
(* and the caller's protocol: at every change it erases the number the     *)
(* account had and then sets the new one.                                  *)
(***************************************************************************)
EXTENDS SequencesExt, StoreBase

CONSTANTS
    Delegate,    \* accounts that receive votes, in the order of their raw regids
    MaxVotes     \* bound on the votes of one

ASSUME DelegateAssumption == Delegate \subseteq Nat /\ MaxVotes \in 0..(Word - 1)

VARIABLES
    voteRegIdCache,    \* its keys, <<DelegateVoteToKey(votes), regid>>
    received_votes,    \* received_votes[d]: the votes in the account of d
    registered         \* the accounts that have a regid

\* History: the accounts whose votes have changed since they got a regid.
VARIABLE listed

delegateVars == <<voteRegIdCache, received_votes, registered, listed>>

Votes == 0..MaxVotes

DelegateVoteToKey(votes) == Word - 1 - votes
DelegateVoteFromKey(voteKey) == Word - 1 - voteKey

-----------------------------------------------------------------------------
\* IsEmpty of the regid: the votes are ignored.
SetDelegateVotes(index, regid, votes) ==
    IF regid \in registered THEN index \union {<<DelegateVoteToKey(votes), regid>>} ELSE index

EraseDelegateVotes(index, regid, votes) ==
    IF regid \in registered THEN index \ {<<DelegateVoteToKey(votes), regid>>} ELSE index

DelegateInit ==
    /\ voteRegIdCache = {}
    /\ received_votes = [d \in Delegate |-> 0]
    /\ registered = {}
    /\ listed = {}

ReceiveVotes(d, votes) ==
    /\ voteRegIdCache' = SetDelegateVotes(EraseDelegateVotes(voteRegIdCache, d, received_votes[d]), d, votes)
    /\ received_votes' = [received_votes EXCEPT ![d] = votes]
    /\ listed' = listed \union ({d} \intersect registered)
    /\ UNCHANGED registered

Register(d) ==
    /\ registered' = registered \union {d}
    /\ UNCHANGED <<voteRegIdCache, received_votes, listed>>

DelegateNext == \E d \in Delegate : Register(d) \/ \E v \in Votes : ReceiveVotes(d, v)

DelegateSpec == DelegateInit /\ [][DelegateNext]_delegateVars

-----------------------------------------------------------------------------
\* CTopDelegatesIterator: the keys in order, as votes and regid.
TopDelegates ==
    LET Before(a, b) == a[1] < b[1] \/ (a[1] = b[1] /\ a[2] < b[2])
        keys == SetToSortSeq(voteRegIdCache, Before)
    IN  [i \in DOMAIN keys |-> [regid |-> keys[i][2], votes |-> DelegateVoteFromKey(keys[i][1])]]

\* (mutant of GetTopVoteDelegates: the minimum is compared after the delegate is taken)
GetTopVoteDelegatesLate(delegateNum, BpMinVote, isR3Fork) ==
    LET Stop(i) == \/ i > delegateNum \/ i > Len(TopDelegates)
                   \/ isR3Fork /\ i > 1 /\ TopDelegates[i - 1].votes < BpMinVote
    IN  SubSeq(TopDelegates, 1, (CHOOSE i \in 1..(delegateNum + 1) :
                                    Stop(i) /\ \A j \in 1..(i - 1) : ~Stop(j)) - 1)

\* The loop stops at the end, at the number asked for, or below the minimum.
GetTopVoteDelegates(delegateNum, BpMinVote, isR3Fork) ==
    LET Stop(i) == \/ i > delegateNum \/ i > Len(TopDelegates)
                   \/ isR3Fork /\ TopDelegates[i].votes < BpMinVote
    IN  SubSeq(TopDelegates, 1, (CHOOSE i \in 1..(delegateNum + 1) :
                                    Stop(i) /\ \A j \in 1..(i - 1) : ~Stop(j)) - 1)

-----------------------------------------------------------------------------
DelegateTypeOK ==
    /\ voteRegIdCache \subseteq (0..(Word - 1)) \X Delegate
    /\ received_votes \in [Delegate -> Votes]
    /\ listed \subseteq registered /\ registered \subseteq Delegate

\* However votes come and go, before and after registration, the list of top delegates
\* has each delegate once, with the votes of its account, by falling votes; a delegate
\* left out has no more votes than any in a full list, or is below the minimum.
TopDelegatesAreTop ==
    \A num \in 1..Cardinality(Delegate), min \in Votes, isR3Fork \in BOOLEAN :
        LET top == GetTopVoteDelegates(num, min, isR3Fork)
            chosen == {top[i].regid : i \in DOMAIN top}
        IN  /\ Len(top) <= num
            /\ \A i, j \in DOMAIN top : i < j =>
                  top[i].regid # top[j].regid /\ top[i].votes >= top[j].votes
            /\ \A i \in DOMAIN top :
                  /\ top[i].regid \in listed
                  /\ top[i].votes = received_votes[top[i].regid]
                  /\ isR3Fork => top[i].votes >= min
            /\ \A d \in listed \ chosen :
                  \/ isR3Fork /\ received_votes[d] < min
                  \/ Len(top) = num /\ \A i \in DOMAIN top : received_votes[d] <= top[i].votes
=============================================================================
