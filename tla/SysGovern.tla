----------------------------- MODULE SysGovern -----------------------------
(***************************************************************************)
(* InerySysGovernDBCache (persistence/sysgoverndb.h): the governors, their *)
(* proposals and the approvals.  While there is no governor in the record, *)
(* GetGovernors gives one from the configuration: adding the first takes   *)
(* its place, erasing the last brings it back.                             *)
(*                                                                         *)
(* The caller is external: it takes approvals of governors only, for       *)
(* proposals there are, and adds and erases governors as proposals say.    *)
(***************************************************************************)
EXTENDS SequencesExt, StoreBase

CONSTANTS
    GovernorID,       \* the accounts that become governors
    DefaultGovernor,  \* IneryRegID(GetVer2GenesisHeight(), 2)
    Proposal

ASSUME GovernorAssumption == DefaultGovernor \in GovernorID

VARIABLES
    governors_cache,  \* a set of accounts, no record when it is empty
    proposals_cache,  \* the proposals there are
    approvals_cache   \* approvals_cache[p]: who approved, in order

governVars == <<governors_cache, proposals_cache, approvals_cache>>

GetGovernors == IF governors_cache = {} THEN {DefaultGovernor} ELSE governors_cache

CheckIsGovernor(g) == g \in GetGovernors

\* (mutant of GetGovernorApprovalMinCount: half of the governors)
ApprovalMinCountHalf ==
    (Cardinality(GetGovernors) - Cardinality(GetGovernors) \div 2) % 256

\* The result is a uint8_t.
GetGovernorApprovalMinCount ==
    (Cardinality(GetGovernors) - Cardinality(GetGovernors) \div 3) % 256

GetApprovalCount(p) == Len(approvals_cache[p])

-----------------------------------------------------------------------------
GovernInit ==
    /\ governors_cache = {}
    /\ proposals_cache = {}
    /\ approvals_cache = [p \in Proposal |-> <<>>]

AddGovernor(g) ==
    /\ governors_cache' = governors_cache \union {g}
    /\ UNCHANGED <<proposals_cache, approvals_cache>>

EraseGovernor(g) ==
    /\ governors_cache' = governors_cache \ {g}
    /\ UNCHANGED <<proposals_cache, approvals_cache>>

SetProposal(p) ==
    /\ proposals_cache' = proposals_cache \union {p}
    /\ UNCHANGED <<governors_cache, approvals_cache>>

\* A second approval of one governor is an error.
SetApproval(p, g) ==
    /\ p \in proposals_cache /\ CheckIsGovernor(g)
    /\ ~Contains(approvals_cache[p], g)
    /\ approvals_cache' = [approvals_cache EXCEPT ![p] = Append(@, g)]
    /\ UNCHANGED <<governors_cache, proposals_cache>>

GovernNext ==
    \/ \E g \in GovernorID : AddGovernor(g) \/ EraseGovernor(g)
    \/ \E p \in Proposal : SetProposal(p) \/ \E g \in GovernorID : SetApproval(p, g)

GovernSpec == GovernInit /\ [][GovernNext]_governVars

-----------------------------------------------------------------------------
GovernTypeOK ==
    /\ governors_cache \subseteq GovernorID /\ proposals_cache \subseteq Proposal
    /\ approvals_cache \in [Proposal -> Seq(GovernorID)]

\* While the governors change, the default one among them: a count that suffices can be
\* reached by the governors there are, and two proposals that are each approved by as
\* many of them as are asked for have an approver in common, so that two that contradict
\* each other do not pass without one governor supporting both.  Approvers erased since
\* are still counted by the code; such proposals are excluded here.
QuorumsMeet ==
    /\ GetGovernorApprovalMinCount \in 1..Cardinality(GetGovernors)
    /\ \A p, q \in Proposal :
          LET Passes(r) == /\ ToSet(approvals_cache[r]) \subseteq GetGovernors
                           /\ GetApprovalCount(r) >= GetGovernorApprovalMinCount
          IN  Passes(p) /\ Passes(q) =>
                ToSet(approvals_cache[p]) \intersect ToSet(approvals_cache[q]) # {}
=============================================================================
