------------------------------ MODULE MCStores ------------------------------
(* Stores for TLC: 64-bit numbers have two bits, so that totals wrap       *)
(* around and a ratio can be beyond them.                                  *)
EXTENDS Stores

CONSTANTS CdpOwner, Amount, BlockHeight, GenerateType

MCCDP == {[cdpid |-> i, owner |-> o, pair |-> p, staked |-> s, owed |-> d,
           collateral_ratio_base |-> (s * Unit) \div d, block_height |-> h] :
             i \in Id, o \in CdpOwner, p \in Pair, s \in Amount, d \in Amount, h \in BlockHeight}

MCOrder == [height : BlockHeight, generate_type : GenerateType, amount : Amount]

Symmetry ==
    Permutations(Id) \union Permutations(CdpOwner) \union Permutations(Pair)
        \union Permutations(OrderId) \union Permutations(ParamValue \ {Default}) \union Permutations(KeyID)
=============================================================================
