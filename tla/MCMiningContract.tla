-------------------------- MODULE MCMiningContract --------------------------
(***************************************************************************)
(* The mint contract on a small instance: bounds and symmetry.             *)
(***************************************************************************)
EXTENDS MiningContract, TLC

CONSTANTS
    MaxMints,       \* bound: executed mints explored
    MaxApprovals,   \* bound: approvals explored
    MaxOutside      \* bound: PRM another minter mints and burner burns, together

\* Signers, sessions and proposal ids are interchangeable.
MCSymmetry == Permutations(Candidates \ {ZeroAddress}) \cup Permutations(Sessions)
                  \cup Permutations(ProposalIds)

\* Somebody else has minted, burned, sent PRM on or become minter or burner.
Others ==
    \/ burner # ZeroAddress \/ minter \notin {MiningAddress, ZeroAddress}
    \/ \E a \in Accounts \ {MiningAddress} : issued[a] > 0
    \/ \E a \in Recipients \ {ZeroAddress} : balanceOf[a] # issued[MiningAddress]

\* Both mints are approved, and nothing was cancelled.
AllApproved ==
    /\ Cardinality(approvalLog) = MaxApprovals
    /\ \A pid \in ProposalIds : ~proposals[pid].cancelled /\ proposals[pid].approvals = REQUIRED_APPROVALS

\* Bounds on the history, so that the reachable states are finite.
MCBounds ==
    /\ Len(mintLog) <= MaxMints
    /\ Cardinality(approvalLog) <= MaxApprovals
    /\ \A a \in Accounts \ {MiningAddress} : issued[a] + retired[a] <= MaxOutside

\* Others use the token once both mints are approved, and from then on the
\* mints are executed between their calls.
MCMoves ==
    Others' => /\ AllApproved
               /\ UNCHANGED <<signerCount, isSigner, mintCeilingPerBlock, proposals, approvalLog>>
                  \/ mintLog' # mintLog
=============================================================================
