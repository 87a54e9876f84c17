--------------------------- MODULE MCNodeRegistry ---------------------------
(***************************************************************************)
(* The node registry on a small instance.                                  *)
(***************************************************************************)
EXTENDS NodeRegistry, TLC

CONSTANTS
    MaxVetoed,    \* bound: vetoed proposals
    MaxOutside    \* bound: PRM others mint, and burn

\* Observers, operators and proposal ids are interchangeable.
MCSymmetry == Permutations(Observers) \cup Permutations(NodeOperators)
                  \cup Permutations(SlashIds)

\* Somebody else sent PRM to the registry or burned what it holds, or minted.
Others ==
    \/ balanceOf[RegistryAddress] # Stakes
    \/ \E a \in Accounts \ {RegistryAddress} : retired[a] > 0
    \/ totalSupply + retired[RegistryAddress] > Endowment * Cardinality(NodeOperators)

\* Bounds, so that three slashes of one node fit: the other nodes only come
\* early and go, few proposals are vetoed, the burner is moved only while
\* nothing was slashed, and others use the token where one slash is at work.
\* The reason, which nothing reads, varies there too.
MCBounds ==
    /\ \A n \in NodeIds \ {ZeroNode} : nodes[n].registeredAt \in {0, GenesisTime}
    /\ \A p \in SlashIds : slashProposals[p].nodeId = ZeroNode
    /\ Cardinality({p \in SlashIds : slashProposals[p].vetoed}) <= MaxVetoed
    /\ burner # RegistryAddress => slashLog = <<>>
    /\ totalSupply <= Endowment * Cardinality(NodeOperators) + MaxOutside
    /\ \A a \in Accounts \ {RegistryAddress} : retired[a] <= MaxOutside
    /\ Cardinality({p \in SlashIds : confirmed[p] # {} \/ slashProposals[p].proposedAt # 0}) > 1
           => ~Others /\ \A p \in SlashIds : slashProposals[p].reason = "InvalidAttestation"
=============================================================================
