--------------------------- MODULE MCMintPipeline ---------------------------
(***************************************************************************)
(* The mint pipeline on a small instance.                                  *)
(***************************************************************************)
EXTENDS Reports, TLC

\* Operators are interchangeable, signers too.
MCSymmetry == Permutations(Operators) \cup Permutations(Candidates)

\* PRM moves between the wallet and the registry, which burns it.
MCBounds == \A a \in Accounts \ {Wallet, RegistryAddress} : balanceOf[a] = 0
=============================================================================
