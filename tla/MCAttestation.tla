--------------------------- MODULE MCAttestation ----------------------------
(***************************************************************************)
(* Six node ids: n3 and n4 are the same server, n5 is Byzantine, e6 has    *)
(* been given another API key; one entry of NODE_SIGNERS does not parse.   *)
(***************************************************************************)
EXTENDS Attestation, TLC

CONSTANTS n1, n2, n3, n4, n5, e1, e2, e3, e5, e6

At(id, endpoint) == [id |-> id, endpoint |-> endpoint]
MCEndpoints == <<At(n1, e1), At(n2, e2), At(n3, e3), At(n4, e3), At(n5, e5), At(None, e6)>>

Signer(id, address) == [id |-> id, address |-> address]
MCSigners == <<Signer(n1, "a1"), Signer(n2, "a2"), Signer(n3, "a3"), Signer(n4, "a3"),
               Signer(n5, "a5"), Signer(e6, "a6"), Signer(n1, None)>>

MCKeys == (e1 :> "a1") @@ (e2 :> "a2") @@ (e3 :> "a3") @@ (e5 :> "a5") @@ (e6 :> "a6")

\* Inputs 1 and 2 hash to 1 and 2: hash 2 misses difficulty 2.
MCRandomX == (1 :> 1) @@ (2 :> 2)
Submitted(input, hash, difficulty) ==
    [input |-> input, proof_hash |-> hash, difficulty |-> difficulty]
Good == Submitted(1, 1, 2)
Forged == Submitted(2, 1, 0)
TooEasy == Submitted(2, 2, 2)
MCProofSets == {<<>>, <<Good, Forged>>, <<Forged, Good>>, <<TooEasy>>}

\* With n1 assigned these select {n2, n3, n5}, {n2, n3, n4} and {n3, n4, e6}.
MCSeeds == {<<0, 0, 0, 2, 2>>, <<0, 0, 0, 3, 3>>, <<0, 0, 0, 3, 0>>}

\* One registered address, a5, belongs to the Byzantine server.
ASSUME OneLiar == FewLiars
=============================================================================
