SPECIFICATION Spec
CONSTANTS
    Calls = {c1}
    n1 = n1
    n2 = n2
    n3 = n3
    n4 = n4
    n5 = n5
    e1 = e1
    e2 = e2
    e3 = e3
    e5 = e5
    e6 = e6
    Ghost = Ghost
    Stranger = Stranger
    None = None
    Refused = Refused
    DEFAULT_NODE_ENDPOINT = DEFAULT_NODE_ENDPOINT
    NODE_ENDPOINTS <- MCEndpoints
    NODE_SIGNERS <- MCSigners
    Assigned = {n1, n5, Ghost}
    signingKey <- MCKeys
    Byzantine = {e5}
    Unauthorised = {e6}
    ProofSets <- MCProofSets
    RandomX <- MCRandomX
    MaxHash = 3
    Seeds <- MCSeeds
    MaxFaults = 2
INVARIANTS
    AttestationTypeOK
    QuorumIsEarned
    FirstProofIsGenuine
    OneBadNodeTolerated
PROPERTIES
    AttestationEnds
CHECK_DEADLOCK FALSE
