---------------------------- MODULE Attestation -----------------------------
(***************************************************************************)
(* Attestation of a session's proofs: the coordinator of the verification  *)
(* service (crates/node-coordinator) asks the assigned node and up to three*)
(* selected ones, one after the other, each with a timeout; a node         *)
(* (crates/node-server) hands the first proof to its one verifier thread   *)
(* and signs its hash.  Requests and answers may be late or lost, nodes    *)
(* restart, verifier threads die, a Byzantine node answers what it likes.  *)
(***************************************************************************)
EXTENDS Integers, Sequences, FiniteSets, SequencesExt, Functions

CONSTANTS
    Calls,          \* calls of coordinate_attestation
    NODE_ENDPOINTS, \* sequence of entries [id, endpoint], id None for a bare endpoint
    NODE_SIGNERS,   \* sequence of entries [id, address], None for what does not parse
    DEFAULT_NODE_ENDPOINT,
    Ghost,          \* a node id a client may name and nobody configured
    Assigned,       \* the node ids clients name when they create a session
    signingKey,     \* NODE_SIGNING_KEY_HEX, per endpoint
    Byzantine,      \* endpoints whose server does not follow the code
    Unauthorised,   \* endpoints whose server has another NODE_API_KEY
    ProofSets,      \* the proof sets a session may end with
    RandomX,        \* RandomX hash, per proof input
    MaxHash,        \* U256::MAX
    Seeds,          \* block hashes, a sequence of bytes each
    Stranger,       \* the address recovered from a signature of something else
    None,           \* absent
    Refused,        \* an error status or valid = false, for an answer
    MaxFaults       \* bound: nodes that crash or lose their verifier thread

(* Start-up, main of the verification service.                              *)

\* One pair per entry; a bare endpoint is its own node id.
parse_node_endpoints(raw) ==
    [i \in DOMAIN raw |-> [raw[i] EXCEPT !.id = IF @ = None THEN raw[i].endpoint ELSE @]]

node_endpoints ==
    IF NODE_ENDPOINTS = <<>>
    THEN <<[id |-> DEFAULT_NODE_ENDPOINT, endpoint |-> DEFAULT_NODE_ENDPOINT]>>
    ELSE parse_node_endpoints(NODE_ENDPOINTS)

\* The selection pool keeps an entry per pair; of two clients, or of two
\* addresses, for one node id the later replaces the earlier.
node_ids == [i \in DOMAIN node_endpoints |-> node_endpoints[i].id]
Node == Range(node_ids)

LastWith(entries, n) ==
    entries[CHOOSE i \in DOMAIN entries :
               /\ entries[i].id = n
               /\ \A j \in DOMAIN entries : entries[j].id = n => j <= i]

node_clients == [n \in Node |-> LastWith(node_endpoints, n).endpoint]
Server == Range(node_clients)

parse_node_signers(raw) ==
    LET valid == SelectSeq(raw, LAMBDA e : e.id # None /\ e.address # None)
    IN  [n \in {e.id : e \in Range(valid)} |-> LastWith(valid, n).address]

signers == parse_node_signers(NODE_SIGNERS)

Required == 3                 \* REQUIRED_SIGNATURES
ATTESTATION_NODE_COUNT == 4

PartialProof == [input : DOMAIN RandomX, proof_hash : Nat, difficulty : Nat]

ASSUME AttestationAssumption ==
    /\ Calls # {} /\ Node # {} /\ NODE_ENDPOINTS \in Seq(Range(NODE_ENDPOINTS))
    /\ Ghost \notin Node /\ Assigned \subseteq Node \cup {Ghost}
    /\ DOMAIN signers \subseteq Node /\ DOMAIN signingKey = Server
    /\ Stranger \notin Range(signers) /\ Stranger \notin Range(signingKey)
    /\ Byzantine \subseteq Server /\ Unauthorised \subseteq Server
    /\ MaxHash \in Nat /\ MaxFaults \in Nat
    /\ ProofSets \subseteq Seq(PartialProof) /\ Seeds \subseteq Seq(Nat) \ {<<>>}
    /\ None \notin PartialProof /\ None # Refused
    /\ {None, Refused} \cap [by : Range(signingKey), over : Nat] = {}

VARIABLES
    call,       \* per call, the locals of coordinate_attestation
    requests,   \* requests under way to a server or waiting for its verifier
    reply,      \* per call, the answer to the request it waits for, or None
    verifier,   \* per server, whether its verifier thread runs
    crashed,    \* history: servers whose process or verifier thread died
    verified,   \* history: <<server, proof>> that its RandomX run confirmed
    struck      \* history: per call, targets lost to a timeout

vars == <<call, requests, reply, verifier, crashed, verified, struck>>
-----------------------------------------------------------------------------
(* What a node checks.                                                      *)

\* PreFilterValidator on the values the node fills in: hashrate 0, one active
\* session, no earlier submission.
prefilter_checks(hashrate, maximum, active, timing) ==
    IF timing \/ hashrate > maximum THEN "Invalid"
    ELSE IF active > 1 THEN "Suspicious" ELSE "Valid"

node_prefilter == prefilter_checks(0, 4000, 1, FALSE)

verify(p) ==
    /\ RandomX[p.input] = p.proof_hash
    /\ p.proof_hash <= MaxHash \div (IF p.difficulty = 0 THEN 1 ELSE p.difficulty)

\* recover_address_from_msg.
recover(sig, message) == IF sig.over = message THEN sig.by ELSE Stranger
-----------------------------------------------------------------------------
(* The coordinator.                                                         *)

\* select_nodes: the pool without the assigned node, and Fisher-Yates on it.
Eligible(exclude) ==
    LET kept[i \in 0 .. Len(node_ids)] ==
            IF i = 0 THEN <<>>
            ELSE IF node_ids[i] = exclude THEN kept[i - 1] ELSE Append(kept[i - 1], node_ids[i])
    IN  kept[Len(node_ids)]

Swap(pool, i, j) == [pool EXCEPT ![i] = pool[j], ![j] = pool[i]]

\* The swaps for i = Len(pool) - 1 down to 1.
Shuffle(pool, seed) ==
    LET swapped[k \in 0 .. Len(pool) - 1] ==
            IF k = 0 THEN pool
            ELSE LET i == Len(pool) - k
                 IN  Swap(swapped[k - 1], i + 1, (seed[(i % Len(seed)) + 1] % (i + 1)) + 1)
    IN  IF pool = <<>> THEN pool ELSE swapped[Len(pool) - 1]

select_nodes(seed, exclude) ==
    LET shuffled == Shuffle(Eligible(exclude), seed)
        most == ATTESTATION_NODE_COUNT - 1
    IN  SubSeq(shuffled, 1, IF Len(shuffled) < most THEN Len(shuffled) ELSE most)

first(c) == IF call[c].proofs = <<>> THEN None ELSE Head(call[c].proofs)

Target(c) == call[c].targets[call[c].at]

Waiting(c) == call[c].pc = "wait"

Fresh == [pc |-> "idle", proofs |-> <<>>, assigned |-> Ghost, targets |-> <<>>, at |-> 0,
          node_ids |-> <<>>, signers |-> <<>>, proof_hash |-> <<>>]

Init ==
    /\ call = [c \in Calls |-> Fresh]
    /\ requests = {}
    /\ reply = [c \in Calls |-> None]
    /\ verifier = [e \in Server |-> TRUE]
    /\ crashed = {}
    /\ verified = {}
    /\ struck = [c \in Calls |-> {}]

\* end_session reaches the coordinator with the session's proofs, a seed block
\* and the node id its client named.
coordinate_attestation(c) ==
    /\ call[c].pc = "idle"
    /\ \E S \in ProofSets, seed \in Seeds, a \in Assigned :
          call' = [call EXCEPT ![c] = [Fresh EXCEPT
                     !.pc = "ask", !.proofs = S, !.assigned = a, !.at = 1,
                     !.targets = <<a>> \o select_nodes(seed, a)]]
    /\ UNCHANGED <<requests, reply, verifier, crashed, verified, struck>>

\* On to the next target, or to the result.
\* A mutated form: one target too many is asked.
Advance_Beyond(k) == IF k.at <= Len(k.targets) THEN [k EXCEPT !.pc = "ask", !.at = @ + 1]
                     ELSE [k EXCEPT !.pc = "assemble"]

Advance(k) == IF k.at < Len(k.targets) THEN [k EXCEPT !.pc = "ask", !.at = @ + 1]
              ELSE [k EXCEPT !.pc = "assemble"]

\* try_request: no client, no request; otherwise the request leaves.
try_request(c) ==
    /\ call[c].pc = "ask"
    /\ \/ /\ Target(c) \notin Node
          /\ call' = [call EXCEPT ![c] = Advance(@)]
          /\ UNCHANGED requests
       \/ /\ Target(c) \in Node
          /\ call' = [call EXCEPT ![c].pc = "wait"]
          /\ requests' = requests \cup {[call |-> c, at |-> call[c].at,
                                 server |-> node_clients[Target(c)],
                                 proof |-> first(c)]}
    /\ UNCHANGED <<reply, verifier, crashed, verified, struck>>

\* The counting of one answer.
\* A mutated form: signers are not compared with those already counted.
Counted_Repeats(k, sig, n) ==
    LET p == k.proofs IN
    /\ p # <<>> /\ n \in DOMAIN signers
    /\ recover(sig, Head(p).proof_hash) = signers[n]

Counted(k, sig, n) ==
    LET p == k.proofs IN
    /\ p # <<>>
    /\ n \in DOMAIN signers
    /\ recover(sig, Head(p).proof_hash) = signers[n]
    /\ ~Contains(k.signers, signers[n])

Count(k, sig) ==
    LET n == k.targets[k.at]
    IN  IF Counted(k, sig, n)
        THEN [k EXCEPT !.node_ids = Append(@, n), !.signers = Append(@, signers[n])]
        ELSE k

\* The awaited answer arrives: an error status, valid = false and malformed
\* signature bytes (Refused) are no answer, a signature is counted or not.
Receive(c) ==
    /\ Waiting(c) /\ reply[c] # None
    /\ call' = [call EXCEPT ![c] =
                  Advance(IF reply[c] = Refused THEN @ ELSE Count(@, reply[c]))]
    /\ reply' = [reply EXCEPT ![c] = None]
    /\ UNCHANGED <<requests, verifier, crashed, verified, struck>>

\* The timeout: the future is dropped, whatever the node answers later.
\* A mutated form: only an answer ends the wait.
Timeout_Never(c) == /\ Waiting(c) /\ reply[c] # None
                    /\ call' = [call EXCEPT ![c] = Advance(@)]
                    /\ reply' = [reply EXCEPT ![c] = None]
                    /\ UNCHANGED <<requests, verifier, crashed, verified, struck>>

Timeout(c) ==
    /\ Waiting(c)
    /\ struck' = [struck EXCEPT ![c] = @ \cup {Target(c)}]
    /\ call' = [call EXCEPT ![c] = Advance(@)]
    /\ reply' = [reply EXCEPT ![c] = None]
    /\ UNCHANGED <<requests, verifier, crashed, verified>>

hash_proofs(proofs) == [i \in DOMAIN proofs |-> proofs[i].proof_hash]

\* A mutated form: one signature too many is wanted.
is_sufficient_OneMore(k) == Len(k.signers) > Required

is_sufficient(k) == Len(k.signers) >= Required

Assemble(c) ==
    /\ call[c].pc = "assemble"
    /\ call' = [call EXCEPT ![c] = [@ EXCEPT !.proof_hash = hash_proofs(call[c].proofs),
                  !.pc = IF is_sufficient(call[c]) THEN "attested" ELSE "insufficient"]]
    /\ UNCHANGED <<requests, reply, verifier, crashed, verified, struck>>
-----------------------------------------------------------------------------
(* The nodes.                                                               *)

\* An answer reaches the call only while it still waits for that request.
Awaited(m) == Waiting(m.call) /\ call[m.call].at = m.at /\ reply[m.call] = None

Answered(m, answer) ==
    reply' = IF Awaited(m) THEN [reply EXCEPT ![m.call] = answer] ELSE reply

Signature(e, hash) == [by |-> signingKey[e], over |-> hash]

\* The handler: authentication, missing hash, pre-filter, then a job for the
\* verifier thread, and a signature of what the thread confirmed.  Handlers
\* share nothing but the thread's queue, so they are served one at a time in
\* any order; a request that waits for the thread is still in requests.
\* A mutated form: an error of the verifier is not looked at.
request_attestation_SignsAll(m) ==
    /\ m \in requests
    /\ m.server \notin Byzantine
    /\ requests' = requests \ {m}
    /\ IF m.proof = None THEN Answered(m, Refused) /\ UNCHANGED verified
       ELSE /\ Answered(m, Signature(m.server, m.proof.proof_hash))
            /\ verified' = verified \cup (IF verify(m.proof) THEN {<<m.server, m.proof>>} ELSE {})
    /\ UNCHANGED <<call, verifier, crashed, struck>>

request_attestation(m) ==
    /\ m \in requests
    /\ m.server \notin Byzantine
    /\ requests' = requests \ {m}
    /\ LET confirmed == /\ m.server \notin Unauthorised
                        /\ m.proof # None
                        /\ node_prefilter # "Invalid"
                        /\ verifier[m.server]
                        /\ verify(m.proof)
       IN  /\ Answered(m, IF confirmed THEN Signature(m.server, m.proof.proof_hash) ELSE Refused)
           /\ verified' = verified \cup (IF confirmed THEN {<<m.server, m.proof>>} ELSE {})
    /\ UNCHANGED <<call, verifier, crashed, struck>>

\* A mishap of server e, within the bound.
Crash(e) == /\ crashed' = crashed \cup {e}
            /\ Cardinality(crashed') <= MaxFaults

\* The verifier thread panics in a job: its reply sender is dropped, and later
\* sends to the thread fail.
VerifierDies(m) ==
    /\ m \in requests
    /\ m.server \notin Byzantine /\ verifier[m.server]
    /\ Crash(m.server)
    /\ verifier' = [verifier EXCEPT ![m.server] = FALSE]
    /\ requests' = requests \ {m}
    /\ Answered(m, Refused)
    /\ UNCHANGED <<call, verified, struck>>

\* The node's process is restarted: main builds a new server and its thread,
\* the requests it had taken in fail.
Restart(e) ==
    /\ Crash(e)
    /\ verifier' = [verifier EXCEPT ![e] = TRUE]
    /\ \E lost \in SUBSET {m \in requests : m.server = e} :
          /\ requests' = requests \ lost
          /\ reply' = [c \in Calls |-> IF \E m \in lost : Awaited(m) /\ m.call = c
                                       THEN Refused ELSE reply[c]]
    /\ UNCHANGED <<call, verified, struck>>

\* A Byzantine server answers at once, with its key, over any hash.
Lie(m, hash) ==
    /\ m \in requests
    /\ m.server \in Byzantine
    /\ requests' = requests \ {m}
    /\ \/ Answered(m, Refused)
       \/ Answered(m, Signature(m.server, hash))
    /\ UNCHANGED <<call, verifier, crashed, verified, struck>>

Hashes == {p.proof_hash : p \in UNION {Range(S) : S \in ProofSets}}

Coordinate(c) == try_request(c) \/ Receive(c) \/ Timeout(c) \/ Assemble(c)

Next ==
    \/ \E c \in Calls : coordinate_attestation(c) \/ Coordinate(c)
    \/ \E m \in requests : request_attestation(m) \/ VerifierDies(m)
    \/ \E m \in requests, h \in Hashes : Lie(m, h)
    \/ \E e \in Server : Restart(e)

\* The service's runtime polls every call, and a timer that has run out fires;
\* nothing is assumed of the nodes or of the network.
Fairness == \A c \in Calls : WF_vars(Coordinate(c))

Spec == Init /\ [][Next]_vars /\ Fairness
-----------------------------------------------------------------------------
(* Properties.                                                              *)

Proof == UNION {Range(S) : S \in ProofSets}

\* Shape of the state.
AttestationTypeOK ==
    /\ \A c \in Calls :
          /\ call[c].pc \in {"idle", "ask", "wait", "assemble", "attested", "insufficient"}
          /\ call[c].proofs \in ProofSets \cup {<<>>}
          /\ call[c].targets \in Seq(Node \cup {Ghost}) /\ call[c].at \in 0 .. Len(call[c].targets)
          /\ call[c].node_ids \in Seq(Node) /\ call[c].signers \in Seq(Range(signers))
          /\ Len(call[c].node_ids) = Len(call[c].signers)
          /\ struck[c] \subseteq Node
          /\ reply[c] \in {None, Refused}
                \cup [by : Range(signingKey), over : Hashes]
    /\ \A m \in requests : m.call \in Calls /\ m.server \in Server
    /\ verifier \in [Server -> BOOLEAN] /\ crashed \subseteq Server
    /\ verified \subseteq Server \X Proof

\* coordinate_attestation's promise, "at least 3 distinct, verified, registered
\* signers": a session is attested only when three different addresses were
\* counted, each registered for the node counted with it, and every honest node
\* among them ran RandomX on exactly this session's first proof and confirmed
\* it - whatever was late, lost, repeated or forged on the way.
QuorumIsEarned ==
    \A c \in Calls : call[c].pc = "attested" =>
        /\ Cardinality(Range(call[c].signers)) >= Required
        /\ \A i \in DOMAIN call[c].node_ids :
              LET n == call[c].node_ids[i]
              IN  /\ call[c].signers[i] = signers[n]
                  /\ node_clients[n] \notin Byzantine => <<node_clients[n], first(c)>> \in verified

\* The addresses registered for nodes whose server is Byzantine are fewer than
\* the signatures required.
FewLiars ==
    LET liars == {signers[n] : n \in {x \in DOMAIN signers : node_clients[x] \in Byzantine}}
    IN  IsFiniteSet(liars) /\ Cardinality(liars) < Required

\* The point of the 3-of-4 quorum (BFT f = 1): with at most one Byzantine node
\* a session is attested only when its FIRST proof's input hashes to the claimed
\* hash and meets its difficulty.  The first proof is all a node is sent; the
\* later ones, whose hashes go into the attestation all the same, are not meant.
FirstProofIsGenuine ==
    \A c \in Calls : call[c].pc = "attested" => first(c) # None /\ verify(first(c))

\* A target that can be counted: its own key is registered for it, its server
\* accepts the service's API key, follows the code and never crashed, and no
\* timeout took its answer.
Sound(c, n) == /\ n \in DOMAIN signers \ struck[c]
               /\ node_clients[n] \notin Byzantine \cup Unauthorised \cup crashed
               /\ signingKey[node_clients[n]] = signers[n]

\* The other half of BFT f = 1: a genuine proof is turned down only when fewer
\* than three different sound signers were among the nodes asked; one bad node
\* of four never blocks an honest session.
OneBadNodeTolerated ==
    \A c \in Calls :
        call[c].pc = "insufficient" /\ call[c].proofs # <<>> /\ verify(first(c))
        => Cardinality({signers[n] : n \in {t \in Range(call[c].targets) : Sound(c, t)}}) < Required

\* Every attestation ends, even when no node ever answers: each request is
\* bounded by the 15 second timeout and no node is asked twice.
AttestationEnds ==
    \A c \in Calls : (call[c].pc = "ask") ~> (call[c].pc \in {"attested", "insufficient"})
=============================================================================
