------------------------- MODULE AttestationProofs --------------------------
(***************************************************************************)
(* The quorum, for any number of calls, nodes, entries of the start-up     *)
(* lists, proofs, lost or late messages, crashes and Byzantine servers.    *)
(***************************************************************************)
EXTENDS Attestation, SumTheorems, TLAPS

Ids == Node \cup {Ghost}
HashLists == UNION {[DOMAIN S -> Hashes] : S \in ProofSets \cup {<<>>}}

CallType ==
    [pc : {"idle", "ask", "wait", "assemble", "attested", "insufficient"},
     proofs : ProofSets \cup {<<>>}, assigned : Ids, targets : Seq(Ids), at : Nat,
     node_ids : Seq(Node), signers : Seq(Range(signers)), proof_hash : HashLists]

Sig == [by : Range(signingKey), over : Hashes]

Request == [call : Calls, at : Nat, server : Server, proof : Proof \cup {None}]

Shape ==
    /\ call \in [Calls -> CallType]
    /\ reply \in [Calls -> {None, Refused} \cup Sig]
    /\ struck \in [Calls -> SUBSET Node]
    /\ requests \subseteq Request
    /\ verifier \in [Server -> BOOLEAN]
    /\ crashed \subseteq Server
    /\ verified \subseteq Server \X Proof

\* A verifier thread that is gone died; only what it confirmed is verified.
NodesOK ==
    /\ \A e \in Server : ~verifier[e] => e \in crashed
    /\ \A v \in verified : verify(v[2])

\* A request is one a call has made, the awaited one at most its latest.
RequestOK(m) ==
    /\ call[m.call].pc # "idle" /\ m.at <= call[m.call].at
    /\ m.at = call[m.call].at => call[m.call].pc # "ask"
    /\ m.at = call[m.call].at /\ Waiting(m.call) =>
          m.server = node_clients[Target(m.call)] /\ m.proof = first(m.call)

PlaceOK(c) ==
    /\ call[c].at <= Len(call[c].targets)
    /\ call[c].pc \in {"ask", "wait"} => call[c].at >= 1
    /\ Waiting(c) => Target(c) \in Node
    /\ call[c].pc = "attested" => Len(call[c].signers) >= Required
    /\ call[c].pc = "insufficient" => Len(call[c].signers) < Required

\* An answer is to the request the call waits for: an honest server's signature
\* is over the first proof, which it confirmed, and a genuine proof is refused
\* only by a server that lies, knows another key or crashed.
ReplyOK(c) ==
    /\ reply[c] # None => Waiting(c)
    /\ reply[c] \in Sig /\ node_clients[Target(c)] \notin Byzantine =>
          /\ first(c) # None
          /\ reply[c] = Signature(node_clients[Target(c)], first(c).proof_hash)
          /\ <<node_clients[Target(c)], first(c)>> \in verified
    /\ reply[c] = Refused /\ first(c) # None /\ verify(first(c)) =>
          node_clients[Target(c)] \in Byzantine \cup Unauthorised \cup crashed

\* What is counted is counted once, for a node it is registered for, and an
\* honest node confirmed the proof.
FirstOf(k) == IF k.proofs = <<>> THEN None ELSE Head(k.proofs)

Tally(k) ==
    /\ Len(k.node_ids) = Len(k.signers)
    /\ \A i \in 1 .. Len(k.node_ids) :
          LET n == k.node_ids[i]
          IN  /\ n \in DOMAIN signers /\ k.signers[i] = signers[n]
              /\ node_clients[n] \notin Byzantine => <<node_clients[n], FirstOf(k)>> \in verified
    /\ \A i, j \in 1 .. Len(k.signers) : k.signers[i] = k.signers[j] => i = j

Over(c) == call[c].pc \in {"assemble", "attested", "insufficient"}

\* A sound target that was asked, for a genuine proof, is counted.
PassedOK(c) ==
    first(c) # None /\ verify(first(c)) =>
        \A i \in 1 .. Len(call[c].targets) :
            (i < call[c].at \/ Over(c)) /\ Sound(c, call[c].targets[i]) =>
                Contains(call[c].signers, signers[call[c].targets[i]])

CallInv(c) ==
    /\ PlaceOK(c)
    /\ ReplyOK(c)
    /\ Tally(call[c])
    /\ PassedOK(c)

QuorumInv ==
    /\ Shape
    /\ NodesOK
    /\ \A m \in requests : RequestOK(m)
    /\ \A c \in Calls : CallInv(c)

-----------------------------------------------------------------------------
(* Selection.                                                               *)

LEMMA NodeIdsSeq == node_ids \in Seq(Node) /\ Len(node_ids) \in Nat
<1>1. \E n \in Nat : DOMAIN node_endpoints = 1 .. n
  <2>1. CASE NODE_ENDPOINTS = <<>>
    BY <2>1 DEF node_endpoints
  <2>2. CASE NODE_ENDPOINTS # <<>>
    <3>1. DOMAIN node_endpoints = DOMAIN NODE_ENDPOINTS
      BY <2>2 DEF node_endpoints, parse_node_endpoints
    <3>2. DOMAIN NODE_ENDPOINTS = 1 .. Len(NODE_ENDPOINTS) /\ Len(NODE_ENDPOINTS) \in Nat
      BY AttestationAssumption
    <3> QED
      BY <3>1, <3>2
  <2> QED
    BY <2>1, <2>2
<1>2. PICK n \in Nat : DOMAIN node_endpoints = 1 .. n
  BY <1>1
<1>3. node_ids \in [1 .. n -> Node]
  BY <1>2 DEF node_ids, Node, Range
<1>4. node_ids \in Seq(Node)
  BY <1>3
<1> QED
  BY <1>4

LEMMA EligibleType ==
    ASSUME NEW e
    PROVE  Eligible(e) \in Seq(Node)
<1> DEFINE n == Len(node_ids)
           V == Seq(Node)
           Solves(h) == h = [i \in 0 .. n |->
                               IF i = 0 THEN <<>>
                               ELSE IF node_ids[i] = e THEN h[i - 1] ELSE Append(h[i - 1], node_ids[i])]
           F == [x \in (1 .. n) \X V |->
                    IF node_ids[x[1]] = e THEN x[2] ELSE Append(x[2], node_ids[x[1]])]
<1>1. n \in Nat /\ node_ids \in [1 .. n -> Node]
  BY NodeIdsSeq
<1> HIDE DEF n
<1>2. F \in [(1 .. n) \X V -> V]
  BY <1>1
<1>3. <<>> \in V
  OBVIOUS
<1>4. PICK g \in [0 .. n -> V] : g[0] = <<>> /\ \A i \in 1 .. n : g[i] = F[<<i, g[i - 1]>>]
  <2>1. StepWithin(F, n, V)
    BY <1>2 DEF StepWithin
  <2> HIDE DEF F, V
  <2>2. \E g : LeadsTo(F, n, V, <<>>, g)
    BY <1>1, <1>3, <2>1, StepsExist
  <2> QED
    BY <2>2 DEF LeadsTo
<1>5. Solves(g)
  <2>1. \A i \in 1 .. n, y \in V :
          F[<<i, y>>] = IF node_ids[i] = e THEN y ELSE Append(y, node_ids[i])
    OBVIOUS
  <2>2. \A i \in 1 .. n : i - 1 \in 0 .. n /\ g[i - 1] \in V
    BY <1>1, <1>4
  <2> HIDE DEF F, V
  <2>3. \A i \in 1 .. n : g[i] = IF node_ids[i] = e THEN g[i - 1] ELSE Append(g[i - 1], node_ids[i])
    BY <1>4, <2>1, <2>2
  <2>4. \A i \in 0 .. n : i = 0 \/ i \in 1 .. n
    BY <1>1
  <2> QED
    BY <1>4, <2>3, <2>4
<1>6. PICK h : h = CHOOSE x : Solves(x)
  OBVIOUS
<1>7. Solves(h)
  <2> HIDE DEF Solves
  <2> QED
    BY <1>5, <1>6
<1>17. \A i \in 0 .. n : h[i] = IF i = 0 THEN <<>>
                               ELSE IF node_ids[i] = e THEN h[i - 1] ELSE Append(h[i - 1], node_ids[i])
  BY <1>7
<1> HIDE DEF Solves
<1>8. Eligible(e) = h[n]
  BY <1>6 DEF Eligible, n, Solves
<1>9. h[0] \in V /\ \A i \in 1 .. n : h[i - 1] \in V => h[i] \in V
  <2>1. h[0] = <<>>
    BY <1>1, <1>17
  <2>2. ASSUME NEW i \in 1 .. n, h[i - 1] \in V PROVE h[i] \in V
    <3>1. h[i] = IF node_ids[i] = e THEN h[i - 1] ELSE Append(h[i - 1], node_ids[i])
      <4>1. i \in 0 .. n /\ i # 0
        BY <1>1
      <4> QED
        BY <1>17, <4>1
    <3> QED
      BY <1>1, <2>2, <3>1
  <2> QED
    BY <2>1, <2>2
<1> HIDE DEF V
<1>10. h[n] \in V
  BY <1>1, <1>9, StepsStay
<1> QED
  BY <1>8, <1>10 DEF V

LEMMA ShuffleType ==
    ASSUME NEW pool \in Seq(Node), NEW seed \in Seq(Nat), seed # <<>>
    PROVE  Shuffle(pool, seed) \in Seq(Node)
<1>1. CASE pool = <<>>
  BY <1>1 DEF Shuffle
<1>2. CASE pool # <<>>
  <2> DEFINE len == Len(pool)
             n == len - 1
             V == [1 .. len -> Node]
             Place(i) == (seed[(i % Len(seed)) + 1] % (i + 1)) + 1
             Solves(h) == h = [k \in 0 .. n |->
                                 IF k = 0 THEN pool
                                 ELSE LET i == len - k IN Swap(h[k - 1], i + 1, Place(i))]
             F == [x \in (1 .. n) \X V |-> Swap(x[2], (len - x[1]) + 1, Place(len - x[1]))]
  <2>1. len \in Nat /\ len # 0 /\ n \in Nat /\ pool \in V
    BY <1>2
  <2>2. \A k \in 1 .. n : len - k \in 1 .. n
    BY <2>1
  <2>3. ASSUME NEW i \in 1 .. n PROVE Place(i) \in 1 .. len /\ i + 1 \in 1 .. len
    <3>1. Len(seed) \in Nat /\ Len(seed) > 0 /\ i \in Nat
      BY <2>1
    <3>2. (i % Len(seed)) + 1 \in 1 .. Len(seed)
      BY <3>1
    <3>3. seed[(i % Len(seed)) + 1] \in Nat
      BY <3>2
    <3> DEFINE z == seed[(i % Len(seed)) + 1]
    <3> HIDE DEF z
    <3>4. z % (i + 1) \in 0 .. i
      BY <3>1, <3>3 DEF z
    <3>5. (z % (i + 1)) + 1 \in 1 .. i + 1
      BY <3>1, <3>4
    <3> QED
      BY <2>1, <3>5 DEF z
  <2> HIDE DEF Place, len, n
  <2>4. ASSUME NEW p \in V, NEW k \in 1 .. n
        PROVE  Swap(p, (len - k) + 1, Place(len - k)) \in V
    BY <2>2, <2>3 DEF Swap
  <2>5. StepWithin(F, n, V)
    BY <2>4 DEF StepWithin
  <2>6. \A k \in 1 .. n, p \in V : F[<<k, p>>] = Swap(p, (len - k) + 1, Place(len - k))
    OBVIOUS
  <2> HIDE DEF V, F
  <2>7. PICK g : LeadsTo(F, n, V, pool, g)
    BY <2>1, <2>5, StepsExist
  <2>8. Solves(g)
    <3>1. g \in [0 .. n -> V] /\ g[0] = pool /\ \A k \in 1 .. n : g[k] = F[<<k, g[k - 1]>>]
      BY <2>7 DEF LeadsTo
    <3>2. \A k \in 1 .. n : k - 1 \in 0 .. n /\ g[k - 1] \in V
      BY <2>1, <3>1
    <3>3. \A k \in 1 .. n : g[k] = Swap(g[k - 1], (len - k) + 1, Place(len - k))
      BY <2>6, <3>1, <3>2
    <3>4. \A k \in 0 .. n : k = 0 \/ k \in 1 .. n
      BY <2>1
    <3> QED
      BY <3>1, <3>3, <3>4
  <2>9. PICK h : h = CHOOSE x : Solves(x)
    OBVIOUS
  <2>10. Solves(h)
    <3> HIDE DEF Solves
    <3> QED
      BY <2>8, <2>9
  <2>11. /\ h[0] = pool
         /\ \A k \in 1 .. n : h[k] = Swap(h[k - 1], (len - k) + 1, Place(len - k))
    <3>1. \A k \in 0 .. n : h[k] = IF k = 0 THEN pool
                                   ELSE Swap(h[k - 1], (len - k) + 1, Place(len - k))
      BY <2>10
    <3>2. 0 \in 0 .. n /\ \A k \in 1 .. n : k \in 0 .. n /\ k # 0
      BY <2>1
    <3> HIDE DEF Solves
    <3> QED
      BY <3>1, <3>2
  <2>12. Shuffle(pool, seed) = h[n]
    BY <1>2, <2>9 DEF Shuffle, Solves, n, len, Place
  <2> HIDE DEF Solves
  <2>13. h[0] \in V /\ \A k \in 1 .. n : h[k - 1] \in V => h[k] \in V
    BY <2>1, <2>4, <2>11
  <2>14. h[n] \in V
    BY <2>1, <2>13, StepsStay
  <2> QED
    BY <2>1, <2>12, <2>14 DEF V
<1> QED
  BY <1>1, <1>2

\* The nodes asked besides the assigned one are configured ones.
LEMMA SelectType ==
    ASSUME NEW seed \in Seeds, NEW a
    PROVE  select_nodes(seed, a) \in Seq(Node)
<1> DEFINE shuffled == Shuffle(Eligible(a), seed)
<1>1. shuffled \in Seq(Node)
  BY EligibleType, ShuffleType, AttestationAssumption
<1> HIDE DEF shuffled
<1>2. \A n \in 0 .. Len(shuffled) : SubSeq(shuffled, 1, n) \in Seq(Node)
  BY <1>1
<1>3. (IF Len(shuffled) < 3 THEN Len(shuffled) ELSE 3) \in 0 .. Len(shuffled)
  BY <1>1
<1> QED
  BY <1>2, <1>3 DEF select_nodes, ATTESTATION_NODE_COUNT, shuffled

-----------------------------------------------------------------------------
(* Facts about the parts.                                                   *)

LEMMA HashesNat ==
    /\ Hashes \subseteq Nat
    /\ \A p \in Proof : p \in PartialProof /\ p.proof_hash \in Hashes
    /\ None \notin Proof
<1>1. Proof \subseteq PartialProof
  BY AttestationAssumption DEF Proof, Range
<1>2. \A p \in Proof : p.proof_hash \in Hashes
  BY DEF Proof, Hashes
<1>3. Hashes \subseteq Nat
  BY <1>1 DEF Hashes, Proof, PartialProof
<1> QED
  BY <1>1, <1>2, <1>3, AttestationAssumption

LEMMA SigApart == None \notin Sig /\ Refused \notin Sig /\ None # Refused
<1>1. Sig \subseteq [by : Range(signingKey), over : Nat]
  BY HashesNat DEF Sig
<1> QED
  BY <1>1, AttestationAssumption

LEMMA FirstType ==
    ASSUME NEW k \in CallType
    PROVE  /\ FirstOf(k) \in Proof \cup {None}
           /\ k.proofs = <<>> <=> FirstOf(k) = None
           /\ k.proofs # <<>> => FirstOf(k) = Head(k.proofs)
<1>1. CASE k.proofs = <<>>
  BY <1>1 DEF FirstOf
<1>2. CASE k.proofs # <<>>
  <2>1. k.proofs \in ProofSets /\ k.proofs \in Seq(PartialProof)
    BY <1>2, AttestationAssumption DEF CallType
  <2>2. Head(k.proofs) = k.proofs[1] /\ 1 \in DOMAIN k.proofs
    BY <1>2, <2>1
  <2>3. Head(k.proofs) \in Proof
    BY <2>1, <2>2 DEF Proof, Range
  <2> QED
    BY <1>2, <2>3, HashesNat DEF FirstOf
<1> QED
  BY <1>1, <1>2

LEMMA FirstIs == ASSUME NEW c PROVE first(c) = FirstOf(call[c])
BY DEF first, FirstOf

LEMMA ClientsType ==
    /\ \A n \in Node : node_clients[n] \in Server
    /\ \A e \in Server : signingKey[e] \in Range(signingKey)
    /\ \A n \in DOMAIN signers : n \in Node /\ signers[n] \in Range(signers)
BY AttestationAssumption DEF Server, node_clients, Range

LEMMA TargetType ==
    ASSUME Shape, NEW c \in Calls, PlaceOK(c), call[c].pc \in {"ask", "wait"}
    PROVE  Target(c) \in Ids /\ call[c].at \in 1 .. Len(call[c].targets)
<1>1. call[c].targets \in Seq(Ids) /\ call[c].at \in Nat
  BY DEF Shape, CallType
<1>2. call[c].at \in 1 .. Len(call[c].targets)
  BY <1>1 DEF PlaceOK
<1> QED
  BY <1>1, <1>2 DEF Target

LEMMA FreshType == Fresh \in CallType
<1>1. <<>> \in HashLists
  BY DEF HashLists
<1> QED
  BY <1>1 DEF Fresh, CallType, Ids

LEMMA QuorumInit == Init => QuorumInv
<1> SUFFICES ASSUME Init PROVE QuorumInv
  OBVIOUS
<1>2. Shape
  BY FreshType DEF Init, Shape
<1>3. NodesOK
  BY DEF Init, NodesOK
<1>4. requests = {}
  BY DEF Init
<1>5. ASSUME NEW c \in Calls PROVE CallInv(c)
  <2>1. call[c] = Fresh /\ reply[c] = None
    BY DEF Init
  <2>2. PlaceOK(c) /\ Tally(call[c])
    BY <2>1 DEF PlaceOK, Tally, Fresh, Waiting
  <2>3. ReplyOK(c)
    BY <2>1, SigApart DEF ReplyOK
  <2>4. PassedOK(c)
    BY <2>1 DEF PassedOK, Fresh
  <2> QED
    BY <2>2, <2>3, <2>4 DEF CallInv
<1> QED
  BY <1>2, <1>3, <1>4, <1>5 DEF QuorumInv

\* What other calls and the nodes do leaves a call as it is: the nodes only
\* confirm and crash more.
LEMMA SoundShrinks ==
    ASSUME NEW c, NEW n, crashed \subseteq crashed', struck[c] \subseteq struck'[c], Sound(c, n)'
    PROVE  Sound(c, n)
BY DEF Sound

LEMMA CallFrame ==
    ASSUME NEW c \in Calls, CallInv(c), call'[c] = call[c], reply'[c] = reply[c],
           struck[c] \subseteq struck'[c], verified \subseteq verified', crashed \subseteq crashed'
    PROVE  CallInv(c)'
<1>1. PlaceOK(c)'
  BY DEF CallInv, PlaceOK, Waiting, Target
<1>2. ReplyOK(c)'
  BY DEF CallInv, ReplyOK, Waiting, Target, first
<1>3. Tally(call[c])'
  BY DEF CallInv, Tally, FirstOf
<1>4. PassedOK(c)'
  BY SoundShrinks DEF CallInv, PassedOK, first, Over
<1> QED
  BY <1>1, <1>2, <1>3, <1>4 DEF CallInv

LEMMA RequestFrame ==
    ASSUME NEW m, RequestOK(m), call'[m.call] = call[m.call]
    PROVE  RequestOK(m)'
BY DEF RequestOK, Waiting, Target, first
-----------------------------------------------------------------------------
(* Answers.                                                                 *)

\* An answer a node may give to request m, as the state after the step has it.
Honest(m, answer) ==
    /\ answer \in {Refused} \cup Sig
    /\ answer \in Sig /\ m.server \notin Byzantine =>
          /\ m.proof # None
          /\ answer = Signature(m.server, m.proof.proof_hash)
          /\ <<m.server, m.proof>> \in verified'
    /\ answer = Refused /\ m.proof # None /\ verify(m.proof) =>
          m.server \in Byzantine \cup Unauthorised \cup crashed'

LEMMA AnswerStep ==
    ASSUME QuorumInv, NEW m \in requests, NEW answer, Honest(m, answer), Answered(m, answer),
           call' = call, struck' = struck, verified \subseteq verified', crashed \subseteq crashed'
    PROVE  /\ reply' \in [Calls -> {None, Refused} \cup Sig]
           /\ \A c \in Calls : CallInv(c)'
<1>1. m \in Request /\ RequestOK(m) /\ m.call \in Calls
  BY DEF QuorumInv, Shape, Request
<1>2. reply \in [Calls -> {None, Refused} \cup Sig]
  BY DEF QuorumInv, Shape
<1>3. reply' \in [Calls -> {None, Refused} \cup Sig]
  BY <1>2 DEF Answered, Honest
<1>4. ASSUME NEW c \in Calls PROVE CallInv(c)'
  <2>1. CallInv(c)
    BY DEF QuorumInv
  <2>2. CASE reply'[c] = reply[c]
    BY <2>1, <2>2, CallFrame
  <2>3. CASE reply'[c] # reply[c]
    <3>1. c = m.call /\ Awaited(m) /\ reply'[c] = answer
      BY <1>2, <2>3 DEF Answered
    <3>2. Waiting(c) /\ m.server = node_clients[Target(c)] /\ m.proof = first(c)
      BY <1>1, <3>1 DEF Awaited, RequestOK
    <3>3. Waiting(c)' /\ Target(c)' = Target(c) /\ first(c)' = first(c)
      BY <3>2 DEF Waiting, Target, first
    <3>4. ReplyOK(c)'
      BY <3>1, <3>2, <3>3 DEF ReplyOK, Honest
    <3>5. PlaceOK(c)'
      BY <2>1 DEF CallInv, PlaceOK, Waiting, Target
    <3>6. Tally(call[c])'
      BY <2>1 DEF CallInv, Tally, FirstOf
    <3>7. PassedOK(c)'
      BY <2>1, SoundShrinks DEF CallInv, PassedOK, first, Over
    <3> QED
      BY <3>4, <3>5, <3>6, <3>7 DEF CallInv
  <2> QED
    BY <2>2, <2>3
<1> QED
  BY <1>3, <1>4

\* The steps of the nodes that answer one request.
LEMMA AnswerInv ==
    ASSUME QuorumInv, NEW m \in requests, NEW answer, Honest(m, answer), Answered(m, answer),
           call' = call, struck' = struck, requests' = requests \ {m},
           verified \subseteq verified', crashed \subseteq crashed',
           verifier' \in [Server -> BOOLEAN], crashed' \subseteq Server,
           verified' \subseteq Server \X Proof, NodesOK'
    PROVE  QuorumInv'
<1>1. reply' \in [Calls -> {None, Refused} \cup Sig] /\ \A c \in Calls : CallInv(c)'
  BY AnswerStep
<1>2. Shape'
  BY <1>1 DEF QuorumInv, Shape
<1>3. \A x \in requests' : RequestOK(x)'
  BY RequestFrame DEF QuorumInv
<1> QED
  BY <1>1, <1>2, <1>3 DEF QuorumInv

LEMMA AttestInv ==
    ASSUME QuorumInv, NEW m \in requests, request_attestation(m)
    PROVE  QuorumInv'
<1> DEFINE confirmed == /\ m.server \notin Unauthorised
                        /\ m.proof # None
                        /\ node_prefilter # "Invalid"
                        /\ verifier[m.server]
                        /\ verify(m.proof)
           answer == IF confirmed THEN Signature(m.server, m.proof.proof_hash) ELSE Refused
<1>1. /\ m.server \notin Byzantine /\ requests' = requests \ {m}
      /\ Answered(m, answer)
      /\ verified' = verified \cup (IF confirmed THEN {<<m.server, m.proof>>} ELSE {})
      /\ UNCHANGED <<call, verifier, crashed, struck>>
  BY DEF request_attestation
<1>2. m.server \in Server /\ m.proof \in Proof \cup {None}
  BY DEF QuorumInv, Shape, Request
<1>3. node_prefilter = "Valid"
  BY DEF node_prefilter, prefilter_checks
<1>4. CASE confirmed
  <2>1. m.proof \in Proof /\ m.proof.proof_hash \in Hashes
    BY <1>2, <1>4, HashesNat
  <2>2. answer \in Sig /\ answer = Signature(m.server, m.proof.proof_hash)
    BY <1>2, <1>4, <2>1, ClientsType DEF Signature, Sig
  <2>3. <<m.server, m.proof>> \in verified' /\ verified \subseteq verified'
    BY <1>1, <1>4
  <2> HIDE DEF answer
  <2>4. Honest(m, answer)
    BY <1>4, <2>2, <2>3, SigApart DEF Honest
  <2>5. verified' \subseteq Server \X Proof /\ \A v \in verified' : verify(v[2])
    <3>1. verified' = verified \cup {<<m.server, m.proof>>}
      BY <1>1, <1>4
    <3> QED
      BY <1>2, <1>4, <2>1, <3>1 DEF QuorumInv, Shape, NodesOK
  <2>6. NodesOK' /\ verifier' \in [Server -> BOOLEAN] /\ crashed' \subseteq Server
    BY <1>1, <2>5 DEF QuorumInv, Shape, NodesOK
  <2>7. call' = call /\ struck' = struck /\ crashed \subseteq crashed'
    BY <1>1
  <2> QED
    BY <1>1, <2>3, <2>4, <2>5, <2>6, <2>7, AnswerInv
<1>5. CASE ~confirmed
  <2>1. answer = Refused /\ verified' = verified
    BY <1>1, <1>5
  <2>2. m.proof # None /\ verify(m.proof) => m.server \in Unauthorised \cup crashed'
    BY <1>1, <1>2, <1>3, <1>5 DEF QuorumInv, NodesOK
  <2> HIDE DEF answer
  <2>3. Honest(m, answer)
    BY <2>1, <2>2, SigApart DEF Honest
  <2>4. /\ NodesOK' /\ verifier' \in [Server -> BOOLEAN] /\ crashed' \subseteq Server
        /\ verified' \subseteq Server \X Proof
    BY <1>1, <2>1 DEF QuorumInv, Shape, NodesOK
  <2>5. call' = call /\ struck' = struck /\ crashed \subseteq crashed' /\ verified \subseteq verified'
    BY <1>1, <2>1
  <2> QED
    BY <1>1, <2>3, <2>4, <2>5, AnswerInv
<1> QED
  BY <1>4, <1>5

LEMMA DiesInv ==
    ASSUME QuorumInv, NEW m \in requests, VerifierDies(m)
    PROVE  QuorumInv'
<1>1. /\ crashed' = crashed \cup {m.server} /\ requests' = requests \ {m}
      /\ verifier' = [verifier EXCEPT ![m.server] = FALSE]
      /\ Answered(m, Refused) /\ call' = call /\ struck' = struck /\ verified' = verified
  BY DEF VerifierDies, Crash
<1>2. m.server \in Server
  BY DEF QuorumInv, Shape, Request
<1>3. Honest(m, Refused)
  BY <1>1, SigApart DEF Honest
<1>4. /\ NodesOK' /\ verifier' \in [Server -> BOOLEAN] /\ crashed' \subseteq Server
      /\ verified' \subseteq Server \X Proof
  BY <1>1, <1>2 DEF QuorumInv, Shape, NodesOK
<1> QED
  BY <1>1, <1>3, <1>4, AnswerInv

LEMMA LieInv ==
    ASSUME QuorumInv, NEW m \in requests, NEW h \in Hashes, Lie(m, h)
    PROVE  QuorumInv'
<1>1. /\ m.server \in Byzantine /\ requests' = requests \ {m}
      /\ UNCHANGED <<call, verifier, crashed, verified, struck>>
      /\ Answered(m, Refused) \/ Answered(m, Signature(m.server, h))
  BY DEF Lie
<1>2. m.server \in Server
  BY DEF QuorumInv, Shape, Request
<1>3. Signature(m.server, h) \in Sig
  BY <1>2, ClientsType DEF Signature, Sig
<1>4. Honest(m, Refused) /\ Honest(m, Signature(m.server, h))
  BY <1>1, <1>3, SigApart DEF Honest
<1>5. /\ NodesOK' /\ verifier' \in [Server -> BOOLEAN] /\ crashed' \subseteq Server
      /\ verified' \subseteq Server \X Proof
  BY <1>1 DEF QuorumInv, Shape, NodesOK
<1>6. verified \subseteq verified' /\ crashed \subseteq crashed' /\ call' = call /\ struck' = struck
  BY <1>1
<1> QED
  BY <1>1, <1>4, <1>5, <1>6, AnswerInv

\* A restart refuses what the server had taken in.
LEMMA RestartInv ==
    ASSUME QuorumInv, NEW e \in Server, Restart(e)
    PROVE  QuorumInv'
<1>1. PICK lost \in SUBSET {m \in requests : m.server = e} :
        /\ requests' = requests \ lost
        /\ reply' = [c \in Calls |-> IF \E m \in lost : Awaited(m) /\ m.call = c
                                     THEN Refused ELSE reply[c]]
  BY DEF Restart
<1>2. /\ crashed' = crashed \cup {e} /\ verifier' = [verifier EXCEPT ![e] = TRUE]
      /\ call' = call /\ verified' = verified /\ struck' = struck
  BY DEF Restart, Crash
<1>3. NodesOK'
  BY <1>2 DEF QuorumInv, Shape, NodesOK
<1>4. Shape'
  BY <1>1, <1>2 DEF QuorumInv, Shape
<1>5. \A m \in requests' : RequestOK(m)'
  BY <1>1, <1>2, RequestFrame DEF QuorumInv
<1>6. ASSUME NEW c \in Calls PROVE CallInv(c)'
  <2>1. CallInv(c)
    BY DEF QuorumInv
  <2>2. CASE reply'[c] = reply[c]
    BY <1>2, <2>1, <2>2, CallFrame
  <2>3. CASE reply'[c] # reply[c]
    <3>1. PICK m \in lost : Awaited(m) /\ m.call = c
      BY <1>1, <2>3
    <3>2. reply'[c] = Refused /\ m.server = e /\ RequestOK(m)
      BY <1>1, <3>1 DEF QuorumInv
    <3>3. Waiting(c) /\ e = node_clients[Target(c)]
      BY <3>1, <3>2 DEF Awaited, RequestOK
    <3>4. Waiting(c)' /\ Target(c)' = Target(c)
      BY <1>2, <3>3 DEF Waiting, Target
    <3>5. ReplyOK(c)'
      BY <1>2, <3>2, <3>3, <3>4, SigApart DEF ReplyOK
    <3>6. PlaceOK(c)'
      BY <1>2, <2>1 DEF CallInv, PlaceOK, Waiting, Target
    <3>7. Tally(call[c])'
      BY <1>2, <2>1 DEF CallInv, Tally, FirstOf
    <3>8. PassedOK(c)'
      BY <1>2, <2>1, SoundShrinks DEF CallInv, PassedOK, first, Over
    <3> QED
      BY <3>5, <3>6, <3>7, <3>8 DEF CallInv
  <2> QED
    BY <2>2, <2>3
<1> QED
  BY <1>3, <1>4, <1>5, <1>6 DEF QuorumInv

-----------------------------------------------------------------------------
(* Steps of one call.                                                       *)

LEMMA CallStep ==
    ASSUME QuorumInv, NEW c \in Calls, NEW k \in CallType, call' = [call EXCEPT ![c] = k],
           reply' \in [Calls -> {None, Refused} \cup Sig],
           struck' \in [Calls -> SUBSET Node],
           \A d \in Calls : d # c => reply'[d] = reply[d] /\ struck'[d] = struck[d],
           requests' \subseteq Request,
           \A m \in requests' : m.call # c => m \in requests,
           \A m \in requests' : m.call = c => RequestOK(m)',
           UNCHANGED <<verifier, crashed, verified>>,
           CallInv(c)'
    PROVE  QuorumInv'
<1>1. call \in [Calls -> CallType]
  BY DEF QuorumInv, Shape
<1>2. \A d \in Calls : d # c => call'[d] = call[d]
  BY <1>1
<1>3. Shape'
  BY <1>1 DEF QuorumInv, Shape
<1>4. NodesOK'
  BY DEF QuorumInv, NodesOK
<1>5. ASSUME NEW m \in requests' PROVE RequestOK(m)'
  <2>1. CASE m.call = c
    BY <2>1
  <2>2. CASE m.call # c
    <3>1. m \in requests /\ m.call \in Calls /\ RequestOK(m)
      BY <2>2 DEF QuorumInv, Request
    <3> QED
      BY <1>2, <2>2, <3>1, RequestFrame
  <2> QED
    BY <2>1, <2>2
<1>6. ASSUME NEW d \in Calls PROVE CallInv(d)'
  <2>1. CASE d = c
    BY <2>1
  <2>2. CASE d # c
    <3>1. CallInv(d) /\ call'[d] = call[d] /\ reply'[d] = reply[d] /\ struck'[d] = struck[d]
      BY <1>2, <2>2 DEF QuorumInv
    <3> QED
      BY <3>1, CallFrame
  <2> QED
    BY <2>1, <2>2
<1> QED
  BY <1>3, <1>4, <1>5, <1>6 DEF QuorumInv

LEMMA StartInv ==
    ASSUME QuorumInv, NEW c \in Calls, coordinate_attestation(c)
    PROVE  QuorumInv'
<1>1. PICK S \in ProofSets, seed \in Seeds, a \in Assigned :
        call' = [call EXCEPT ![c] = [Fresh EXCEPT
                   !.pc = "ask", !.proofs = S, !.assigned = a, !.at = 1,
                   !.targets = <<a>> \o select_nodes(seed, a)]]
  BY DEF coordinate_attestation
<1>2. call[c].pc = "idle" /\ UNCHANGED <<requests, reply, verifier, crashed, verified, struck>>
  BY DEF coordinate_attestation
<1> DEFINE targets == <<a>> \o select_nodes(seed, a)
           k == [Fresh EXCEPT !.pc = "ask", !.proofs = S, !.assigned = a, !.at = 1,
                              !.targets = targets]
<1>3. targets \in Seq(Ids) /\ Len(targets) >= 1
  <2>1. select_nodes(seed, a) \in Seq(Node)
    BY SelectType
  <2>2. select_nodes(seed, a) \in Seq(Ids) /\ <<a>> \in Seq(Ids) /\ Len(select_nodes(seed, a)) \in Nat
    BY <2>1, AttestationAssumption DEF Ids
  <2> QED
    BY <2>2
<1> HIDE DEF targets
<1>4. /\ k.pc = "ask" /\ k.proofs = S /\ k.targets = targets /\ k.at = 1
      /\ k.node_ids = <<>> /\ k.signers = <<>>
  BY DEF Fresh
<1>5. k \in CallType
  <2>1. Fresh \in CallType
    BY FreshType
  <2>2. a \in Ids
    BY AttestationAssumption DEF Ids
  <2>3. \A f \in CallType, u \in Seq(Ids) :
          [f EXCEPT !.pc = "ask", !.proofs = S, !.assigned = a, !.at = 1, !.targets = u] \in CallType
    BY <2>2 DEF CallType
  <2> QED
    BY <1>3, <2>1, <2>3
<1>6. call' = [call EXCEPT ![c] = k]
  BY <1>1 DEF targets
<1> HIDE DEF k
<1>7. call'[c] = k
  BY <1>6 DEF QuorumInv, Shape
<1>8. reply'[c] = None /\ reply[c] = None
  BY <1>2 DEF QuorumInv, CallInv, ReplyOK, Waiting
<1>9. \A m \in requests : m.call # c
  BY <1>2 DEF QuorumInv, RequestOK
<1>10. PlaceOK(c)'
  BY <1>3, <1>4, <1>7 DEF PlaceOK, Waiting
<1>11. ReplyOK(c)'
  BY <1>8, SigApart DEF ReplyOK
<1>12. Tally(k)'
  BY <1>4 DEF Tally
<1>13. PassedOK(c)'
  BY <1>3, <1>4, <1>7 DEF PassedOK, Over
<1>14. CallInv(c)'
  BY <1>7, <1>10, <1>11, <1>12, <1>13 DEF CallInv, Tally, FirstOf
<1>15. /\ reply' \in [Calls -> {None, Refused} \cup Sig] /\ struck' \in [Calls -> SUBSET Node]
       /\ requests' \subseteq Request /\ UNCHANGED <<verifier, crashed, verified>>
       /\ \A d \in Calls : d # c => reply'[d] = reply[d] /\ struck'[d] = struck[d]
  BY <1>2 DEF QuorumInv, Shape
<1> QED
  BY <1>2, <1>5, <1>6, <1>9, <1>14, <1>15, CallStep

\* Call k with node n counted.
With(k, n) == [k EXCEPT !.node_ids = Append(@, n), !.signers = Append(@, signers[n])]

\* A counted signature is a new one, of a node it is registered for.
LEMMA TallyAppend ==
    ASSUME NEW k \in CallType, Tally(k), NEW n \in DOMAIN signers, ~Contains(k.signers, signers[n]),
           node_clients[n] \notin Byzantine => <<node_clients[n], FirstOf(k)>> \in verified,
           NEW j, j = With(k, n)
    PROVE  /\ j \in CallType /\ Tally(j)
           /\ j.proofs = k.proofs /\ j.targets = k.targets /\ j.at = k.at
           /\ \A a : Contains(k.signers, a) => Contains(j.signers, a)
           /\ Contains(j.signers, signers[n])
<1>1. n \in Node /\ signers[n] \in Range(signers)
  BY ClientsType
<1>2. /\ k.node_ids \in Seq(Node) /\ k.signers \in Seq(Range(signers))
      /\ Len(k.node_ids) \in Nat /\ Len(k.signers) = Len(k.node_ids)
  BY DEF CallType, Tally
<1> DEFINE len == Len(k.node_ids)
<1>3. /\ j.node_ids = Append(k.node_ids, n) /\ j.signers = Append(k.signers, signers[n])
      /\ j.proofs = k.proofs /\ j.targets = k.targets /\ j.at = k.at
  BY DEF CallType, With
<1>4. /\ j.node_ids \in Seq(Node) /\ j.signers \in Seq(Range(signers))
      /\ Len(j.node_ids) = len + 1 /\ Len(j.signers) = len + 1
      /\ \A i \in 1 .. len : j.node_ids[i] = k.node_ids[i] /\ j.signers[i] = k.signers[i]
      /\ j.node_ids[len + 1] = n /\ j.signers[len + 1] = signers[n]
  BY <1>1, <1>2, <1>3
<1>5. j \in CallType
  <2>1. j = [k EXCEPT !.node_ids = j.node_ids, !.signers = j.signers]
    BY <1>3 DEF CallType, With
  <2>2. \A u \in Seq(Node), v \in Seq(Range(signers)) :
          [k EXCEPT !.node_ids = u, !.signers = v] \in CallType
    BY DEF CallType
  <2> QED
    BY <1>4, <2>1, <2>2
<1>6. FirstOf(j) = FirstOf(k)
  BY <1>3 DEF FirstOf
<1>7. \A i \in 1 .. len + 1 : i \in 1 .. len \/ i = len + 1
  BY <1>2
<1>8. \A i \in 1 .. len : k.signers[i] # signers[n]
  BY <1>2 DEF Contains
<1>9. \A a : Contains(k.signers, a) => Contains(j.signers, a)
  BY <1>2, <1>4 DEF Contains
<1>10. Contains(j.signers, signers[n])
  BY <1>2, <1>4 DEF Contains
<1> HIDE DEF len
<1>11. \A i \in 1 .. len + 1 :
         LET x == j.node_ids[i]
         IN  /\ x \in DOMAIN signers /\ j.signers[i] = signers[x]
             /\ node_clients[x] \notin Byzantine => <<node_clients[x], FirstOf(j)>> \in verified
  BY <1>4, <1>6, <1>7 DEF Tally, len
<1>12. \A i, l \in 1 .. len + 1 : j.signers[i] = j.signers[l] => i = l
  BY <1>2, <1>4, <1>7, <1>8 DEF Tally, len
<1>13. Tally(j)
  BY <1>4, <1>11, <1>12 DEF Tally
<1> QED
  BY <1>3, <1>5, <1>9, <1>10, <1>13

LEMMA AdvanceType ==
    ASSUME NEW k \in CallType
    PROVE  /\ Advance(k) \in CallType
           /\ Advance(k).proofs = k.proofs /\ Advance(k).targets = k.targets
           /\ Advance(k).node_ids = k.node_ids /\ Advance(k).signers = k.signers
           /\ k.at < Len(k.targets) => Advance(k).pc = "ask" /\ Advance(k).at = k.at + 1
           /\ ~(k.at < Len(k.targets)) => Advance(k).pc = "assemble" /\ Advance(k).at = k.at
<1>1. CASE k.at < Len(k.targets)
  <2>1. Advance(k) = [k EXCEPT !.pc = "ask", !.at = k.at + 1]
    BY <1>1 DEF Advance, CallType
  <2>2. k.at + 1 \in Nat
    BY DEF CallType
  <2>3. [k EXCEPT !.pc = "ask", !.at = k.at + 1] \in CallType
    BY <2>2 DEF CallType
  <2> QED
    BY <1>1, <2>1, <2>3 DEF CallType
<1>2. CASE ~(k.at < Len(k.targets))
  <2>1. Advance(k) = [k EXCEPT !.pc = "assemble"]
    BY <1>2 DEF Advance
  <2> QED
    BY <1>2, <2>1 DEF CallType
<1> QED
  BY <1>1, <1>2

\* The call leaves its target n, having counted what k says: nothing is lost, and
\* a sound target with a genuine proof has been counted.
LEMMA AdvanceInv ==
    ASSUME QuorumInv, NEW c \in Calls, call[c].pc \in {"ask", "wait"}, NEW n, n = Target(c),
           NEW k \in CallType, Tally(k),
           k.proofs = call[c].proofs, k.targets = call[c].targets, k.at = call[c].at,
           \A a : Contains(call[c].signers, a) => Contains(k.signers, a),
           first(c) # None /\ verify(first(c)) /\ Sound(c, n)' => Contains(k.signers, signers[n]),
           call' = [call EXCEPT ![c] = Advance(k)], reply' = [reply EXCEPT ![c] = None],
           struck' \in [Calls -> SUBSET Node], struck[c] \subseteq struck'[c],
           \A d \in Calls : d # c => struck'[d] = struck[d],
           UNCHANGED <<requests, verifier, crashed, verified>>
    PROVE  QuorumInv'
<1> DEFINE j == Advance(k)
<1>1. /\ j \in CallType /\ j.proofs = k.proofs /\ j.targets = k.targets
      /\ j.node_ids = k.node_ids /\ j.signers = k.signers
      /\ k.at < Len(k.targets) => j.pc = "ask" /\ j.at = k.at + 1
      /\ ~(k.at < Len(k.targets)) => j.pc = "assemble" /\ j.at = k.at
  BY AdvanceType
<1>2. call' = [call EXCEPT ![c] = j]
  OBVIOUS
<1> HIDE DEF j
<1>3. CallInv(c) /\ Shape
  BY DEF QuorumInv
<1>4. call'[c] = j /\ reply'[c] = None
  BY <1>2, <1>3 DEF Shape
<1>5. /\ k.at \in 1 .. Len(k.targets) /\ k.targets \in Seq(Ids) /\ Len(k.targets) \in Nat
      /\ n = k.targets[k.at]
  <2>1. call[c].at \in 1 .. Len(call[c].targets)
    BY <1>3, TargetType DEF CallInv
  <2> QED
    BY <2>1 DEF CallType, Target
<1>6. PlaceOK(c)'
  BY <1>1, <1>4, <1>5 DEF PlaceOK, Waiting
<1>7. ReplyOK(c)'
  BY <1>4, SigApart DEF ReplyOK
<1>8. Tally(call[c])'
  BY <1>1, <1>4 DEF Tally, FirstOf
<1>9. PassedOK(c)'
  <2> SUFFICES ASSUME first(c)' # None, verify(first(c))', NEW i \in 1 .. Len(j.targets),
                      i < j.at \/ Over(c)', NEW t, t = j.targets[i], Sound(c, t)'
               PROVE  Contains(j.signers, signers[t])
    BY <1>4 DEF PassedOK
  <2>1. first(c)' = first(c)
    BY <1>1, <1>4 DEF first
  <2>2. first(c) # None /\ verify(first(c))
    BY <2>1 DEF verify
  <2>3. i \in 1 .. Len(call[c].targets) /\ t = call[c].targets[i]
    BY <1>1
  <2>4. i < call[c].at \/ i = call[c].at
    <3>1. i < j.at \/ j.pc = "assemble"
      BY <1>1, <1>4, <1>5 DEF Over
    <3> QED
      BY <1>1, <1>5, <3>1
  <2>5. CASE i < call[c].at
    <3>1. Sound(c, t)
      BY SoundShrinks
    <3>2. Contains(call[c].signers, signers[t])
      BY <1>3, <2>2, <2>3, <2>5, <3>1 DEF CallInv, PassedOK
    <3> QED
      BY <1>1, <3>2
  <2>6. CASE i = call[c].at
    <3>1. t = n
      BY <1>5, <2>3, <2>6
    <3> QED
      BY <1>1, <2>2, <3>1
  <2> QED
    BY <2>4, <2>5, <2>6
<1>10. CallInv(c)'
  BY <1>6, <1>7, <1>8, <1>9 DEF CallInv
<1>11. ASSUME NEW m \in requests, m.call = c PROVE RequestOK(m)'
  <2>1. RequestOK(m) /\ m.at \in Nat
    BY <1>3 DEF QuorumInv, Shape, Request
  <2>2. m.at <= k.at /\ k.at \in Nat
    BY <1>5, <1>11, <2>1 DEF RequestOK
  <2> QED
    BY <1>1, <1>4, <1>11, <2>1, <2>2 DEF RequestOK, Waiting
<1>12. /\ reply' \in [Calls -> {None, Refused} \cup Sig] /\ requests' \subseteq Request
       /\ \A d \in Calls : d # c => reply'[d] = reply[d]
  BY <1>3 DEF Shape
<1> QED
  BY <1>1, <1>2, <1>10, <1>11, <1>12, CallStep

LEMMA TryInv ==
    ASSUME QuorumInv, NEW c \in Calls, try_request(c)
    PROVE  QuorumInv'
<1>1. call[c].pc = "ask" /\ UNCHANGED <<reply, verifier, crashed, verified, struck>>
  BY DEF try_request
<1>2. CallInv(c) /\ Shape /\ call[c] \in CallType
  BY DEF QuorumInv, Shape
<1>3. reply[c] = None
  BY <1>1, <1>2 DEF CallInv, ReplyOK, Waiting
<1>4. PICK n : n = Target(c)
  OBVIOUS
<1>5. CASE n \notin Node /\ call' = [call EXCEPT ![c] = Advance(@)] /\ UNCHANGED requests
  <2>1. reply' = [reply EXCEPT ![c] = None]
    BY <1>1, <1>2, <1>3 DEF Shape
  <2>2. ~Sound(c, n)'
    BY <1>5, ClientsType DEF Sound
  <2>3. call' = [call EXCEPT ![c] = Advance(call[c])]
    BY <1>5
  <2>4. /\ struck' \in [Calls -> SUBSET Node] /\ struck[c] \subseteq struck'[c]
        /\ \A d \in Calls : d # c => struck'[d] = struck[d]
        /\ UNCHANGED <<requests, verifier, crashed, verified>> /\ Tally(call[c])
    BY <1>1, <1>2, <1>5 DEF Shape, CallInv
  <2> QED
    BY <1>1, <1>2, <1>4, <2>1, <2>2, <2>3, <2>4, AdvanceInv
<1>6. CASE /\ n \in Node
           /\ call' = [call EXCEPT ![c].pc = "wait"]
           /\ requests' = requests \cup {[call |-> c, at |-> call[c].at,
                                          server |-> node_clients[n], proof |-> first(c)]}
  <2> DEFINE k == [call[c] EXCEPT !.pc = "wait"]
  <2>0. PICK new : new = [call |-> c, at |-> call[c].at, server |-> node_clients[n],
                          proof |-> first(c)]
    OBVIOUS
  <2>1. /\ k \in CallType /\ k.pc = "wait" /\ k.proofs = call[c].proofs
        /\ k.targets = call[c].targets /\ k.at = call[c].at
        /\ k.node_ids = call[c].node_ids /\ k.signers = call[c].signers
    BY <1>2 DEF CallType
  <2>2. call' = [call EXCEPT ![c] = k]
    BY <1>6
  <2> HIDE DEF k
  <2>3. call'[c] = k
    BY <1>2, <2>2 DEF Shape
  <2>4. Target(c)' = n /\ first(c)' = first(c) /\ Waiting(c)'
    BY <1>4, <2>1, <2>3 DEF Target, first, Waiting
  <2>5. first(c) \in Proof \cup {None}
    BY <1>2, FirstIs, FirstType
  <2>6. new \in Request
    <3>1. call[c].at \in Nat
      BY <1>2 DEF CallType
    <3> QED
      BY <1>6, <2>0, <2>5, <3>1, ClientsType DEF Request
  <2>7. RequestOK(new)'
    <3>1. new.call = c /\ new.at = call[c].at /\ new.server = node_clients[n] /\ new.proof = first(c)
      BY <2>0
    <3>2. new.at <= k.at
      BY <1>2, <2>1, <3>1 DEF CallType
    <3> QED
      BY <2>1, <2>3, <2>4, <3>1, <3>2 DEF RequestOK
  <2>8. ASSUME NEW m \in requests, m.call = c PROVE RequestOK(m)'
    <3>1. RequestOK(m) /\ m.at # call[c].at /\ m.at <= call[c].at
      BY <1>1, <2>8 DEF QuorumInv, RequestOK
    <3> QED
      BY <2>1, <2>3, <2>8, <3>1 DEF RequestOK
  <2>9. PlaceOK(c)'
    BY <1>1, <1>2, <1>6, <2>1, <2>3, <2>4 DEF CallInv, PlaceOK
  <2>10. ReplyOK(c)'
    BY <1>1, <1>3, SigApart DEF ReplyOK
  <2>11. Tally(call[c])'
    BY <1>1, <1>2, <2>1, <2>3 DEF CallInv, Tally, FirstOf
  <2>12. PassedOK(c)'
    BY <1>1, <1>2, <2>1, <2>3, <2>4 DEF CallInv, PassedOK, Over, Sound, verify
  <2>13. CallInv(c)'
    BY <2>9, <2>10, <2>11, <2>12 DEF CallInv
  <2>14. requests' = requests \cup {new}
    BY <1>6, <2>0
  <2>15. /\ reply' \in [Calls -> {None, Refused} \cup Sig] /\ struck' \in [Calls -> SUBSET Node]
         /\ requests' \subseteq Request /\ UNCHANGED <<verifier, crashed, verified>>
         /\ \A d \in Calls : d # c => reply'[d] = reply[d] /\ struck'[d] = struck[d]
    BY <1>1, <1>2, <2>6, <2>14 DEF Shape
  <2>16. new.call = c
    BY <2>0
  <2>17. \A m \in requests' : m.call # c => m \in requests
    BY <2>14, <2>16
  <2>18. \A m \in requests' : m.call = c => RequestOK(m)'
    BY <2>7, <2>8, <2>14
  <2> QED
    BY <2>1, <2>2, <2>13, <2>15, <2>17, <2>18, CallStep
<1> QED
  BY <1>4, <1>5, <1>6 DEF try_request

LEMMA ReceiveInv ==
    ASSUME QuorumInv, NEW c \in Calls, Receive(c)
    PROVE  QuorumInv'
<1>1. /\ Waiting(c) /\ reply[c] # None /\ reply' = [reply EXCEPT ![c] = None]
      /\ call' = [call EXCEPT ![c] = Advance(IF reply[c] = Refused THEN call[c]
                                             ELSE Count(call[c], reply[c]))]
      /\ UNCHANGED <<requests, verifier, crashed, verified, struck>>
  BY DEF Receive
<1>2. CallInv(c) /\ Shape /\ call[c] \in CallType /\ call[c].pc \in {"ask", "wait"}
  BY <1>1 DEF QuorumInv, Shape, Waiting
<1>3. PICK n : n = Target(c)
  OBVIOUS
<1>4. Tally(call[c]) /\ ReplyOK(c) /\ \A x : Sound(c, x)' => Sound(c, x)
  BY <1>1, <1>2 DEF CallInv, Sound
<1>5. /\ struck' \in [Calls -> SUBSET Node] /\ struck[c] \subseteq struck'[c]
      /\ \A d \in Calls : d # c => struck'[d] = struck[d]
      /\ UNCHANGED <<requests, verifier, crashed, verified>>
  BY <1>1, <1>2 DEF Shape
<1>6. CASE reply[c] = Refused
  <2>1. ~(first(c) # None /\ verify(first(c)) /\ Sound(c, n)')
    BY <1>3, <1>4, <1>6 DEF ReplyOK, Sound
  <2>2. call' = [call EXCEPT ![c] = Advance(call[c])]
    BY <1>1, <1>6
  <2> QED
    BY <1>1, <1>2, <1>3, <1>4, <1>5, <2>1, <2>2, AdvanceInv
<1>7. CASE reply[c] # Refused
  <2>1. reply[c] \in Sig /\ call' = [call EXCEPT ![c] = Advance(Count(call[c], reply[c]))]
    BY <1>1, <1>2, <1>7 DEF Shape
  <2>2. node_clients[n] \notin Byzantine =>
          /\ first(c) # None
          /\ reply[c] = Signature(node_clients[n], first(c).proof_hash)
          /\ <<node_clients[n], first(c)>> \in verified
    BY <1>3, <1>4, <2>1 DEF ReplyOK
  <2>3. call[c].targets[call[c].at] = n
    BY <1>3 DEF Target
  <2>4. CASE Counted(call[c], reply[c], n)
    <3>1. n \in DOMAIN signers /\ ~Contains(call[c].signers, signers[n])
      BY <2>4 DEF Counted
    <3>2. PICK j : j = With(call[c], n)
      OBVIOUS
    <3>3. call' = [call EXCEPT ![c] = Advance(j)]
      BY <2>1, <2>3, <2>4, <3>2 DEF Count, With
    <3>4. node_clients[n] \notin Byzantine => <<node_clients[n], FirstOf(call[c])>> \in verified
      BY <2>2, FirstIs
    <3>5. /\ j \in CallType /\ Tally(j)
          /\ j.proofs = call[c].proofs /\ j.targets = call[c].targets /\ j.at = call[c].at
          /\ \A a : Contains(call[c].signers, a) => Contains(j.signers, a)
          /\ Contains(j.signers, signers[n])
      BY <1>2, <1>4, <3>1, <3>2, <3>4, TallyAppend
    <3> QED
      BY <1>1, <1>2, <1>3, <1>5, <3>3, <3>5, AdvanceInv
  <2>5. CASE ~Counted(call[c], reply[c], n)
    <3>1. call' = [call EXCEPT ![c] = Advance(call[c])]
      BY <2>1, <2>3, <2>5 DEF Count
    <3>2. ASSUME first(c) # None, Sound(c, n)' PROVE Contains(call[c].signers, signers[n])
      <4>1. Sound(c, n)
        BY <1>4, <3>2
      <4>2. reply[c] = Signature(node_clients[n], first(c).proof_hash)
        BY <2>2, <4>1 DEF Sound
      <4>3. call[c].proofs # <<>> /\ first(c) = Head(call[c].proofs)
        BY <3>2 DEF first
      <4>4. recover(reply[c], Head(call[c].proofs).proof_hash) = signers[n]
        BY <4>1, <4>2, <4>3 DEF recover, Signature, Sound
      <4> QED
        BY <2>5, <4>1, <4>3, <4>4 DEF Counted, Sound
    <3> QED
      BY <1>1, <1>2, <1>3, <1>4, <1>5, <3>1, <3>2, AdvanceInv
  <2> QED
    BY <2>4, <2>5
<1> QED
  BY <1>6, <1>7

LEMMA TimeoutInv ==
    ASSUME QuorumInv, NEW c \in Calls, Timeout(c)
    PROVE  QuorumInv'
<1>1. /\ Waiting(c) /\ reply' = [reply EXCEPT ![c] = None]
      /\ struck' = [struck EXCEPT ![c] = @ \cup {Target(c)}]
      /\ call' = [call EXCEPT ![c] = Advance(call[c])]
      /\ UNCHANGED <<requests, verifier, crashed, verified>>
  BY DEF Timeout
<1>2. CallInv(c) /\ Shape /\ call[c] \in CallType /\ call[c].pc \in {"ask", "wait"}
  BY <1>1 DEF QuorumInv, Shape, Waiting
<1>3. PICK n : n = Target(c)
  OBVIOUS
<1>4. n \in Node /\ Tally(call[c])
  BY <1>1, <1>2, <1>3 DEF CallInv, PlaceOK
<1>5. /\ struck' \in [Calls -> SUBSET Node] /\ struck[c] \subseteq struck'[c] /\ n \in struck'[c]
      /\ \A d \in Calls : d # c => struck'[d] = struck[d]
  BY <1>1, <1>2, <1>3, <1>4 DEF Shape
<1>6. ~Sound(c, n)'
  BY <1>5 DEF Sound
<1> QED
  BY <1>1, <1>2, <1>3, <1>4, <1>5, <1>6, AdvanceInv

LEMMA AssembleInv ==
    ASSUME QuorumInv, NEW c \in Calls, Assemble(c)
    PROVE  QuorumInv'
<1> DEFINE hash == hash_proofs(call[c].proofs)
           pc == IF is_sufficient(call[c]) THEN "attested" ELSE "insufficient"
           k == [call[c] EXCEPT !.proof_hash = hash, !.pc = pc]
<1>1. /\ call[c].pc = "assemble" /\ call' = [call EXCEPT ![c] = k]
      /\ UNCHANGED <<requests, reply, verifier, crashed, verified, struck>>
  BY DEF Assemble
<1>2. CallInv(c) /\ Shape /\ call[c] \in CallType
  BY DEF QuorumInv, Shape
<1>3. hash \in HashLists
  <2>1. call[c].proofs \in ProofSets \cup {<<>>}
    BY <1>2 DEF CallType
  <2>2. \A i \in DOMAIN call[c].proofs : call[c].proofs[i].proof_hash \in Hashes
    BY <2>1 DEF Hashes, Range
  <2>3. hash \in [DOMAIN call[c].proofs -> Hashes]
    BY <2>2 DEF hash_proofs
  <2> QED
    BY <2>1, <2>3 DEF HashLists
<1>4. /\ pc = "attested" => Len(call[c].signers) >= Required
      /\ pc = "insufficient" => Len(call[c].signers) < Required
      /\ pc \in {"attested", "insufficient"}
  BY <1>2 DEF is_sufficient, Required, CallType
<1> HIDE DEF pc, hash
<1>5. /\ k \in CallType /\ k.pc = pc /\ k.proofs = call[c].proofs
      /\ k.targets = call[c].targets /\ k.at = call[c].at
      /\ k.node_ids = call[c].node_ids /\ k.signers = call[c].signers
  BY <1>2, <1>3, <1>4 DEF CallType
<1> HIDE DEF k
<1>6. call'[c] = k /\ reply[c] = None /\ first(c)' = first(c)
  BY <1>1, <1>2, <1>5 DEF Shape, CallInv, ReplyOK, Waiting, first
<1>7. PlaceOK(c)'
  BY <1>2, <1>4, <1>5, <1>6 DEF CallInv, PlaceOK, Waiting
<1>8. ReplyOK(c)'
  BY <1>1, <1>6, SigApart DEF ReplyOK
<1>9. Tally(call[c])'
  BY <1>1, <1>2, <1>5, <1>6 DEF CallInv, Tally, FirstOf
<1>10. PassedOK(c)'
  BY <1>1, <1>2, <1>5, <1>6 DEF CallInv, PassedOK, Over, Sound, verify
<1>11. CallInv(c)'
  BY <1>7, <1>8, <1>9, <1>10 DEF CallInv
<1>12. ASSUME NEW m \in requests, m.call = c PROVE RequestOK(m)'
  BY <1>4, <1>5, <1>6, <1>12 DEF QuorumInv, RequestOK, Waiting
<1>13. /\ reply' \in [Calls -> {None, Refused} \cup Sig] /\ struck' \in [Calls -> SUBSET Node]
       /\ requests' \subseteq Request /\ UNCHANGED <<verifier, crashed, verified>>
       /\ \A d \in Calls : d # c => reply'[d] = reply[d] /\ struck'[d] = struck[d]
  BY <1>1, <1>2 DEF Shape
<1> QED
  BY <1>1, <1>5, <1>11, <1>12, <1>13, CallStep

LEMMA QuorumStep == QuorumInv /\ [Next]_vars => QuorumInv'
<1> SUFFICES ASSUME QuorumInv, [Next]_vars PROVE QuorumInv'
  OBVIOUS
<1>1. CASE \E c \in Calls : coordinate_attestation(c)
  BY <1>1, StartInv
<1>2. CASE \E c \in Calls : Coordinate(c)
  BY <1>2, TryInv, ReceiveInv, TimeoutInv, AssembleInv DEF Coordinate
<1>3. CASE \E m \in requests : request_attestation(m) \/ VerifierDies(m)
  BY <1>3, AttestInv, DiesInv
<1>4. CASE \E m \in requests, h \in Hashes : Lie(m, h)
  BY <1>4, LieInv
<1>5. CASE \E e \in Server : Restart(e)
  BY <1>5, RestartInv
<1>6. CASE UNCHANGED vars
  <2>1. \A c \in Calls : CallInv(c)'
    BY <1>6, CallFrame DEF QuorumInv, vars
  <2>2. \A m \in requests' : RequestOK(m)'
    BY <1>6, RequestFrame DEF QuorumInv, vars
  <2> QED
    BY <1>6, <2>1, <2>2 DEF QuorumInv, Shape, NodesOK, vars
<1> QED
  BY <1>1, <1>2, <1>3, <1>4, <1>5, <1>6 DEF Next
-----------------------------------------------------------------------------
(* What follows for every run.                                              *)

\* The coordinator's locals, the requests under way, the awaited answers and the
\* nodes' verifier threads keep their relation in every reachable state: the
\* inductive invariant of coordinate_attestation and the node server together.
THEOREM QuorumInvariant == Spec => []QuorumInv
BY QuorumInit, QuorumStep, PTL DEF Spec

\* The locals of coordinate_attestation, the answers and the nodes' state keep
\* their types.
THEOREM AttestationTypes == Spec => []AttestationTypeOK
<1>1. QuorumInv => AttestationTypeOK
  <2> SUFFICES ASSUME QuorumInv PROVE AttestationTypeOK
    OBVIOUS
  <2>1. Shape
    BY DEF QuorumInv
  <2>2. ASSUME NEW c \in Calls
        PROVE  /\ call[c].pc \in {"idle", "ask", "wait", "assemble", "attested", "insufficient"}
               /\ call[c].proofs \in ProofSets \cup {<<>>}
               /\ call[c].targets \in Seq(Node \cup {Ghost})
               /\ call[c].at \in 0 .. Len(call[c].targets)
               /\ call[c].node_ids \in Seq(Node) /\ call[c].signers \in Seq(Range(signers))
               /\ Len(call[c].node_ids) = Len(call[c].signers)
               /\ struck[c] \subseteq Node
               /\ reply[c] \in {None, Refused} \cup [by : Range(signingKey), over : Hashes]
    <3>1. call[c] \in CallType /\ CallInv(c) /\ struck[c] \subseteq Node
      BY <2>1 DEF QuorumInv, Shape
    <3>2. reply[c] \in {None, Refused} \cup [by : Range(signingKey), over : Hashes]
      BY <2>1 DEF Shape, Sig
    <3> QED
      BY <3>1, <3>2 DEF CallType, CallInv, PlaceOK, Tally, Ids
  <2>3. \A m \in requests : m.call \in Calls /\ m.server \in Server
    BY <2>1 DEF Shape, Request
  <2> QED
    BY <2>1, <2>2, <2>3 DEF AttestationTypeOK, Shape
<1> QED
  BY <1>1, QuorumInvariant, PTL

LEMMA RangeCount ==
    ASSUME NEW T, NEW s \in Seq(T)
    PROVE  /\ IsFiniteSet(Range(s)) /\ Cardinality(Range(s)) <= Len(s)
           /\ (\A i, j \in 1 .. Len(s) : s[i] = s[j] => i = j) => Cardinality(Range(s)) = Len(s)
<1> DEFINE n == Len(s)
<1>1. n \in Nat /\ DOMAIN s = 1 .. n
  OBVIOUS
<1>2. s \in Surjection(1 .. n, Range(s))
  BY <1>1 DEF Surjection, Range
<1> HIDE DEF n
<1>3. IsFiniteSet(1 .. n) /\ Cardinality(1 .. n) = n
  BY <1>1, UpTo
<1>4. /\ IsFiniteSet(Range(s)) /\ Cardinality(Range(s)) <= n
      /\ Cardinality(Range(s)) = n <=> s \in Injection(1 .. n, Range(s))
  BY <1>2, <1>3, FS_Surjection
<1>5. (\A i, j \in 1 .. n : s[i] = s[j] => i = j) => s \in Injection(1 .. n, Range(s))
  BY <1>1, <1>2 DEF Injection, IsInjective, Surjection
<1> QED
  BY <1>4, <1>5 DEF n

LEMMA EarnedQuorum == QuorumInv => QuorumIsEarned
<1> SUFFICES ASSUME QuorumInv, NEW c \in Calls, call[c].pc = "attested"
             PROVE  /\ Cardinality(Range(call[c].signers)) >= Required
                    /\ \A i \in DOMAIN call[c].node_ids :
                          LET n == call[c].node_ids[i]
                          IN  /\ call[c].signers[i] = signers[n]
                              /\ node_clients[n] \notin Byzantine =>
                                    <<node_clients[n], first(c)>> \in verified
  BY DEF QuorumIsEarned
<1>1. /\ call[c].signers \in Seq(Range(signers)) /\ call[c].node_ids \in Seq(Node)
      /\ PlaceOK(c) /\ Tally(call[c])
  BY DEF QuorumInv, Shape, CallType, CallInv
<1>2. Cardinality(Range(call[c].signers)) = Len(call[c].signers)
  BY <1>1, RangeCount DEF Tally
<1>3. Len(call[c].signers) >= Required
  BY <1>1 DEF PlaceOK
<1>4. DOMAIN call[c].node_ids = 1 .. Len(call[c].node_ids)
  BY <1>1
<1> QED
  BY <1>1, <1>2, <1>3, <1>4, FirstIs DEF Tally

\* coordinate_attestation's promise for any number of calls and nodes: what it
\* attests was signed by three different registered addresses, and every honest
\* node among them ran RandomX on this session's first proof and confirmed it.
THEOREM QuorumEarned == Spec => []QuorumIsEarned
BY EarnedQuorum, QuorumInvariant, PTL

\* With the addresses registered for Byzantine servers fewer than the quorum, the
\* first proof of a session that coordinate_attestation attests is genuine: its
\* input hashes to the claimed hash and meets its difficulty.  Nothing is said of
\* the later proofs, which no node is sent.
THEOREM FirstProofGenuine ==
    ASSUME FewLiars
    PROVE  Spec => []FirstProofIsGenuine
<1>1. QuorumInv => FirstProofIsGenuine
  <2> SUFFICES ASSUME QuorumInv, NEW c \in Calls, call[c].pc = "attested"
               PROVE  first(c) # None /\ verify(first(c))
    BY DEF FirstProofIsGenuine
  <2> DEFINE liars == {signers[n] : n \in {x \in DOMAIN signers : node_clients[x] \in Byzantine}}
             s == call[c].signers
  <2>1. IsFiniteSet(liars) /\ Cardinality(liars) < Required
    BY DEF FewLiars
  <2>2. /\ s \in Seq(Range(signers)) /\ Len(call[c].node_ids) = Len(s) /\ Tally(call[c])
    BY DEF QuorumInv, Shape, CallType, CallInv, Tally
  <2>3. Cardinality(Range(s)) >= Required
    BY EarnedQuorum DEF QuorumIsEarned
  <2>4. ~(Range(s) \subseteq liars)
    <3> SUFFICES ASSUME Range(s) \subseteq liars PROVE FALSE
      OBVIOUS
    <3> HIDE DEF s, liars
    <3>1. Cardinality(Range(s)) <= Cardinality(liars)
      BY <2>1, FS_Subset
    <3>2. IsFiniteSet(Range(s))
      BY <2>2, RangeCount
    <3>3. Cardinality(Range(s)) \in Nat /\ Cardinality(liars) \in Nat
      BY <2>1, <3>2, FS_CardinalityType
    <3> QED
      BY <2>1, <2>3, <3>1, <3>3 DEF Required
  <2>5. PICK i \in 1 .. Len(s) : s[i] \notin liars
    BY <2>2, <2>4 DEF Range
  <2>6. PICK n : n = call[c].node_ids[i]
    OBVIOUS
  <2>7. n \in DOMAIN signers /\ s[i] = signers[n]
    BY <2>2, <2>6 DEF Tally
  <2>8. node_clients[n] \notin Byzantine
    BY <2>5, <2>7
  <2>9. <<node_clients[n], first(c)>> \in verified
    BY <2>2, <2>6, <2>8, FirstIs DEF Tally
  <2> QED
    BY <2>9, HashesNat DEF QuorumInv, Shape, NodesOK
<1> QED
  BY <1>1, QuorumInvariant, PTL

\* A genuine proof is turned down by coordinate_attestation only when fewer than
\* three different sound signers were among the nodes asked, whatever the others
\* did and in whatever order the answers, timeouts and crashes came.
THEOREM OneBadNode == Spec => []OneBadNodeTolerated
<1>1. QuorumInv => OneBadNodeTolerated
  <2> SUFFICES ASSUME QuorumInv, NEW c \in Calls, call[c].pc = "insufficient",
                      call[c].proofs # <<>>, verify(first(c))
               PROVE  Cardinality({signers[n] : n \in {t \in Range(call[c].targets) : Sound(c, t)}})
                        < Required
    BY DEF OneBadNodeTolerated
  <2> DEFINE sound == {signers[n] : n \in {t \in Range(call[c].targets) : Sound(c, t)}}
             s == call[c].signers
  <2>1. /\ s \in Seq(Range(signers)) /\ call[c].targets \in Seq(Ids) /\ call[c] \in CallType
        /\ PlaceOK(c) /\ PassedOK(c)
    BY DEF QuorumInv, Shape, CallType, CallInv
  <2>2. first(c) # None /\ Over(c)
    BY <2>1, FirstIs, FirstType DEF Over
  <2>3. ASSUME NEW i \in 1 .. Len(call[c].targets), Sound(c, call[c].targets[i])
        PROVE  Contains(s, signers[call[c].targets[i]])
    BY <2>1, <2>2, <2>3 DEF PassedOK
  <2>4. sound \subseteq Range(s)
    <3> SUFFICES ASSUME NEW t \in Range(call[c].targets), Sound(c, t)
                 PROVE  signers[t] \in Range(s)
      OBVIOUS
    <3>1. PICK i \in 1 .. Len(call[c].targets) : t = call[c].targets[i]
      BY <2>1 DEF Range
    <3>2. Contains(s, signers[t])
      BY <2>3, <3>1
    <3> QED
      BY <2>1, <3>2 DEF Contains, Range
  <2>5. Len(s) < Required /\ Len(s) \in Nat
    BY <2>1 DEF PlaceOK
  <2> HIDE DEF s, sound
  <2>6. IsFiniteSet(Range(s)) /\ Cardinality(Range(s)) <= Len(s)
    BY <2>1, RangeCount
  <2>7. IsFiniteSet(sound) /\ Cardinality(sound) <= Cardinality(Range(s))
    BY <2>4, <2>6, FS_Subset
  <2>8. Cardinality(Range(s)) \in Nat /\ Cardinality(sound) \in Nat
    BY <2>6, <2>7, FS_CardinalityType
  <2>9. Cardinality(sound) < Required
    BY <2>5, <2>6, <2>7, <2>8 DEF Required
  <2> QED
    BY <2>9 DEF sound
<1> QED
  BY <1>1, QuorumInvariant, PTL
=============================================================================
