------------------------ MODULE MiningContractProofs ------------------------
(***************************************************************************)
(* Proofs about the mint contract for any accounts, sessions, proposal ids *)
(* and any values of the delay, the quorum and the signer limit.           *)
(***************************************************************************)
EXTENDS MiningContract, SumTheorems, TLAPS

\* The endorsers of any terms are a finite set of accounts.
LEMMA EndorsersFinite ==
    ASSUME NEW log, NEW pid, NEW terms
    PROVE  /\ IsFiniteSet(Endorsers(log, pid, terms))
           /\ Cardinality(Endorsers(log, pid, terms)) \in Nat
  BY MiningAssumption, FS_Subset, FS_CardinalityType DEF Endorsers

\* Writing one field of one proposal: what the mapping is afterwards.
LEMMA FieldUpdates ==
    ASSUME NEW f \in [ProposalIds -> MintProposal], NEW pid \in ProposalIds
    PROVE  /\ [f EXCEPT ![pid].approvals = @ + 1] \in [ProposalIds -> MintProposal]
           /\ [f EXCEPT ![pid].executed = TRUE] \in [ProposalIds -> MintProposal]
           /\ [f EXCEPT ![pid].cancelled = TRUE] \in [ProposalIds -> MintProposal]
<1>1. [f EXCEPT ![pid].approvals = @ + 1] \in [ProposalIds -> MintProposal]
  BY DEF MintProposal
<1>2. [f EXCEPT ![pid].executed = TRUE] \in [ProposalIds -> MintProposal]
  BY DEF MintProposal
<1>3. [f EXCEPT ![pid].cancelled = TRUE] \in [ProposalIds -> MintProposal]
  BY DEF MintProposal
<1> QED
  BY <1>1, <1>2, <1>3

\* Approving, executing and cancelling leave the terms of every proposal alone.
LEMMA SameTerms ==
    ASSUME NEW f \in [ProposalIds -> MintProposal], NEW pid \in ProposalIds,
           NEW g,
           \/ g = [f EXCEPT ![pid].approvals = @ + 1]
           \/ g = [f EXCEPT ![pid].executed = TRUE]
           \/ g = [f EXCEPT ![pid].cancelled = TRUE]
    PROVE  \A q \in ProposalIds :
               /\ g[q].sessionId = f[q].sessionId
               /\ g[q].recipient = f[q].recipient
               /\ g[q].amount = f[q].amount
               /\ g[q].proposedAt = f[q].proposedAt
  BY DEF MintProposal

\* A call of the token that succeeds keeps its types and its books: a burn takes
\* from the supply no more than the accounts hold together.
LEMMA TokenCalls ==
    ASSUME TokenTypeOK, BooksClosed, NEW caller \in Accounts, NEW account \in Accounts,
           NEW amount \in Nat,
           \/ Transfer(caller, account, amount)
           \/ Mint(caller, account, amount)
           \/ Burn(caller, account, amount)
    PROVE  TokenTypeOK' /\ BooksClosed'
<1> DEFINE Total(f) == SumFunctionOnSet(f, Accounts)
<1>1. /\ IsFiniteSet(Accounts) /\ minter \in Accounts \cup {ZeroAddress}
      /\ burner \in Accounts \cup {ZeroAddress} /\ totalSupply \in Nat
      /\ balanceOf \in [Accounts -> Nat] /\ issued \in [Accounts -> Nat]
      /\ retired \in [Accounts -> Nat] /\ UNCHANGED <<minter, burner>>
  BY MiningAssumption DEF TokenTypeOK, Transfer, Mint, Burn
<1>2. /\ balanceOf \in [Accounts -> Int] /\ issued \in [Accounts -> Int]
      /\ retired \in [Accounts -> Int] /\ amount \in Int /\ -amount \in Int
  BY <1>1
<1>3. totalSupply = Total(balanceOf) /\ totalSupply + Total(retired) = Total(issued)
  BY DEF BooksClosed
<1>4. Total(retired) \in Int /\ Total(issued) \in Int
  <2>1. \A a \in Accounts : retired[a] \in Int /\ issued[a] \in Int
    BY <1>2
  <2> QED
    BY <1>1, <2>1, SumType
<1>5. CASE Transfer(caller, account, amount)
  <2>1. /\ amount <= balanceOf[caller] /\ UNCHANGED <<totalSupply, issued, retired>>
        /\ balanceOf' = [a \in Accounts |-> balanceOf[a]
               + (IF a = account THEN amount ELSE 0) - (IF a = caller THEN amount ELSE 0)]
    BY <1>5 DEF Transfer
  <2>2. balanceOf' \in [Accounts -> Nat]
    BY <1>1, <2>1
  <2>3. \A a \in Accounts : balanceOf[a] \in Int
    BY <1>2
  <2>4. Total(balanceOf') = Total(balanceOf)
    <3>1. CASE caller = account
      <4>1. \A a \in Accounts : balanceOf'[a] = balanceOf[a]
        BY <1>1, <2>1, <3>1
      <4> QED
        BY <1>1, <4>1, SumSame
    <3>2. CASE caller # account
      <4>1. /\ balanceOf'[caller] = balanceOf[caller] - amount
            /\ balanceOf'[account] = balanceOf[account] + amount
            /\ \A a \in Accounts : a # caller /\ a # account => balanceOf'[a] = balanceOf[a]
        BY <1>1, <2>1, <3>2
      <4> QED
        BY <1>1, <1>2, <2>3, <3>2, <4>1, SumMove
    <3> QED
      BY <3>1, <3>2
  <2> QED
    BY <1>1, <1>3, <2>1, <2>2, <2>4 DEF TokenTypeOK, BooksClosed
<1>6. CASE Mint(caller, account, amount)
  <2>1. /\ balanceOf' = [balanceOf EXCEPT ![account] = balanceOf[account] + amount]
        /\ issued' = [issued EXCEPT ![caller] = issued[caller] + amount]
        /\ totalSupply' = totalSupply + amount /\ retired' = retired
    BY <1>6 DEF Mint
  <2>2. balanceOf' \in [Accounts -> Nat] /\ issued' \in [Accounts -> Nat] /\ totalSupply' \in Nat
    BY <1>1, <2>1
  <2>3. Total(balanceOf') = Total(balanceOf) + amount /\ Total(issued') = Total(issued) + amount
    <3>1. /\ \A a \in Accounts : balanceOf[a] \in Int
          /\ \A a \in Accounts : issued[a] \in Int
          /\ balanceOf'[account] = balanceOf[account] + amount
          /\ issued'[caller] = issued[caller] + amount
          /\ \A a \in Accounts : a # account => balanceOf'[a] = balanceOf[a]
          /\ \A a \in Accounts : a # caller => issued'[a] = issued[a]
      BY <1>2, <2>1
    <3>2. balanceOf'[account] \in Int /\ issued'[caller] \in Int
      BY <2>2
    <3>3. Total(balanceOf') = Total(balanceOf) - balanceOf[account] + balanceOf'[account]
      BY <1>1, <3>1, <3>2, SumChange
    <3>4. Total(issued') = Total(issued) - issued[caller] + issued'[caller]
      BY <1>1, <3>1, <3>2, SumChange
    <3> QED
      BY <1>1, <1>3, <1>4, <3>1, <3>2, <3>3, <3>4
  <2>4. totalSupply' + Total(retired) = Total(issued) + amount
    BY <1>1, <1>3, <1>4, <2>1
  <2> QED
    BY <1>1, <1>3, <2>1, <2>2, <2>3, <2>4 DEF TokenTypeOK, BooksClosed
<1>7. CASE Burn(caller, account, amount)
  <2>1. /\ balanceOf' = [balanceOf EXCEPT ![account] = balanceOf[account] - amount]
        /\ retired' = [retired EXCEPT ![caller] = retired[caller] + amount]
        /\ totalSupply' = totalSupply - amount /\ issued' = issued
        /\ amount <= balanceOf[account]
    BY <1>7 DEF Burn
  <2>2. balanceOf' \in [Accounts -> Nat] /\ retired' \in [Accounts -> Nat]
    BY <1>1, <2>1
  <2>3. /\ \A a \in Accounts : balanceOf[a] \in Int
        /\ \A a \in Accounts : retired[a] \in Int
        /\ balanceOf'[account] = balanceOf[account] + (-amount)
        /\ retired'[caller] = retired[caller] + amount
        /\ \A a \in Accounts : a # account => balanceOf'[a] = balanceOf[a]
        /\ \A a \in Accounts : a # caller => retired'[a] = retired[a]
    BY <1>2, <2>1
  <2>4. Total(balanceOf') = Total(balanceOf) + (-amount)
    <3>1. balanceOf'[account] \in Int
      BY <2>2
    <3>2. Total(balanceOf') = Total(balanceOf) - balanceOf[account] + balanceOf'[account]
      BY <1>1, <2>3, <3>1, SumChange
    <3> QED
      BY <1>1, <1>2, <1>3, <2>3, <3>2
  <2>5. Total(retired') = Total(retired) + amount
    <3>1. retired'[caller] \in Int
      BY <2>2
    <3>2. Total(retired') = Total(retired) - retired[caller] + retired'[caller]
      BY <1>1, <2>3, <3>1, SumChange
    <3> QED
      BY <1>1, <1>2, <1>4, <2>3, <3>2
  <2>6. Total(balanceOf') \in Nat
    BY <1>1, <2>2, SumNat
  <2>7. totalSupply' = Total(balanceOf')
    BY <1>1, <1>3, <2>1, <2>4
  <2>8. totalSupply' + Total(retired') = Total(issued)
    BY <1>1, <1>3, <1>4, <2>1, <2>5
  <2> QED
    BY <1>1, <2>1, <2>2, <2>6, <2>7, <2>8 DEF TokenTypeOK, BooksClosed
<1> QED
  BY <1>5, <1>6, <1>7

\* A token nobody used has its books closed.
LEMMA BooksClosedInit ==
    ASSUME totalSupply = 0, balanceOf = [a \in Accounts |-> 0],
           issued = [a \in Accounts |-> 0], retired = [a \in Accounts |-> 0]
    PROVE  BooksClosed
<1> DEFINE zero == [a \in Accounts |-> 0]
<1>1. \A a \in Accounts : zero[a] = IF a \in {} THEN 0 ELSE 0
  OBVIOUS
<1>2. balanceOf = zero /\ issued = zero /\ retired = zero
  OBVIOUS
<1> HIDE DEF zero
<1>3. SumFunctionOnSet(zero, Accounts) = 0 * Cardinality({})
  BY <1>1, MiningAssumption, SumUniform
<1>4. SumFunctionOnSet(zero, Accounts) = 0
  BY <1>3, FS_EmptySet
<1> QED
  BY <1>2, <1>4 DEF BooksClosed

\* The contract starts in the inductive invariant: no signers, no proposals,
\* empty logs.
LEMMA InitInv == Init => MiningInv
<1> SUFFICES ASSUME Init PROVE MiningInv
  OBVIOUS
<1> USE AccountsAssumption, MiningAssumption
<1>1. TypeOK
  BY DEF Init, TokenInit, TypeOK, TokenTypeOK, EmptyProposal, MintProposal,
         BlockNumbers
<1>2. SignerCountExact
  BY FS_EmptySet DEF Init, SignerCountExact
<1>3. ProposalsWellFormed /\ FlagsRemember /\ SessionMintedOnce
      /\ MintsEndorsedAndTimelocked
  BY DEF Init, ProposalsWellFormed, EmptyProposal, FlagsRemember,
         SessionMintedOnce, MintsEndorsedAndTimelocked
<1>4. ApprovalsBacked
  BY EndorsersFinite DEF Init, ApprovalsBacked, EmptyProposal
<1>5. BooksClosed
  BY BooksClosedInit DEF Init, TokenInit
<1> QED
  BY <1>1, <1>2, <1>3, <1>4, <1>5 DEF MiningInv

\* The token's part of a step of the system: a call of the token by the contract
\* or by others, a new minter or burner, or nothing.
LEMMA TokenPreserved ==
    ASSUME TypeOK, BooksClosed, ProposalsWellFormed, Next
    PROVE  TokenTypeOK' /\ BooksClosed'
<1>0. TokenTypeOK /\ MiningAddress \in Accounts /\ Amounts \subseteq Nat
      /\ Minters \subseteq Accounts \cup {ZeroAddress}
  BY MiningAssumption DEF TypeOK
<1>1. CASE UNCHANGED books /\ minter' \in Accounts \cup {ZeroAddress}
                          /\ burner' \in Accounts \cup {ZeroAddress}
  BY <1>0, <1>1 DEF TokenTypeOK, BooksClosed, books
<1>2. CASE UNCHANGED tokenVars
  BY <1>0, <1>1, <1>2 DEF tokenVars, TokenTypeOK
<1>3. ASSUME NEW a \in Minters, ChangeMinter(a) \/ ChangeBurner(a)
      PROVE  TokenTypeOK' /\ BooksClosed'
  BY <1>0, <1>1, <1>3 DEF ChangeMinter, ChangeBurner, SetMinter, SetBurner, TokenTypeOK
<1>4. ASSUME NEW a \in Accounts, NEW amount \in Amounts, TokenMoves(a, amount)
      PROVE  TokenTypeOK' /\ BooksClosed'
  BY <1>0, <1>4, TokenCalls DEF TokenMoves, OutsideCall
<1>5. ASSUME NEW pid \in ProposalIds, ExecuteMint(pid) PROVE TokenTypeOK' /\ BooksClosed'
  <2>1. proposals[pid].recipient \in Accounts /\ proposals[pid].amount \in Nat
    BY <1>5 DEF ExecuteMint, Executable, ProposalsWellFormed, TypeOK, MintProposal
  <2>2. Mint(MiningAddress, proposals[pid].recipient, proposals[pid].amount)
    BY <1>5 DEF ExecuteMint
  <2> QED
    BY <1>0, <2>1, <2>2, TokenCalls
<1> QED
  BY <1>2, <1>3, <1>4, <1>5 DEF Next, AddSigner, RemoveSigner, SetMintCeiling, ProposeMint,
     ApproveMint, CancelMint, NewBlock

\* Every transaction of the contract keeps its variables in their types.
LEMMA TypePreserved ==
    ASSUME TypeOK, BooksClosed, ProposalsWellFormed, SignerCountExact, Next
    PROVE  TypeOK'
<1>0. TokenTypeOK'
  BY TokenPreserved
<1> USE AccountsAssumption, MiningAssumption DEF TypeOK, contractVars
<1>1. ASSUME NEW a \in Candidates, AddSigner(a) PROVE TypeOK'
  BY <1>0, <1>1 DEF AddSigner
<1>2. ASSUME NEW a \in Candidates, RemoveSigner(a) PROVE TypeOK'
  <2>1. IsFiniteSet(isSigner)
    BY FS_Subset
  <2>2. signerCount # 0
    BY <1>2, <2>1, FS_EmptySet DEF RemoveSigner, SignerCountExact
  <2> QED
    BY <1>0, <1>2, <2>2 DEF RemoveSigner
<1>3. CASE UNCHANGED <<contractVars, block, mintLog, approvalLog>>
  BY <1>0, <1>3
<1>4. ASSUME NEW c \in Ceilings, SetMintCeiling(c) PROVE TypeOK'
  BY <1>0, <1>4 DEF SetMintCeiling
<1>5. ASSUME NEW pid \in ProposalIds, NEW sid \in Sessions, NEW to \in Recipients,
             NEW amount \in Amounts, ProposeMint(pid, sid, to, amount)
      PROVE  TypeOK'
  <2>1. proposals' \in [ProposalIds -> MintProposal]
    BY <1>5 DEF ProposeMint, MintProposal
  <2> QED
    BY <1>0, <1>5, <2>1 DEF ProposeMint
<1>6. ASSUME NEW a \in Accounts, NEW pid \in ProposalIds, ApproveMint(a, pid)
      PROVE  TypeOK'
  <2>1. proposals' \in [ProposalIds -> MintProposal]
    BY <1>6, FieldUpdates DEF ApproveMint
  <2>2. Terms(proposals[pid]) \in TermsType
    BY DEF Terms, TermsType, MintProposal
  <2>3. approvalLog' \subseteq [pid : ProposalIds, signer : Accounts, terms : TermsType]
    BY <1>6, <2>2 DEF ApproveMint
  <2> QED
    BY <1>0, <1>6, <2>1, <2>3 DEF ApproveMint
<1>7. ASSUME NEW pid \in ProposalIds, ExecuteMint(pid) PROVE TypeOK'
  <2>1. /\ proposals[pid] \in MintProposal
        /\ proposals[pid].sessionId \in Sessions
        /\ proposals[pid].recipient \in Accounts
        /\ proposals[pid].amount \in Nat
    BY <1>7 DEF ExecuteMint, Executable, ProposalsWellFormed, MintProposal
  <2>2. proposals' \in [ProposalIds -> MintProposal]
    BY <1>7, FieldUpdates DEF ExecuteMint
  <2>3. Terms(proposals[pid]) \in TermsType
    BY <2>1 DEF Terms, TermsType, MintProposal
  <2>4. mintLog' \in Seq([pid : ProposalIds, terms : TermsType,
                          block : BlockNumbers, at : Nat, ceiling : Nat])
    BY <1>7, <2>3 DEF ExecuteMint
  <2>5. mintedInBlock' \in [BlockNumbers -> Nat]
    <3>1. mintedInBlock' = [mintedInBlock EXCEPT ![block.number] = @ + proposals[pid].amount]
      BY <1>7 DEF ExecuteMint
    <3>2. block.number \in BlockNumbers
      OBVIOUS
    <3> QED
      BY <2>1, <3>1, <3>2
  <2> QED
    BY <1>0, <1>7, <2>1, <2>2, <2>4, <2>5 DEF ExecuteMint
<1>8. ASSUME NEW pid \in ProposalIds, CancelMint(pid) PROVE TypeOK'
  BY <1>0, <1>8, FieldUpdates DEF CancelMint
<1>9. CASE NewBlock
  <2>1. block' \in [number : BlockNumbers, timestamp : Nat \ {0}]
    BY <1>9 DEF NewBlock, BlockNumbers
  <2> QED
    BY <1>0, <1>9, <2>1 DEF NewBlock
<1> QED
  BY <1>1, <1>2, <1>3, <1>4, <1>5, <1>6, <1>7, <1>8, <1>9
     DEF Next, ChangeMinter, ChangeBurner, TokenMoves

\* Endorsements only grow with the log.
LEMMA EndorsersGrow ==
    ASSUME NEW log, NEW log2, log \subseteq log2, NEW pid, NEW terms
    PROVE  Cardinality(Endorsers(log, pid, terms)) <= Cardinality(Endorsers(log2, pid, terms))
<1>1. Endorsers(log, pid, terms) \subseteq Endorsers(log2, pid, terms)
  BY DEF Endorsers
<1> QED
  BY <1>1, EndorsersFinite, FS_Subset

\* An account that was no endorser raises the number of endorsers by one.
LEMMA NewEndorser ==
    ASSUME NEW log, NEW pid, NEW terms, NEW a \in Accounts,
           a \notin Endorsers(log, pid, terms)
    PROVE  Cardinality(Endorsers(log \cup {[pid |-> pid, signer |-> a, terms |-> terms]},
                                 pid, terms))
               = Cardinality(Endorsers(log, pid, terms)) + 1
<1>1. Endorsers(log \cup {[pid |-> pid, signer |-> a, terms |-> terms]}, pid, terms)
         = Endorsers(log, pid, terms) \cup {a}
  BY DEF Endorsers
<1> QED
  BY <1>1, EndorsersFinite, FS_AddElement

\* Every transaction keeps the number of signers exact.
LEMMA SignerCountPreserved ==
    ASSUME TypeOK, SignerCountExact, Next
    PROVE  SignerCountExact'
<1> USE MiningAssumption DEF SignerCountExact
<1>0. IsFiniteSet(isSigner) /\ isSigner \subseteq Accounts /\ signerCount \in Nat
  BY FS_Subset DEF TypeOK
<1>1. ASSUME NEW a \in Candidates, AddSigner(a) PROVE SignerCountExact'
  <2>1. /\ a \notin isSigner /\ isSigner' = isSigner \cup {a}
        /\ signerCount < TOTAL_SIGNERS /\ signerCount' = signerCount + 1
    BY <1>1 DEF AddSigner
  <2>2. Cardinality(isSigner \cup {a}) = Cardinality(isSigner) + 1
    BY <1>0, <2>1, FS_AddElement
  <2> QED
    BY <1>0, <2>1, <2>2
<1>2. ASSUME NEW a \in Candidates, RemoveSigner(a) PROVE SignerCountExact'
  <2>1. /\ a \in isSigner /\ isSigner' = isSigner \ {a}
        /\ signerCount' = signerCount - 1
    BY <1>2 DEF RemoveSigner
  <2>2. Cardinality(isSigner \ {a}) = Cardinality(isSigner) - 1
    BY <1>0, <2>1, FS_RemoveElement
  <2> QED
    BY <1>0, <2>1, <2>2
<1>3. CASE UNCHANGED <<isSigner, signerCount>>
  BY <1>3
<1> QED
  BY <1>1, <1>2, <1>3 DEF Next, ChangeMinter, ChangeBurner, TokenMoves, SetMintCeiling, ProposeMint,
     ApproveMint, ExecuteMint, CancelMint, NewBlock, contractVars

\* Every transaction keeps the proposals well formed: only proposeMint writes
\* a session or a recipient, and it checked the recipient.
LEMMA WellFormedPreserved ==
    ASSUME TypeOK, ProposalsWellFormed, Next
    PROVE  ProposalsWellFormed'
<1> USE AccountsAssumption, MiningAssumption DEF ProposalsWellFormed
<1>0. proposals \in [ProposalIds -> MintProposal]
  BY DEF TypeOK
<1>1. ASSUME NEW pid \in ProposalIds, NEW sid \in Sessions, NEW to \in Recipients,
             NEW amount \in Amounts, ProposeMint(pid, sid, to, amount)
      PROVE  ProposalsWellFormed'
  <2>1. to \in Accounts
    BY <1>1 DEF ProposeMint
  <2>2. proposals' = [proposals EXCEPT ![pid] =
           [sessionId |-> sid, recipient |-> to, amount |-> amount,
            proposedAt |-> block.timestamp, approvals |-> 0,
            executed |-> FALSE, cancelled |-> FALSE]]
    BY <1>1 DEF ProposeMint
  <2> QED
    BY <1>0, <2>1, <2>2
<1>2. ASSUME NEW a \in Accounts, NEW pid \in ProposalIds, ApproveMint(a, pid)
      PROVE  ProposalsWellFormed'
  BY <1>0, <1>2, SameTerms DEF ApproveMint, Terms
<1>3. ASSUME NEW pid \in ProposalIds, ExecuteMint(pid) PROVE ProposalsWellFormed'
  BY <1>0, <1>3, SameTerms DEF ExecuteMint, Terms
<1>4. ASSUME NEW pid \in ProposalIds, CancelMint(pid) PROVE ProposalsWellFormed'
  BY <1>0, <1>4, SameTerms DEF CancelMint, Terms
<1>5. CASE UNCHANGED proposals
  BY <1>5
<1> QED
  BY <1>1, <1>2, <1>3, <1>4, <1>5 DEF Next, AddSigner, RemoveSigner, ChangeMinter, ChangeBurner, TokenMoves,
     SetMintCeiling, NewBlock, contractVars

\* A step either leaves mintLog, sessionMinted and the token alone, or it is the
\* execution of one proposal.
LEMMA LogGrowsOnlyByExecution ==
    ASSUME Next, mintLog' # mintLog \/ sessionMinted' # sessionMinted
    PROVE  \E pid \in ProposalIds : ExecuteMint(pid)
  BY DEF Next, AddSigner, RemoveSigner, ChangeMinter, ChangeBurner, TokenMoves, SetMintCeiling, ProposeMint,
         ApproveMint, CancelMint, NewBlock, contractVars

\* What an execution appends to the event history: every entry is an old one or
\* the execution's own.
LEMMA ExecutionAppends ==
    ASSUME TypeOK, NEW pid \in ProposalIds, ExecuteMint(pid),
           NEW i \in DOMAIN mintLog'
    PROVE  \/ i \in DOMAIN mintLog /\ mintLog'[i] = mintLog[i]
           \/ /\ i = Len(mintLog') /\ i = Len(mintLog) + 1
              /\ mintLog'[i].pid = pid
              /\ mintLog'[i].terms = Terms(proposals[pid])
              /\ mintLog'[i].terms.sessionId = proposals[pid].sessionId
              /\ mintLog'[i].terms.proposedAt = proposals[pid].proposedAt
              /\ mintLog'[i].at = block.timestamp
<1> DEFINE T == [pid : ProposalIds, terms : TermsType, block : BlockNumbers,
                 at : Nat, ceiling : Nat]
           e == [pid |-> pid, terms |-> Terms(proposals[pid]), block |-> block.number,
                  at |-> block.timestamp, ceiling |-> mintCeilingPerBlock]
<1>1. mintLog \in Seq(T)
  BY DEF TypeOK
<1>2. mintLog' = Append(mintLog, e)
  BY DEF ExecuteMint
<1>3. /\ e.pid = pid /\ e.terms = Terms(proposals[pid]) /\ e.at = block.timestamp
      /\ e.terms.sessionId = proposals[pid].sessionId
      /\ e.terms.proposedAt = proposals[pid].proposedAt
  BY DEF Terms
<1> HIDE DEF T, e
<1>4. \/ i \in DOMAIN mintLog /\ mintLog'[i] = mintLog[i]
      \/ i = Len(mintLog') /\ i = Len(mintLog) + 1 /\ mintLog'[i] = e
  BY <1>1, <1>2
<1> QED
  BY <1>3, <1>4

\* Every transaction remembers: flags of past approvals and of paid sessions
\* stay set.
LEMMA FlagsPreserved ==
    ASSUME TypeOK, FlagsRemember, Next
    PROVE  FlagsRemember'
<1>1. \A x \in approvalLog' : x.signer \in hasApproved'[x.pid]
  <2>1. CASE UNCHANGED <<approvalLog, hasApproved>>
    BY <2>1 DEF FlagsRemember
  <2>2. ASSUME NEW a \in Accounts, NEW pid \in ProposalIds, ApproveMint(a, pid)
        PROVE  \A x \in approvalLog' : x.signer \in hasApproved'[x.pid]
    <3>1. /\ hasApproved' = [hasApproved EXCEPT ![pid] = @ \cup {a}]
          /\ approvalLog' = approvalLog \cup
                {[pid |-> pid, signer |-> a, terms |-> Terms(proposals[pid])]}
      BY <2>2 DEF ApproveMint
    <3>2. /\ hasApproved \in [ProposalIds -> SUBSET Accounts]
          /\ \A x \in approvalLog : x.pid \in ProposalIds
      BY DEF TypeOK
    <3> QED
      BY <3>1, <3>2 DEF FlagsRemember
  <2> QED
    BY <2>1, <2>2 DEF Next, AddSigner, RemoveSigner, ChangeMinter, ChangeBurner, TokenMoves, SetMintCeiling,
       ProposeMint, ExecuteMint, CancelMint, NewBlock, contractVars
<1>2. \A i \in DOMAIN mintLog' : mintLog'[i].terms.sessionId \in sessionMinted'
  <2>1. CASE UNCHANGED <<mintLog, sessionMinted>>
    BY <2>1 DEF FlagsRemember
  <2>2. ASSUME NEW pid \in ProposalIds, ExecuteMint(pid)
        PROVE  \A i \in DOMAIN mintLog' : mintLog'[i].terms.sessionId \in sessionMinted'
    <3>1. sessionMinted' = sessionMinted \cup {proposals[pid].sessionId}
      BY <2>2 DEF ExecuteMint
    <3> QED
      BY <2>2, <3>1, ExecutionAppends DEF FlagsRemember
  <2> QED
    BY <2>1, <2>2, LogGrowsOnlyByExecution
<1> QED
  BY <1>1, <1>2 DEF FlagsRemember

\* Every transaction keeps each session paid at most once.
LEMMA MintedOncePreserved ==
    ASSUME TypeOK, FlagsRemember, SessionMintedOnce, Next
    PROVE  SessionMintedOnce'
<1>1. CASE mintLog' = mintLog
  BY <1>1 DEF SessionMintedOnce
<1>2. ASSUME NEW pid \in ProposalIds, ExecuteMint(pid) PROVE SessionMintedOnce'
  <2>1. proposals[pid].sessionId \notin sessionMinted
    BY <1>2 DEF ExecuteMint, Executable
  <2> QED
    BY <1>2, <2>1, ExecutionAppends DEF FlagsRemember, SessionMintedOnce
<1> QED
  BY <1>1, <1>2, LogGrowsOnlyByExecution

\* Every transaction keeps each counter backed by approvals of the present
\* terms: a new proposal starts at zero, and an approval that raises the counter
\* comes from an account that had not approved under this id.
LEMMA ApprovalsBackedPreserved ==
    ASSUME TypeOK, FlagsRemember, ApprovalsBacked, Next
    PROVE  ApprovalsBacked'
<1> SUFFICES ASSUME NEW q \in ProposalIds
             PROVE  proposals'[q].approvals
                        <= Cardinality(Endorsers(approvalLog', q, Terms(proposals'[q])))
  BY DEF ApprovalsBacked
<1>0. /\ proposals \in [ProposalIds -> MintProposal]
      /\ proposals[q].approvals \in Nat
      /\ proposals[q].approvals
            <= Cardinality(Endorsers(approvalLog, q, Terms(proposals[q])))
  BY DEF TypeOK, ApprovalsBacked, MintProposal
<1>1. ASSUME proposals'[q].approvals = proposals[q].approvals,
             Terms(proposals'[q]) = Terms(proposals[q]),
             approvalLog \subseteq approvalLog'
      PROVE  proposals'[q].approvals
                 <= Cardinality(Endorsers(approvalLog', q, Terms(proposals'[q])))
  BY <1>0, <1>1, EndorsersGrow, EndorsersFinite
<1>2. ASSUME NEW pid \in ProposalIds, NEW sid \in Sessions, NEW to \in Recipients,
             NEW amount \in Amounts, ProposeMint(pid, sid, to, amount)
      PROVE  proposals'[q].approvals
                 <= Cardinality(Endorsers(approvalLog', q, Terms(proposals'[q])))
  <2>1. approvalLog' = approvalLog /\ proposals' = [proposals EXCEPT ![pid] =
           [sessionId |-> sid, recipient |-> to, amount |-> amount,
            proposedAt |-> block.timestamp, approvals |-> 0,
            executed |-> FALSE, cancelled |-> FALSE]]
    BY <1>2 DEF ProposeMint
  <2>2. CASE q = pid
    <3>1. proposals'[q].approvals = 0
      BY <1>0, <2>1, <2>2
    <3> QED
      BY <3>1, EndorsersFinite
  <2>3. CASE q # pid
    BY <1>0, <1>1, <2>1, <2>3
  <2> QED
    BY <2>2, <2>3
<1>3. ASSUME NEW a \in Accounts, NEW pid \in ProposalIds, ApproveMint(a, pid)
      PROVE  proposals'[q].approvals
                 <= Cardinality(Endorsers(approvalLog', q, Terms(proposals'[q])))
  <2> DEFINE t == Terms(proposals[pid])
  <2>1. /\ a \notin hasApproved[pid]
        /\ proposals' = [proposals EXCEPT ![pid].approvals = @ + 1]
        /\ approvalLog' = approvalLog \cup {[pid |-> pid, signer |-> a, terms |-> t]}
    BY <1>3 DEF ApproveMint
  <2>2. Terms(proposals'[q]) = Terms(proposals[q])
    BY <1>0, <2>1, SameTerms DEF Terms
  <2>3. CASE q = pid
    <3>1. proposals'[q].approvals = proposals[q].approvals + 1
      BY <1>0, <2>1, <2>3 DEF MintProposal
    <3>2. a \notin Endorsers(approvalLog, pid, t)
      BY <2>1 DEF FlagsRemember, Endorsers
    <3>3. Cardinality(Endorsers(approvalLog', pid, t))
             = Cardinality(Endorsers(approvalLog, pid, t)) + 1
      BY <2>1, <3>2, NewEndorser
    <3> HIDE DEF t
    <3>4. t = Terms(proposals[q]) /\ Cardinality(Endorsers(approvalLog, pid, t)) \in Nat
      BY <2>3, EndorsersFinite DEF t
    <3> QED
      BY <1>0, <2>2, <2>3, <3>1, <3>3, <3>4
  <2>4. CASE q # pid
    <3>1. proposals'[q] = proposals[q]
      BY <1>0, <2>1, <2>4
    <3> QED
      BY <1>1, <2>1, <2>2, <3>1
  <2> QED
    BY <2>3, <2>4
<1>4. ASSUME NEW pid \in ProposalIds, ExecuteMint(pid) \/ CancelMint(pid)
      PROVE  proposals'[q].approvals
                 <= Cardinality(Endorsers(approvalLog', q, Terms(proposals'[q])))
  <2>1. /\ approvalLog' = approvalLog
        /\ \/ proposals' = [proposals EXCEPT ![pid].executed = TRUE]
           \/ proposals' = [proposals EXCEPT ![pid].cancelled = TRUE]
    BY <1>4 DEF ExecuteMint, CancelMint
  <2>2. Terms(proposals'[q]) = Terms(proposals[q])
    BY <1>0, <2>1, SameTerms DEF Terms
  <2>3. proposals'[q].approvals = proposals[q].approvals
    BY <1>0, <2>1 DEF MintProposal
  <2> QED
    BY <1>1, <2>1, <2>2, <2>3
<1>5. CASE UNCHANGED <<proposals, approvalLog>>
  BY <1>0, <1>5
<1> QED
  BY <1>2, <1>3, <1>4, <1>5 DEF Next, AddSigner, RemoveSigner, ChangeMinter, ChangeBurner, TokenMoves,
     SetMintCeiling, NewBlock, contractVars

\* Every transaction keeps the executed mints endorsed and timelocked.
LEMMA EndorsedPreserved ==
    ASSUME TypeOK, ApprovalsBacked, MintsEndorsedAndTimelocked, Next
    PROVE  MintsEndorsedAndTimelocked'
<1> DEFINE Backed(e, log) ==
       /\ Cardinality(Endorsers(log, e.pid, e.terms)) >= REQUIRED_APPROVALS
       /\ e.at >= e.terms.proposedAt + TIMELOCK_DELAY
<1>1. approvalLog \subseteq approvalLog'
  BY DEF Next, AddSigner, RemoveSigner, ChangeMinter, ChangeBurner, TokenMoves, SetMintCeiling, ProposeMint,
         ApproveMint, ExecuteMint, CancelMint, NewBlock, contractVars
<1>2. ASSUME NEW i \in DOMAIN mintLog PROVE Backed(mintLog[i], approvalLog')
  <2>1. Backed(mintLog[i], approvalLog)
    BY DEF MintsEndorsedAndTimelocked
  <2> QED
    BY <1>1, <2>1, EndorsersGrow, EndorsersFinite, MiningAssumption
<1>3. CASE mintLog' = mintLog
  BY <1>2, <1>3 DEF MintsEndorsedAndTimelocked
<1>4. ASSUME NEW pid \in ProposalIds, ExecuteMint(pid)
      PROVE  MintsEndorsedAndTimelocked'
  <2>1. /\ approvalLog' = approvalLog
        /\ proposals[pid].approvals >= REQUIRED_APPROVALS
        /\ block.timestamp >= proposals[pid].proposedAt + TIMELOCK_DELAY
    BY <1>4 DEF ExecuteMint, Executable
  <2>2. Cardinality(Endorsers(approvalLog, pid, Terms(proposals[pid]))) >= REQUIRED_APPROVALS
    <3>1. proposals[pid].approvals \in Nat
      BY DEF TypeOK, MintProposal
    <3>2. proposals[pid].approvals
             <= Cardinality(Endorsers(approvalLog, pid, Terms(proposals[pid])))
      BY DEF ApprovalsBacked
    <3> QED
      BY <2>1, <3>1, <3>2, EndorsersFinite, MiningAssumption
  <2>3. ASSUME NEW i \in DOMAIN mintLog' PROVE Backed(mintLog'[i], approvalLog')
    BY <1>2, <1>4, <2>1, <2>2, ExecutionAppends
  <2> QED
    BY <2>3 DEF MintsEndorsedAndTimelocked
<1> QED
  BY <1>3, <1>4, LogGrowsOnlyByExecution

\* Every transaction, and every step of the rest of the system, keeps the
\* inductive invariant.
LEMMA MiningStep ==
    ASSUME MiningInv, [Next]_vars
    PROVE  MiningInv'
<1>1. CASE Next
  BY <1>1, TokenPreserved, TypePreserved, SignerCountPreserved, WellFormedPreserved,
     FlagsPreserved, ApprovalsBackedPreserved, MintedOncePreserved,
     EndorsedPreserved DEF MiningInv
<1>2. CASE UNCHANGED vars
  BY <1>2 DEF MiningInv, vars, contractVars, tokenVars, books, TypeOK, TokenTypeOK, BooksClosed,
     SignerCountExact, ProposalsWellFormed, FlagsRemember, ApprovalsBacked,
     SessionMintedOnce, MintsEndorsedAndTimelocked
<1> QED
  BY <1>1, <1>2

\* The inductive invariant holds in every reachable state of the contract.
THEOREM MiningInvariant == Spec => []MiningInv
<1>1. MiningInv /\ [Next]_vars => MiningInv'
  BY MiningStep
<1> QED
  BY <1>1, InitInv, PTL DEF Spec

\* Every variable keeps its type; in particular signerCount never underflows
\* and no mint goes to address(0).
THEOREM TypeCorrect == Spec => []TypeOK
  BY MiningInvariant, PTL DEF MiningInv

\* No session is ever paid twice, for any number of proposal ids and proposals.
THEOREM ReplayGuard == Spec => []SessionMintedOnce
  BY MiningInvariant, PTL DEF MiningInv

\* No mint executes without REQUIRED_APPROVALS different approvals of its exact
\* terms and the full timelock after them being proposed.
THEOREM QuorumAndTimelock == Spec => []MintsEndorsedAndTimelocked
  BY MiningInvariant, PTL DEF MiningInv

\* signerCount is exact and within its limit, so it never wraps.
THEOREM SignerLimit == Spec => []SignerCountExact
  BY MiningInvariant, PTL DEF MiningInv
-----------------------------------------------------------------------------
(* The sums.                                                                *)

\* MintedBy of any log.
Minted(log, places) == SumFunctionOnSet([i \in DOMAIN log |-> log[i].terms.amount], places)

LEMMA MintedByNow ==
    \A places : MintedBy(places) = Minted(mintLog, places)
BY DEF MintedBy, Minted

\* new is log with one more entry, at place n.
Grown(log, new, n) ==
    /\ IsFiniteSet(DOMAIN log) /\ DOMAIN new = DOMAIN log \cup {n} /\ n \notin DOMAIN log
    /\ \A i \in DOMAIN log : new[i] = log[i] /\ log[i].terms.amount \in Nat
    /\ new[n].terms.amount \in Nat

\* One more entry: the sums over older places stay, one that takes the new
\* place in grows by its amount.
LEMMA MintedAppend ==
    ASSUME NEW log, NEW new, NEW n, Grown(log, new, n), NEW P \in SUBSET DOMAIN log
    PROVE  /\ Minted(log, P) \in Int
           /\ Minted(new, P) = Minted(log, P)
           /\ Minted(new, P \cup {n}) = Minted(log, P) + new[n].terms.amount
<1> DEFINE f == [i \in DOMAIN log |-> log[i].terms.amount]
           g == [i \in DOMAIN new |-> new[i].terms.amount]
<1>1. IsFiniteSet(P) /\ n \notin P
  BY FS_Subset DEF Grown
<1>2. /\ \A i \in P : f[i] \in Nat /\ g[i] = f[i]
      /\ g[n] = new[n].terms.amount /\ g[n] \in Nat
  BY DEF Grown
<1>3. /\ Minted(log, P) = SumFunctionOnSet(f, P)
      /\ Minted(new, P) = SumFunctionOnSet(g, P)
      /\ Minted(new, P \cup {n}) = SumFunctionOnSet(g, P \cup {n})
  BY DEF Minted
<1> HIDE DEF f, g
<1>4. SumFunctionOnSet(f, P) \in Int
  BY <1>1, <1>2, SumType
<1>5. SumFunctionOnSet(g, P) = SumFunctionOnSet(f, P)
  BY <1>1, <1>2, SumSame
<1>6. SumFunctionOnSet(g, P \cup {n}) = SumFunctionOnSet(g, P) + g[n]
  <2>1. \A x \in P \cup {n} : g[x] \in Int
    BY <1>2
  <2> QED
    BY <1>1, <2>1, SumAdd
<1> QED
  BY <1>2, <1>3, <1>4, <1>5, <1>6

LEMMA BooksInit ==
    ASSUME mintLog = <<>>, totalSupply = 0, balanceOf = [a \in Accounts |-> 0],
           issued = [a \in Accounts |-> 0], retired = [a \in Accounts |-> 0],
           mintedInBlock = [b \in BlockNumbers |-> 0]
    PROVE  BooksInv
<1>1. DOMAIN mintLog = {}
  OBVIOUS
<1>2. MintedBy({}) = 0
  BY SumEmpty DEF MintedBy
<1>3. \A b : {i \in DOMAIN mintLog : mintLog[i].block = b} = {}
  BY <1>1
<1>4. SupplyIsAccounted
  BY <1>1, <1>2, BooksClosedInit, MiningAssumption DEF SupplyIsAccounted
<1> QED
  BY <1>1, <1>2, <1>3, <1>4 DEF BooksInv, BlockTally, BlockCeilingHolds

\* Only an execution touches the tally, the log or what the contract issued.
LEMMA BooksOnlyByExecution ==
    ASSUME TypeOK, Next, \A pid \in ProposalIds : ~ExecuteMint(pid)
    PROVE  UNCHANGED <<mintLog, mintedInBlock>> /\ issued'[MiningAddress] = issued[MiningAddress]
<1>1. ASSUME NEW a \in Accounts, NEW amount \in Amounts, TokenMoves(a, amount)
      PROVE  UNCHANGED <<mintLog, mintedInBlock>> /\ issued'[MiningAddress] = issued[MiningAddress]
  <2>1. PICK caller \in Accounts \ {MiningAddress} :
            \/ issued' = issued
            \/ issued' = [issued EXCEPT ![caller] = @ + amount]
    BY <1>1 DEF TokenMoves, OutsideCall, Transfer, Mint, Burn
  <2>2. issued \in [Accounts -> Nat]
    BY DEF TypeOK, TokenTypeOK
  <2>3. issued'[MiningAddress] = issued[MiningAddress]
    BY <2>1, <2>2, MiningAssumption
  <2> QED
    BY <1>1, <2>3 DEF TokenMoves, contractVars
<1> QED
  BY <1>1 DEF Next, AddSigner, RemoveSigner, ChangeMinter, ChangeBurner, SetMinter, SetBurner,
     SetMintCeiling, ProposeMint, ApproveMint, CancelMint, NewBlock, contractVars, tokenVars, books

\* An execution enters its amount in what the contract issued and in the block,
\* and the ceiling it was checked against is the one it is logged with.
LEMMA BooksExecute ==
    ASSUME MiningInv, BooksInv, BooksClosed', NEW pid \in ProposalIds, ExecuteMint(pid)
    PROVE  BooksInv'
<1> DEFINE E == [pid : ProposalIds, terms : TermsType, block : BlockNumbers,
                 at : Nat, ceiling : Nat]
           e == [pid |-> pid, terms |-> Terms(proposals[pid]), block |-> block.number,
                 at |-> block.timestamp, ceiling |-> mintCeilingPerBlock]
           n == Len(mintLog) + 1
           amount == proposals[pid].amount
           to == proposals[pid].recipient
<1>1. /\ mintLog \in Seq(E) /\ mintLog' = Append(mintLog, e)
      /\ proposals[pid] \in MintProposal /\ block.number \in BlockNumbers
      /\ block.timestamp \in Nat /\ mintCeilingPerBlock \in Nat
      /\ mintedInBlock \in [BlockNumbers -> Nat] /\ issued \in [Accounts -> Nat]
  BY DEF MiningInv, TypeOK, TokenTypeOK, ExecuteMint
<1>2. /\ to \in Accounts /\ amount \in Nat /\ e \in E
      /\ e.terms.amount = amount /\ e.terms.recipient = to /\ e.block = block.number
      /\ e.ceiling = mintCeilingPerBlock
  BY <1>1 DEF MiningInv, ProposalsWellFormed, ExecuteMint, Executable, Terms, TermsType, MintProposal
<1>3. \A x \in E : x.terms.amount \in Nat
  BY DEF TermsType
<1>4. /\ issued' = [issued EXCEPT ![MiningAddress] = issued[MiningAddress] + amount]
      /\ mintedInBlock' = [mintedInBlock EXCEPT ![block.number] = mintedInBlock[block.number] + amount]
      /\ mintedInBlock[block.number] + amount <= mintCeilingPerBlock
  BY DEF ExecuteMint, Executable, Mint
<1> HIDE DEF E, e, amount, to
<1>5. /\ DOMAIN mintLog = 1 .. Len(mintLog) /\ DOMAIN mintLog' = DOMAIN mintLog \cup {n}
      /\ Len(mintLog) \in Nat /\ n \notin DOMAIN mintLog
      /\ mintLog'[n] = e /\ \A i \in DOMAIN mintLog : mintLog'[i] = mintLog[i]
  BY <1>1, <1>2
<1>6. \A P \in SUBSET DOMAIN mintLog :
        /\ Minted(mintLog, P) \in Int
        /\ Minted(mintLog', P) = Minted(mintLog, P)
        /\ Minted(mintLog', P \cup {n}) = Minted(mintLog, P) + amount
  <2>1. IsFiniteSet(DOMAIN mintLog)
    <3>1. IsFiniteSet(1 .. Len(mintLog))
      BY <1>5, UpTo
    <3> QED
      BY <1>5, <3>1
  <2>2. \A i \in DOMAIN mintLog : mintLog[i].terms.amount \in Nat
    BY <1>1, <1>3, <1>5
  <2>3. mintLog'[n].terms.amount = amount /\ amount \in Nat
    BY <1>2, <1>5
  <2> HIDE DEF n
  <2> QED
    <3>1. Grown(mintLog, mintLog', n)
      BY <1>5, <2>1, <2>2, <2>3 DEF Grown
    <3> QED
      BY <2>3, <3>1, MintedAppend
<1>7. \A P : MintedBy(P) = Minted(mintLog, P) /\ MintedBy(P)' = Minted(mintLog', P)
  BY DEF MintedBy, Minted
<1>8. SupplyIsAccounted'
  <2>1. issued[MiningAddress] = Minted(mintLog, DOMAIN mintLog)
    BY <1>7 DEF BooksInv, SupplyIsAccounted
  <2>2. Minted(mintLog', DOMAIN mintLog') = Minted(mintLog, DOMAIN mintLog) + amount
    BY <1>5, <1>6
  <2>3. issued'[MiningAddress] = issued[MiningAddress] + amount
    BY <1>1, <1>4, MiningAssumption
  <2> QED
    BY <2>1, <2>2, <2>3 DEF SupplyIsAccounted, MintedBy, Minted
<1>9. BlockTally'
  <2>1. ASSUME NEW b \in BlockNumbers
        PROVE  mintedInBlock'[b] = Minted(mintLog', {i \in DOMAIN mintLog' : mintLog'[i].block = b})
    <3> DEFINE P == {i \in DOMAIN mintLog : mintLog[i].block = b}
               Q == {i \in DOMAIN mintLog' : mintLog'[i].block = b}
    <3>1. mintedInBlock[b] = Minted(mintLog, P)
      BY <1>7 DEF BooksInv, BlockTally
    <3>2. Q = IF b = block.number THEN P \cup {n} ELSE P
      BY <1>2, <1>5
    <3>3. P \in SUBSET DOMAIN mintLog
      OBVIOUS
    <3>4. mintedInBlock'[b] = IF b = block.number THEN mintedInBlock[b] + amount ELSE mintedInBlock[b]
      BY <1>1, <1>4
    <3> HIDE DEF P, Q
    <3> QED
      BY <1>6, <3>1, <3>2, <3>3, <3>4 DEF Q
  <2> QED
    BY <2>1 DEF BlockTally, MintedBy, Minted
<1>10. BlockCeilingHolds'
  <2>1. ASSUME NEW i \in DOMAIN mintLog'
        PROVE  Minted(mintLog', {j \in 1 .. i : mintLog'[j].block = mintLog'[i].block}) <= mintLog'[i].ceiling
    <3> DEFINE Q == {j \in 1 .. i : mintLog'[j].block = mintLog'[i].block}
    <3>1. CASE i = n
      <4>1. 1 .. i = DOMAIN mintLog'
        BY <1>5, <3>1
      <4>2. Q = {j \in DOMAIN mintLog' : mintLog'[j].block = block.number}
        BY <1>2, <1>5, <3>1, <4>1
      <4>3. mintedInBlock'[block.number] = Minted(mintLog', Q)
        BY <1>1, <1>9, <4>2 DEF BlockTally, MintedBy, Minted
      <4>4. mintedInBlock'[block.number] <= mintCeilingPerBlock
        BY <1>1, <1>4
      <4> HIDE DEF Q
      <4> QED
        BY <1>2, <1>5, <3>1, <4>3, <4>4 DEF Q
    <3>2. CASE i \in DOMAIN mintLog
      <4> DEFINE P == {j \in 1 .. i : mintLog[j].block = mintLog[i].block}
      <4>1. Q = P /\ P \in SUBSET DOMAIN mintLog
        BY <1>5, <3>2
      <4>2. Minted(mintLog, P) <= mintLog[i].ceiling
        BY <1>7, <3>2 DEF BooksInv, BlockCeilingHolds
      <4>3. Minted(mintLog', P) = Minted(mintLog, P)
        BY <1>6, <4>1
      <4>4. mintLog'[i].ceiling = mintLog[i].ceiling
        BY <1>5, <3>2
      <4> QED
        BY <4>1, <4>2, <4>3, <4>4
    <3> QED
      BY <1>5, <3>1, <3>2
  <2> QED
    BY <2>1 DEF BlockCeilingHolds, MintedBy, Minted
<1> QED
  BY <1>8, <1>9, <1>10 DEF BooksInv

LEMMA BooksStep ==
    ASSUME MiningInv, BooksInv, [Next]_vars
    PROVE  BooksInv'
<1>0. BooksClosed'
  BY MiningStep DEF MiningInv
<1>1. CASE \E pid \in ProposalIds : ExecuteMint(pid)
  BY <1>0, <1>1, BooksExecute
<1>2. CASE UNCHANGED <<mintLog, mintedInBlock>> /\ issued'[MiningAddress] = issued[MiningAddress]
  <2>1. \A P : MintedBy(P)' = MintedBy(P)
    BY <1>2 DEF MintedBy
  <2> QED
    BY <1>0, <1>2, <2>1 DEF BooksInv, BlockTally, BlockCeilingHolds, SupplyIsAccounted, MintedBy
<1>3. CASE UNCHANGED vars
  BY <1>2, <1>3 DEF vars, contractVars, tokenVars, books
<1> QED
  BY <1>1, <1>2, <1>3, BooksOnlyByExecution DEF MiningInv

\* The books of the contract and of its token agree with the history of mints.
THEOREM BooksInvariant == Spec => []BooksInv
<1>1. Init => BooksInv
  BY BooksInit DEF Init, TokenInit
<1>2. MiningInv /\ BooksInv /\ [Next]_vars => BooksInv'
  BY BooksStep
<1> QED
  BY <1>1, <1>2, MiningInvariant, PTL DEF Spec

\* In every block the mints up to and including each one fit the ceiling in
\* force at that mint, for any ceilings and any order of setMintCeiling and
\* executeMint (the CeilingExceeded check against mintedInBlock).
THEOREM CeilingPerBlock == Spec => []BlockCeilingHolds
  BY BooksInvariant, PTL DEF BooksInv

\* What the contract issued is the sum of its executed mints, and the token's
\* balances, supply, mints and burns add up, in any interleaving with holders'
\* transfers, with other minters and with the burner.
THEOREM SupplyExact == Spec => []SupplyIsAccounted
  BY BooksInvariant, PTL DEF BooksInv
=============================================================================
