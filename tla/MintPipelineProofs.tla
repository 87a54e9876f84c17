------------------------- MODULE MintPipelineProofs -------------------------
(***************************************************************************)
(* Proofs about the mint pipeline.  The contract's own guarantees carry    *)
(* over, because every step of the pipeline is a step of the contract or   *)
(* leaves it alone; the agreement between the table and the chain rests on *)
(* PipelineInv.                                                            *)
(***************************************************************************)
EXTENDS Reports, MiningContractProofs

\* Every step of the backend and the CLI is at most one transaction.
LEMMA StepsAreTransactions ==
    ASSUME PipelineTypeOK, PipelineNext
    PROVE  [Next]_vars
<1> USE PipelineAssumption
<1>1. ASSUME NEW o \in Operators, ProposeSend(o) PROVE Next
  <2>1. /\ cli[o].session \in Sessions
        /\ cli[o].amount \in GrossAmounts
        /\ ProposeMint(cli[o].session, cli[o].session, Wallet, cli[o].amount)
    BY <1>1 DEF ProposeSend, PipelineTypeOK, Idle
  <2> QED
    BY <2>1 DEF Next
<1>2. ASSUME NEW s \in Sessions, NEW a \in Candidates, Approve(a, s) PROVE Next
  BY <1>2 DEF Approve, Next
<1>3. ASSUME NEW o \in Operators, NEW s \in Sessions, NEW marks \in BOOLEAN,
             ExecuteStart(o, s, marks) \/ CancelStart(o, s, marks)
      PROVE  Next
  BY <1>3 DEF ExecuteStart, CancelStart, Next
<1>4. ASSUME ChainAdvances PROVE Next
  BY <1>4 DEF ChainAdvances, Next
<1>5. ASSUME NEW a \in Accounts, NEW amount \in Amounts, TokensMove(a, amount) PROVE Next
  BY <1>5 DEF TokensMove, Next
<1> QED
  BY <1>1, <1>2, <1>3, <1>4, <1>5 DEF PipelineNext, CheckDailyCeiling, MintCeilingUnverified,
     InsertProposal, InsertProposalFails, MarkRow, CommandDies, ProposeStart

\* The deployed contract starts inside the contract's invariant.
LEMMA DeployedInv == PipelineInit => MiningInv
<1> SUFFICES ASSUME PipelineInit PROVE MiningInv
  OBVIOUS
<1> USE AccountsAssumption, MiningAssumption, PipelineAssumption
<1>0. IsFiniteSet(Candidates) /\ Cardinality(Candidates) \in Nat
  BY FS_Subset, FS_CardinalityType
<1>1. TypeOK
  BY <1>0 DEF PipelineInit, TypeOK, TokenTypeOK, EmptyProposal, MintProposal, BlockNumbers
<1>2. SignerCountExact
  BY <1>0 DEF PipelineInit, SignerCountExact
<1>3. ProposalsWellFormed /\ FlagsRemember /\ SessionMintedOnce /\ MintsEndorsedAndTimelocked
  BY DEF PipelineInit, ProposalsWellFormed, EmptyProposal, FlagsRemember,
     SessionMintedOnce, MintsEndorsedAndTimelocked
<1>4. ApprovalsBacked
  BY EndorsersFinite DEF PipelineInit, ApprovalsBacked, EmptyProposal
<1>5. BooksClosed
  BY BooksClosedInit DEF PipelineInit
<1> QED
  BY <1>1, <1>2, <1>3, <1>4, <1>5 DEF MiningInv

\* What a transaction other than proposeMint does to what the table relies on:
\* the terms of every proposal stay, only the session of an executed proposal is
\* marked minted, and the clock does not run back.
LEMMA TransactionsKeepTerms ==
    ASSUME TypeOK, NEW s \in Sessions,
           \/ \E a \in Candidates : ApproveMint(a, s)
           \/ ExecuteMint(s)
           \/ CancelMint(s)
    PROVE  /\ \A q \in Sessions : /\ proposals'[q].sessionId = proposals[q].sessionId
                                  /\ proposals'[q].proposedAt = proposals[q].proposedAt
           /\ block' = block
           /\ \/ sessionMinted' = sessionMinted
              \/ ExecuteMint(s) /\ sessionMinted' = sessionMinted \cup {proposals[s].sessionId}
<1>1. proposals \in [ProposalIds -> MintProposal] /\ s \in ProposalIds
  BY PipelineAssumption DEF TypeOK
<1>2. \/ proposals' = [proposals EXCEPT ![s].approvals = @ + 1]
      \/ proposals' = [proposals EXCEPT ![s].executed = TRUE]
      \/ proposals' = [proposals EXCEPT ![s].cancelled = TRUE]
  BY DEF ApproveMint, ExecuteMint, CancelMint
<1>3. \A q \in Sessions : /\ proposals'[q].sessionId = proposals[q].sessionId
                          /\ proposals'[q].proposedAt = proposals[q].proposedAt
  BY <1>1, <1>2, SameTerms, PipelineAssumption
<1> QED
  BY <1>3 DEF ApproveMint, ExecuteMint, CancelMint

\* What proposeMint does: the proposal of its own id is dated now, the others stay.
LEMMA ProposingDates ==
    ASSUME TypeOK, NEW s \in Sessions, NEW amount, ProposeMint(s, s, Wallet, amount)
    PROVE  /\ proposals'[s].sessionId = s
           /\ proposals'[s].proposedAt = block.timestamp
           /\ \A q \in Sessions \ {s} : proposals'[q] = proposals[q]
           /\ s \notin sessionMinted
           /\ UNCHANGED <<sessionMinted, block>>
  BY PipelineAssumption DEF ProposeMint, TypeOK

\* Every step keeps the types of the contract, the table and the commands.
LEMMA PipelineTypePreserved ==
    ASSUME PipelineTypeOK, MiningInv, PipelineNext
    PROVE  PipelineTypeOK'
<1>0. TypeOK'
  BY StepsAreTransactions, MiningStep DEF MiningInv
<1> USE PipelineAssumption
<1>1. block.timestamp \in Nat
  BY DEF PipelineTypeOK, TypeOK
<1>2. ASSUME NEW s \in Sessions, NEW gross \in GrossAmounts, CheckDailyCeiling(s, gross)
      PROVE  PipelineTypeOK'
  BY <1>0, <1>1, <1>2 DEF CheckDailyCeiling, PipelineTypeOK
<1>3. ASSUME NEW s \in Sessions, MintCeilingUnverified(s) \/ InsertProposalFails(s)
      PROVE  PipelineTypeOK'
  BY <1>0, <1>3 DEF MintCeilingUnverified, InsertProposalFails, PipelineTypeOK
<1>4. ASSUME NEW s \in Sessions, InsertProposal(s) PROVE PipelineTypeOK'
  BY <1>0, <1>4 DEF InsertProposal, PipelineTypeOK, RowType, ProposalStatus
<1>5. ASSUME NEW o \in Operators, NEW s \in Sessions, ProposeStart(o, s)
      PROVE  PipelineTypeOK'
  BY <1>0, <1>5 DEF ProposeStart, PipelineTypeOK, RowType
<1>6. ASSUME NEW o \in Operators, ProposeSend(o) PROVE PipelineTypeOK'
  BY <1>0, <1>6 DEF ProposeSend, PipelineTypeOK, Idle, ProposalStatus
<1>7. ASSUME NEW o \in Operators, MarkRow(o) PROVE PipelineTypeOK'
  BY <1>0, <1>7 DEF MarkRow, PipelineTypeOK, RowType, Idle
<1>8. ASSUME NEW o \in Operators, CommandDies(o) PROVE PipelineTypeOK'
  BY <1>0, <1>8 DEF CommandDies, PipelineTypeOK
<1>9. ASSUME NEW o \in Operators, NEW s \in Sessions, NEW marks \in BOOLEAN,
             ExecuteStart(o, s, marks) \/ CancelStart(o, s, marks)
      PROVE  PipelineTypeOK'
  BY <1>0, <1>9 DEF ExecuteStart, CancelStart, ThenMark, PipelineTypeOK, ProposalStatus
<1>10. ASSUME UNCHANGED <<rows, settle, cli>> PROVE PipelineTypeOK'
  BY <1>0, <1>10 DEF PipelineTypeOK
<1> QED
  BY <1>2, <1>3, <1>4, <1>5, <1>6, <1>7, <1>8, <1>9, <1>10
     DEF PipelineNext, Approve, ChainAdvances, TokensMove

\* The parts of the invariant that relate the table, the commands and the chain.
Agreement == DatesPast /\ ProposalsFromRows /\ CommandsFollowChain /\ RowsNeverAheadOfChain

\* Every step keeps the table, the commands and the chain in agreement.
LEMMA AgreementPreserved ==
    ASSUME PipelineTypeOK, Agreement, PipelineNext, TypeOK'
    PROVE  Agreement'
<1> USE PipelineAssumption, MiningAssumption
<1>0. /\ block.timestamp \in Nat /\ TIMELOCK_DELAY \in Nat
      /\ \A s \in Sessions : proposals[s].proposedAt \in Nat
      /\ \A s \in Sessions : rows[s] # NoRow => rows[s].created_at \in Nat
  BY DEF PipelineTypeOK, TypeOK, MintProposal, RowType
<1> USE DEF Agreement, DatesPast, ProposalsFromRows, CommandsFollowChain,
        RowsNeverAheadOfChain
<1>1. ASSUME NEW s \in Sessions,
             \/ \E gross \in GrossAmounts : CheckDailyCeiling(s, gross)
             \/ MintCeilingUnverified(s)
             \/ InsertProposalFails(s)
      PROVE  Agreement'
  BY <1>0, <1>1 DEF CheckDailyCeiling, MintCeilingUnverified, InsertProposalFails,
     PipelineTypeOK, vars, contractVars
<1>2. ASSUME NEW s \in Sessions, InsertProposal(s) PROVE Agreement'
  BY <1>0, <1>2 DEF InsertProposal, PipelineTypeOK, vars, contractVars
<1>3. ASSUME NEW o \in Operators, NEW s \in Sessions, ProposeStart(o, s) PROVE Agreement'
  BY <1>0, <1>3 DEF ProposeStart, PipelineTypeOK, vars, contractVars
<1>4. ASSUME NEW o \in Operators, ProposeSend(o) PROVE Agreement'
  <2>1. /\ cli[o].session \in Sessions /\ cli[o].pc = "proposing"
        /\ ProposeMint(cli[o].session, cli[o].session, Wallet, cli[o].amount)
        /\ cli' = [cli EXCEPT ![o] = [pc |-> "marking", session |-> cli[o].session,
                                      status |-> "Submitted"]]
        /\ UNCHANGED <<rows, settle>>
    BY <1>4 DEF ProposeSend, PipelineTypeOK, Idle
  <2>2. TypeOK
    BY DEF PipelineTypeOK
  <2>3. block.timestamp # 0
    BY <2>2 DEF TypeOK
  <2> DEFINE x == cli[o].session
  <2>4. /\ proposals'[x].sessionId = x
        /\ proposals'[x].proposedAt = block.timestamp
        /\ \A q \in Sessions \ {x} : proposals'[q] = proposals[q]
        /\ x \notin sessionMinted
        /\ UNCHANGED <<sessionMinted, block>>
    BY <2>1, <2>2, ProposingDates
  <2>5. rows[x] # NoRow
    BY <2>1
  <2>6. /\ x \in Sessions /\ UNCHANGED <<rows, settle>>
        /\ cli' = [cli EXCEPT ![o] = [pc |-> "marking", session |-> x, status |-> "Submitted"]]
    BY <2>1
  <2> HIDE DEF x
  <2>7. DatesPast' /\ ProposalsFromRows' /\ RowsNeverAheadOfChain'
    BY <1>0, <2>3, <2>4, <2>5, <2>6
  <2>8. CommandsFollowChain'
    <3> SUFFICES ASSUME NEW p \in Operators
                 PROVE  /\ cli'[p].pc = "proposing" => rows'[cli'[p].session] # NoRow
                        /\ cli'[p].pc = "marking" /\ cli'[p].status = "Submitted"
                              => proposals'[cli'[p].session].proposedAt # 0
                        /\ cli'[p].pc = "marking" /\ cli'[p].status = "Confirmed"
                              => cli'[p].session \in sessionMinted'
      OBVIOUS
    <3>1. cli \in [Operators -> {Idle}
             \cup [pc : {"proposing"}, session : Sessions, amount : GrossAmounts]
             \cup [pc : {"marking"}, session : Sessions, status : ProposalStatus]]
      BY DEF PipelineTypeOK
    <3>2. CASE p = o
      BY <2>3, <2>4, <2>6, <3>1, <3>2
    <3>3. CASE p # o
      BY <2>3, <2>4, <2>6, <3>1, <3>3 DEF Idle
    <3> QED
      BY <3>2, <3>3
  <2> QED
    BY <2>7, <2>8
<1>5. ASSUME NEW o \in Operators, MarkRow(o) PROVE Agreement'
  BY <1>0, <1>5 DEF MarkRow, PipelineTypeOK, vars, contractVars, RowType, Idle
<1>6. ASSUME NEW o \in Operators, CommandDies(o) PROVE Agreement'
  BY <1>0, <1>6 DEF CommandDies, PipelineTypeOK, vars, contractVars, Idle
<1>7. ASSUME NEW o \in Operators, NEW s \in Sessions, NEW marks \in BOOLEAN,
             ExecuteStart(o, s, marks) \/ CancelStart(o, s, marks)
      PROVE  Agreement'
  <2>1. /\ TypeOK
        /\ cli \in [Operators -> {Idle}
              \cup [pc : {"proposing"}, session : Sessions, amount : GrossAmounts]
              \cup [pc : {"marking"}, session : Sessions, status : ProposalStatus]]
    BY DEF PipelineTypeOK
  <2>2. UNCHANGED <<rows, settle>> /\ (ExecuteMint(s) \/ CancelMint(s))
    BY <1>7 DEF ExecuteStart, CancelStart, ThenMark
  <2>3. /\ \A q \in Sessions : /\ proposals'[q].sessionId = proposals[q].sessionId
                               /\ proposals'[q].proposedAt = proposals[q].proposedAt
        /\ block' = block
        /\ \/ sessionMinted' = sessionMinted
           \/ ExecuteMint(s) /\ sessionMinted' = sessionMinted \cup {proposals[s].sessionId}
    BY <2>1, <2>2, TransactionsKeepTerms
  <2>4. ExecuteMint(s) =>
          /\ proposals[s].proposedAt # 0
          /\ block.timestamp >= proposals[s].proposedAt + TIMELOCK_DELAY
          /\ s \in sessionMinted'
    BY DEF ExecuteMint, Executable
  <2>5. DatesPast' /\ ProposalsFromRows' /\ RowsNeverAheadOfChain'
    BY <1>0, <2>2, <2>3, <2>4
  <2>6. \/ cli' = cli
        \/ ExecuteMint(s) /\ cli' = [cli EXCEPT ![o] = [pc |-> "marking", session |-> s,
                                                       status |-> "Confirmed"]]
        \/ cli' = [cli EXCEPT ![o] = [pc |-> "marking", session |-> s, status |-> "Rejected"]]
    BY <1>7 DEF ExecuteStart, CancelStart, ThenMark
  <2>7. CommandsFollowChain'
    BY <2>1, <2>2, <2>3, <2>4, <2>6 DEF Idle
  <2> QED
    BY <2>5, <2>7
<1>8. ASSUME NEW s \in Sessions, NEW a \in Candidates, Approve(a, s) PROVE Agreement'
  BY <1>0, <1>8, TransactionsKeepTerms DEF Approve, PipelineTypeOK, ApproveMint
<1>9. ASSUME ChainAdvances PROVE Agreement'
  BY <1>0, <1>9 DEF ChainAdvances, NewBlock, PipelineTypeOK, contractVars
<1>10. ASSUME NEW a \in Accounts, NEW amount \in Amounts, TokensMove(a, amount)
       PROVE  Agreement'
  BY <1>10 DEF TokensMove, TokenMoves, contractVars
<1> HIDE DEF Agreement
<1> QED
  BY <1>1, <1>2, <1>3, <1>4, <1>5, <1>6, <1>7, <1>8, <1>9, <1>10 DEF PipelineNext

\* The combined invariant holds in every reachable state of the pipeline: the
\* contract's own and the agreement between table, commands and chain.
THEOREM PipelineInvariant == PipelineSpec => [](MiningInv /\ PipelineInv)
<1>1. PipelineInit => MiningInv /\ PipelineInv
  <2> SUFFICES ASSUME PipelineInit PROVE MiningInv /\ PipelineInv
    OBVIOUS
  <2>1. MiningInv
    BY DeployedInv
  <2>2. PipelineTypeOK
    BY <2>1 DEF PipelineInit, PipelineTypeOK, MiningInv
  <2>3. Agreement
    BY PipelineAssumption DEF PipelineInit, Agreement, DatesPast, ProposalsFromRows, CommandsFollowChain,
       RowsNeverAheadOfChain, Idle, EmptyProposal
  <2> QED
    BY <2>1, <2>2, <2>3 DEF PipelineInv, Agreement
<1>2. MiningInv /\ PipelineInv /\ [PipelineNext]_pipelineVars => (MiningInv /\ PipelineInv)'
  <2> SUFFICES ASSUME MiningInv, PipelineInv, [PipelineNext]_pipelineVars
               PROVE  MiningInv' /\ PipelineInv'
    OBVIOUS
  <2>1. CASE PipelineNext
    <3>1. MiningInv'
      BY <2>1, StepsAreTransactions, MiningStep DEF PipelineInv
    <3>2. PipelineTypeOK'
      BY <2>1, PipelineTypePreserved DEF PipelineInv
    <3>3. Agreement'
      BY <2>1, <3>2, AgreementPreserved DEF PipelineInv, Agreement, PipelineTypeOK
    <3> QED
      BY <3>1, <3>2, <3>3 DEF PipelineInv, Agreement
  <2>2. CASE UNCHANGED pipelineVars
    <3>1. MiningInv'
      BY <2>2, MiningStep DEF pipelineVars
    <3> QED
      BY <2>2, <3>1 DEF MiningInv, pipelineVars, vars, contractVars, PipelineInv,
         PipelineTypeOK, DatesPast, ProposalsFromRows, CommandsFollowChain,
         RowsNeverAheadOfChain
  <2> QED
    BY <2>1, <2>2
<1> QED
  BY <1>1, <1>2, PTL DEF PipelineSpec

\* The table never runs ahead of the chain, for any number of sessions and of
\* operators working at once.
THEOREM TableFollowsChain == PipelineSpec => []RowsNeverAheadOfChain
  BY PipelineInvariant, PTL DEF PipelineInv

\* No row is Confirmed before a full timelock has passed since end_session dated it.
THEOREM ConfirmedIsOld == PipelineSpec => []ConfirmedAfterTimelock
<1>1. PipelineInv => ConfirmedAfterTimelock
  BY DEF PipelineInv, RowsNeverAheadOfChain, ProposalsFromRows, ConfirmedAfterTimelock
<1> QED
  BY <1>1, PipelineInvariant, PTL

\* In the deployed system, too, no session is ever paid twice.
THEOREM PipelinePaysOnce == PipelineSpec => []SessionMintedOnce
  BY PipelineInvariant, PTL DEF MiningInv

\* The types of the table, the commands, the contract and its token.
THEOREM PipelineTypes == PipelineSpec => []PipelineTypeOK
  BY PipelineInvariant, PTL DEF PipelineInv
-----------------------------------------------------------------------------
(* The books, and the payout ledger the pipeline implements.                *)

\* In the deployed system, too, the contract's tally and what it issued are the
\* sums of the mints executed, and the token's books stay closed while the wallet
\* spends and the registry burns.
THEOREM PipelineBooks == PipelineSpec => []BooksInv
<1>1. PipelineInit => BooksInv
  BY BooksInit DEF PipelineInit
<1>2. MiningInv /\ PipelineInv /\ BooksInv /\ [PipelineNext]_pipelineVars => BooksInv'
  <2> SUFFICES ASSUME MiningInv, PipelineInv, BooksInv, [PipelineNext]_pipelineVars
               PROVE  BooksInv'
    OBVIOUS
  <2>1. [Next]_vars
    BY StepsAreTransactions DEF PipelineInv, pipelineVars
  <2> QED
    BY <2>1, BooksStep
<1> QED
  BY <1>1, <1>2, PipelineInvariant, PTL DEF PipelineSpec

\* Every step keeps what is proposed equal to what the row says: a row's amount
\* is written once, before anything is proposed from it.
LEMMA AmountsPreserved ==
    ASSUME PipelineInv, AmountsFromRows, PipelineNext
    PROVE  AmountsFromRows'
<1> USE PipelineAssumption DEF AmountsFromRows
<1>0. /\ PipelineTypeOK /\ TypeOK
      /\ rows \in [Sessions -> RowType \cup {NoRow}]
      /\ cli \in [Operators -> {Idle}
            \cup [pc : {"proposing"}, session : Sessions, amount : GrossAmounts]
            \cup [pc : {"marking"}, session : Sessions, status : ProposalStatus]]
      /\ \A s \in Sessions : proposals[s].proposedAt # 0 => rows[s] # NoRow
      /\ \A o \in Operators : cli[o].pc = "proposing" => rows[cli[o].session] # NoRow
  BY DEF PipelineInv, PipelineTypeOK, ProposalsFromRows, CommandsFollowChain
<1>1. ASSUME UNCHANGED <<proposals, rows, cli>> PROVE AmountsFromRows'
  BY <1>1
<1>2. ASSUME NEW s \in Sessions, InsertProposal(s) PROVE AmountsFromRows'
  <2>1. rows[s] = NoRow /\ UNCHANGED <<proposals, cli>>
    BY <1>2 DEF InsertProposal, PipelineInv, DatesPast, vars, contractVars
  <2>2. \A q \in Sessions : rows[q] # NoRow => rows'[q] = rows[q]
    BY <1>0, <1>2, <2>1 DEF InsertProposal
  <2>3. \A o \in Operators : cli[o].pc = "proposing" => cli[o].session \in Sessions
    BY <1>0 DEF Idle
  <2> QED
    BY <1>0, <2>1, <2>2, <2>3
<1>3. ASSUME NEW o \in Operators, NEW s \in Sessions, ProposeStart(o, s) PROVE AmountsFromRows'
  BY <1>0, <1>3 DEF ProposeStart, vars, contractVars
<1>4. ASSUME NEW o \in Operators, ProposeSend(o) PROVE AmountsFromRows'
  <2> DEFINE x == cli[o].session
             a == cli[o].amount
  <2>1. /\ x \in Sessions /\ a = rows[x].gross_prm
        /\ ProposeMint(x, x, Wallet, a)
        /\ cli' = [cli EXCEPT ![o] = [pc |-> "marking", session |-> x, status |-> "Submitted"]]
        /\ rows' = rows
    BY <1>0, <1>4 DEF ProposeSend, Idle
  <2> HIDE DEF x, a
  <2>2. /\ proposals'[x].amount = a
        /\ \A q \in Sessions \ {x} : proposals'[q] = proposals[q]
    BY <1>0, <2>1 DEF ProposeMint, TypeOK
  <2>3. \A p \in Operators : cli'[p].pc = "proposing" => cli'[p] = cli[p]
    BY <1>0, <2>1
  <2> QED
    BY <2>1, <2>2, <2>3
<1>5. ASSUME NEW o \in Operators, MarkRow(o) PROVE AmountsFromRows'
  <2>1. \A q \in Sessions : rows[q] # NoRow => rows'[q].gross_prm = rows[q].gross_prm
    BY <1>0, <1>5 DEF MarkRow, RowType
  <2>2. \A p \in Operators : cli'[p].pc = "proposing" => cli'[p] = cli[p] /\ cli[p].session \in Sessions
    BY <1>0, <1>5 DEF MarkRow, Idle
  <2>3. proposals' = proposals
    BY <1>5 DEF MarkRow, vars, contractVars
  <2> QED
    BY <1>0, <2>1, <2>2, <2>3
<1>6. ASSUME NEW o \in Operators, CommandDies(o) PROVE AmountsFromRows'
  BY <1>0, <1>6 DEF CommandDies, vars, contractVars, Idle
<1>7. ASSUME NEW s \in Sessions,
             \/ \E a \in Candidates : ApproveMint(a, s)
             \/ ExecuteMint(s)
             \/ CancelMint(s)
      PROVE  \A q \in Sessions : /\ proposals'[q].proposedAt = proposals[q].proposedAt
                                 /\ proposals'[q].amount = proposals[q].amount
  <2>1. \/ proposals' = [proposals EXCEPT ![s].approvals = @ + 1]
        \/ proposals' = [proposals EXCEPT ![s].executed = TRUE]
        \/ proposals' = [proposals EXCEPT ![s].cancelled = TRUE]
    BY <1>7 DEF ApproveMint, ExecuteMint, CancelMint
  <2>2. proposals \in [ProposalIds -> MintProposal] /\ s \in ProposalIds
    BY <1>0 DEF TypeOK
  <2> QED
    BY <2>1, <2>2, SameTerms
<1>8. ASSUME NEW o \in Operators, NEW s \in Sessions, NEW marks \in BOOLEAN,
             ExecuteStart(o, s, marks) \/ CancelStart(o, s, marks)
      PROVE  AmountsFromRows'
  <2>1. rows' = rows /\ (ExecuteMint(s) \/ CancelMint(s))
    BY <1>8 DEF ExecuteStart, CancelStart, ThenMark
  <2>2. \A p \in Operators : cli'[p].pc = "proposing" => cli'[p] = cli[p]
    BY <1>0, <1>8 DEF ExecuteStart, CancelStart, ThenMark
  <2> QED
    BY <1>7, <2>1, <2>2
<1>9. ASSUME NEW s \in Sessions, NEW a \in Candidates, Approve(a, s) PROVE AmountsFromRows'
  BY <1>7, <1>9 DEF Approve
<1> HIDE DEF AmountsFromRows
<1> QED
  BY <1>1, <1>2, <1>3, <1>4, <1>5, <1>6, <1>8, <1>9
     DEF PipelineNext, CheckDailyCeiling, MintCeilingUnverified, InsertProposalFails,
         ChainAdvances, NewBlock, TokensMove, TokenMoves, vars, contractVars

\* Nothing was paid for a session whose replay flag is not set.
LEMMA UnmintedIsUnpaid ==
    ASSUME FlagsRemember, NEW s, s \notin sessionMinted
    PROVE  PaidFor(s) = 0
<1>1. {i \in DOMAIN mintLog : mintLog[i].terms.sessionId = s} = {}
  BY DEF FlagsRemember
<1> QED
  BY <1>1, SumEmpty DEF PaidFor, MintedBy

\* An execution pays the proposal's amount for its session, and nothing for others.
LEMMA ExecutionPays ==
    ASSUME MiningInv, NEW pid \in ProposalIds, ExecuteMint(pid)
    PROVE  \A q \in Sessions :
             PaidFor(q)' = IF q = proposals[pid].sessionId THEN proposals[pid].amount ELSE PaidFor(q)
<1> DEFINE E == [pid : ProposalIds, terms : TermsType, block : BlockNumbers,
                 at : Nat, ceiling : Nat]
           x == proposals[pid].sessionId
           n == Len(mintLog) + 1
<1>1. /\ Grown(mintLog, mintLog', n)
      /\ mintLog'[n].terms.amount = proposals[pid].amount
      /\ mintLog'[n].terms.sessionId = x
  <2>1. /\ mintLog \in Seq(E) /\ proposals[pid] \in MintProposal
        /\ mintLog' = Append(mintLog, [pid |-> pid, terms |-> Terms(proposals[pid]),
               block |-> block.number, at |-> block.timestamp, ceiling |-> mintCeilingPerBlock])
    BY DEF MiningInv, TypeOK, ExecuteMint
  <2>2. /\ DOMAIN mintLog = 1 .. Len(mintLog) /\ Len(mintLog) \in Nat
        /\ DOMAIN mintLog' = DOMAIN mintLog \cup {n} /\ n \notin DOMAIN mintLog
        /\ \A i \in DOMAIN mintLog : mintLog'[i] = mintLog[i]
        /\ mintLog'[n].terms = Terms(proposals[pid])
    BY <2>1
  <2>3. \A i \in DOMAIN mintLog : mintLog[i].terms.amount \in Nat
    <3>1. \A e \in E : e.terms.amount \in Nat
      BY DEF TermsType
    <3> HIDE DEF E
    <3> QED
      BY <2>1, <2>2, <3>1
  <2>4. IsFiniteSet(DOMAIN mintLog)
    <3>1. IsFiniteSet(1 .. Len(mintLog))
      <4>1. Len(mintLog) \in Nat
        BY <2>2
      <4> QED
        BY <4>1, UpTo
    <3> QED
      BY <2>2, <3>1
  <2>5. /\ mintLog'[n].terms.amount = proposals[pid].amount
        /\ mintLog'[n].terms.sessionId = x /\ proposals[pid].amount \in Nat
    BY <2>1, <2>2 DEF Terms, MintProposal
  <2> QED
    BY <2>2, <2>3, <2>4, <2>5 DEF Grown
<1>2. x \notin sessionMinted /\ FlagsRemember
  BY DEF ExecuteMint, Executable, MiningInv
<1> HIDE DEF x, n
<1>3. ASSUME NEW q \in Sessions
      PROVE  PaidFor(q)' = IF q = x THEN proposals[pid].amount ELSE PaidFor(q)
  <2> DEFINE P == {i \in DOMAIN mintLog : mintLog[i].terms.sessionId = q}
             Q == {i \in DOMAIN mintLog' : mintLog'[i].terms.sessionId = q}
  <2>1. PaidFor(q) = Minted(mintLog, P) /\ PaidFor(q)' = Minted(mintLog', Q)
    BY DEF PaidFor, MintedBy, Minted
  <2>2. P \in SUBSET DOMAIN mintLog /\ Q = IF q = x THEN P \cup {n} ELSE P
    BY <1>1 DEF Grown
  <2>3. q = x => PaidFor(q) = 0
    BY <1>2, UnmintedIsUnpaid
  <2> HIDE DEF P, Q
  <2>4. /\ Minted(mintLog, P) \in Int
        /\ Minted(mintLog', P) = Minted(mintLog, P)
        /\ Minted(mintLog', P \cup {n}) = Minted(mintLog, P) + proposals[pid].amount
    BY <1>1, <2>2, MintedAppend
  <2>5. proposals[pid].amount \in Nat
    BY <1>1 DEF Grown
  <2> QED
    BY <2>1, <2>2, <2>3, <2>4, <2>5
<1> QED
  BY <1>3 DEF x

\* A step that leaves the table's amounts and the log alone is a stutter of the ledger.
LEMMA LedgerStutters ==
    ASSUME \A s \in Sessions : /\ rows'[s] = NoRow <=> rows[s] = NoRow
                               /\ rows[s] # NoRow => rows'[s].gross_prm = rows[s].gross_prm,
           mintLog' = mintLog
    PROVE  UNCHANGED <<Due, Paid>>
<1>1. Due' = Due
  BY DEF Due
<1>2. Paid' = Paid
  BY DEF Paid, PaidFor, MintedBy
<1> QED
  BY <1>1, <1>2

\* Every step of the pipeline settles one session, pays one session what it is
\* owed, or leaves the ledger alone.
LEMMA LedgerStep ==
    ASSUME MiningInv, PipelineInv, AmountsFromRows, [PipelineNext]_pipelineVars
    PROVE  [Ledger!LedgerNext]_<<Due, Paid>>
<1> USE PipelineAssumption
<1>0. /\ PipelineTypeOK
      /\ rows \in [Sessions -> RowType \cup {NoRow}]
      /\ \A s \in Sessions : rows[s] # NoRow =>
            rows[s].gross_prm \in GrossAmounts /\ rows[s].gross_prm # NoRow
  BY DEF PipelineInv, PipelineTypeOK, RowType
<1>1. ASSUME UNCHANGED <<rows, mintLog>> PROVE UNCHANGED <<Due, Paid>>
  BY <1>1, LedgerStutters
<1>2. ASSUME NEW s \in Sessions, InsertProposal(s) PROVE Ledger!LedgerNext
  <2> DEFINE amount == settle[s].gross_prm
  <2>1. /\ rows[s] = NoRow /\ mintLog' = mintLog
        /\ rows' = [rows EXCEPT ![s] = [gross_prm |-> amount,
                       created_at |-> settle[s].created_at, status |-> "Pending"]]
    BY <1>2 DEF InsertProposal, PipelineInv, DatesPast, vars
  <2>2. amount \in GrossAmounts
    BY <1>0, <1>2 DEF InsertProposal, PipelineTypeOK
  <2>3. rows'[s] # NoRow
    <3>1. rows'[s] \in RowType
      BY <1>0, <1>2, <2>1, <2>2 DEF InsertProposal, PipelineTypeOK, RowType, ProposalStatus
    <3> QED
      BY <3>1
  <2> HIDE DEF amount
  <2>4. Due[s] = NoRow /\ Due' = [Due EXCEPT ![s] = amount]
    BY <1>0, <2>1, <2>3 DEF Due
  <2>5. Paid' = Paid
    BY <2>1 DEF Paid, PaidFor, MintedBy
  <2> QED
    BY <2>2, <2>4, <2>5 DEF Ledger!LedgerNext, Ledger!SettleSession
<1>3. ASSUME NEW o \in Operators, MarkRow(o) PROVE UNCHANGED <<Due, Paid>>
  <2>1. mintLog' = mintLog
    BY <1>3 DEF MarkRow, vars
  <2>2. \A q \in Sessions : /\ rows'[q] = NoRow <=> rows[q] = NoRow
                            /\ rows[q] # NoRow => rows'[q].gross_prm = rows[q].gross_prm
    <3>1. rows' \in [Sessions -> RowType \cup {NoRow}]
      BY <1>0, <1>3 DEF MarkRow, PipelineTypeOK, RowType, Idle
    <3>2. CASE rows' = rows
      BY <3>2
    <3> DEFINE x == cli[o].session
    <3>3. CASE rows[x] # NoRow /\ rows' = [rows EXCEPT ![x].status = cli[o].status]
      <4>1. x \in Sessions /\ cli[o].status \in ProposalStatus
        BY <1>0, <1>3 DEF MarkRow, PipelineTypeOK, Idle
      <4> HIDE DEF x
      <4>2. rows[x] \in RowType /\ rows'[x] = [rows[x] EXCEPT !.status = cli[o].status]
        BY <1>0, <3>3, <4>1
      <4>3. rows'[x] \in RowType /\ rows'[x].gross_prm = rows[x].gross_prm
        BY <4>1, <4>2 DEF RowType
      <4> QED
        BY <1>0, <3>3, <4>1, <4>3
    <3> QED
      BY <1>3, <3>2, <3>3 DEF MarkRow
  <2> QED
    BY <2>1, <2>2, LedgerStutters
<1>4. ASSUME NEW s \in Sessions, ExecuteMint(s), rows' = rows PROVE Ledger!LedgerNext
  <2>1. /\ proposals[s].sessionId = s /\ rows[s] # NoRow
        /\ proposals[s].amount = rows[s].gross_prm
        /\ s \notin sessionMinted
    BY <1>4 DEF ExecuteMint, Executable, PipelineInv, ProposalsFromRows, AmountsFromRows
  <2>2. \A q \in Sessions : PaidFor(q)' = IF q = s THEN rows[s].gross_prm ELSE PaidFor(q)
    BY <1>4, <2>1, ExecutionPays
  <2>3. PaidFor(s) = 0
    BY <2>1, UnmintedIsUnpaid DEF MiningInv
  <2>4. Due' = Due /\ Due[s] # NoRow /\ Due[s] = rows[s].gross_prm
    BY <1>0, <1>4, <2>1 DEF Due
  <2>5. Paid[s] = 0 /\ Paid' = [Paid EXCEPT ![s] = Due[s]]
    BY <2>2, <2>3, <2>4 DEF Paid
  <2> QED
    BY <2>4, <2>5 DEF Ledger!LedgerNext, Ledger!PaySession
<1>5. ASSUME NEW o \in Operators, NEW s \in Sessions, NEW marks \in BOOLEAN,
             ExecuteStart(o, s, marks) \/ CancelStart(o, s, marks)
      PROVE  [Ledger!LedgerNext]_<<Due, Paid>>
  <2>1. rows' = rows /\ (ExecuteMint(s) \/ CancelMint(s))
    BY <1>5 DEF ExecuteStart, CancelStart, ThenMark
  <2>2. CASE ExecuteMint(s)
    BY <1>4, <2>1, <2>2
  <2>3. CASE CancelMint(s)
    BY <1>1, <2>1, <2>3 DEF CancelMint
  <2> QED
    BY <2>1, <2>2, <2>3
<1>6. CASE UNCHANGED pipelineVars
  BY <1>1, <1>6 DEF pipelineVars, vars
<1>7. ASSUME NEW s \in Sessions, NEW a \in Candidates, Approve(a, s)
      PROVE  UNCHANGED <<Due, Paid>>
  BY <1>1, <1>7 DEF Approve, ApproveMint
<1>8. ASSUME NEW o \in Operators, ProposeSend(o) PROVE UNCHANGED <<Due, Paid>>
  BY <1>1, <1>8 DEF ProposeSend, ProposeMint
<1>9. ASSUME ChainAdvances \/ \E a \in Accounts, amount \in Amounts : TokensMove(a, amount)
      PROVE  UNCHANGED <<Due, Paid>>
  BY <1>1, <1>9 DEF ChainAdvances, NewBlock, TokensMove, TokenMoves
<1>10. ASSUME NEW s \in Sessions,
              \/ \E gross \in GrossAmounts : CheckDailyCeiling(s, gross)
              \/ MintCeilingUnverified(s)
              \/ InsertProposalFails(s)
       PROVE  UNCHANGED <<Due, Paid>>
  BY <1>1, <1>10 DEF CheckDailyCeiling, MintCeilingUnverified, InsertProposalFails, vars
<1>11. ASSUME NEW o \in Operators, CommandDies(o) \/ \E s \in Sessions : ProposeStart(o, s)
       PROVE  UNCHANGED <<Due, Paid>>
  BY <1>1, <1>11 DEF CommandDies, ProposeStart, vars
<1> QED
  BY <1>2, <1>3, <1>5, <1>6, <1>7, <1>8, <1>9, <1>10, <1>11 DEF PipelineNext

\* The pipeline implements the payout ledger: through every retry, overlap and
\* death of the CLI's commands, what end_session settled for a session is what
\* is minted for it, once or never (end_session, the CLI's propose and execute,
\* proposeMint, executeMint).
THEOREM PipelineImplementsLedger == PipelineSpec => ImplementsLedger
<1>1. PipelineInit => AmountsFromRows
  BY PipelineAssumption DEF PipelineInit, AmountsFromRows, EmptyProposal, Idle
<1>2. PipelineInv /\ AmountsFromRows /\ [PipelineNext]_pipelineVars => AmountsFromRows'
  <2>1. AmountsFromRows /\ UNCHANGED pipelineVars => AmountsFromRows'
    BY DEF AmountsFromRows, pipelineVars, vars, contractVars
  <2> QED
    BY <2>1, AmountsPreserved
<1>3. PipelineInit => Ledger!LedgerInit
  <2> SUFFICES ASSUME PipelineInit PROVE Ledger!LedgerInit
    OBVIOUS
  <2>1. \A s : PaidFor(s) = 0
    <3>1. DOMAIN mintLog = {}
      BY DEF PipelineInit
    <3>2. \A s : {i \in DOMAIN mintLog : mintLog[i].terms.sessionId = s} = {}
      BY <3>1
    <3> QED
      BY <3>2, SumEmpty DEF PaidFor, MintedBy
  <2>2. Due = [s \in Sessions |-> NoRow]
    BY DEF PipelineInit, Due
  <2>3. Paid = [s \in Sessions |-> 0]
    BY <2>1 DEF Paid
  <2> QED
    BY <2>2, <2>3 DEF Ledger!LedgerInit
<1>4. MiningInv /\ PipelineInv /\ AmountsFromRows /\ [PipelineNext]_pipelineVars
          => [Ledger!LedgerNext]_<<Due, Paid>>
  BY LedgerStep
<1> QED
  BY <1>1, <1>2, <1>3, <1>4, PipelineInvariant, PTL
     DEF PipelineSpec, ImplementsLedger, Ledger!LedgerSpec
-----------------------------------------------------------------------------
(* The reports.                                                             *)

\* Only an execution changes what was minted, for whom and how much.
LEMMA PaidOnlyByExecution ==
    ASSUME PipelineTypeOK, PipelineNext, \A s \in Sessions : ~ExecuteMint(s)
    PROVE  /\ UNCHANGED <<mintLog, sessionMinted>>
           /\ issued'[MiningAddress] = issued[MiningAddress]
<1>1. [Next]_vars /\ TypeOK
  BY StepsAreTransactions DEF PipelineTypeOK
<1>2. CASE UNCHANGED vars
  BY <1>2 DEF vars, contractVars, tokenVars, books
<1>3. CASE Next
  BY <1>1, <1>3, PipelineAssumption, BooksOnlyByExecution, LogGrowsOnlyByExecution
<1> QED
  BY <1>1, <1>2, <1>3

\* The row of a minted session keeps its amount.
LEMMA PaidRowsStay ==
    ASSUME PipelineInv, PipelineNext
    PROVE  \A s \in Sessions : rows[s] # NoRow => rows'[s].gross_prm = rows[s].gross_prm
<1>0. /\ rows \in [Sessions -> RowType \cup {NoRow}] /\ PipelineTypeOK
  BY DEF PipelineInv, PipelineTypeOK
<1>1. ASSUME NEW s \in Sessions, InsertProposal(s)
      PROVE  \A q \in Sessions : rows[q] # NoRow => rows'[q] = rows[q]
  <2>1. rows[s] = NoRow
    BY <1>1 DEF InsertProposal, PipelineInv, DatesPast
  <2> QED
    BY <1>0, <1>1, <2>1 DEF InsertProposal
<1>2. ASSUME NEW o \in Operators, MarkRow(o)
      PROVE  \A q \in Sessions : rows[q] # NoRow => rows'[q].gross_prm = rows[q].gross_prm
  BY <1>0, <1>2 DEF MarkRow, RowType
<1>3. \/ rows' = rows
      \/ \E s \in Sessions : InsertProposal(s)
      \/ \E o \in Operators : MarkRow(o)
  BY DEF PipelineNext, CheckDailyCeiling, MintCeilingUnverified, InsertProposalFails, Approve,
     ProposeSend, CommandDies, ProposeStart, ExecuteStart, CancelStart, ThenMark, ChainAdvances,
     TokensMove
<1> QED
  BY <1>1, <1>2, <1>3

LEMMA PaymentsPreserved ==
    ASSUME MiningInv, PipelineInv, AmountsFromRows, PaymentsExact, [PipelineNext]_pipelineVars
    PROVE  PaymentsExact'
<1> USE PipelineAssumption
<1>0. \A s \in Sessions : /\ s \in sessionMinted => rows[s] # NoRow
                          /\ rows[s] # NoRow => rows[s].gross_prm \in Nat
  BY MiningAssumption DEF PipelineInv, PipelineTypeOK, RowType, ProposalsFromRows
<1>1. ASSUME UNCHANGED <<mintLog, sessionMinted>>,
             issued'[MiningAddress] = issued[MiningAddress],
             \A s \in Sessions : rows[s] # NoRow => rows'[s].gross_prm = rows[s].gross_prm
      PROVE  PaymentsExact'
  <2>1. \A s \in Sessions : PaidFor(s)' = PaidFor(s)
    BY <1>1 DEF PaidFor, MintedBy
  <2>2. Paid' = Paid
    BY <2>1 DEF Paid
  <2> QED
    BY <1>0, <1>1, <2>1, <2>2 DEF PaymentsExact
<1>2. ASSUME NEW s \in Sessions, ExecuteMint(s), PipelineNext PROVE PaymentsExact'
  <2>1. /\ proposals[s].sessionId = s /\ rows[s] # NoRow /\ rows[s].gross_prm \in Nat
        /\ proposals[s].amount = rows[s].gross_prm
        /\ s \notin sessionMinted /\ sessionMinted' = sessionMinted \cup {s}
    BY <1>0, <1>2 DEF ExecuteMint, Executable, PipelineInv, ProposalsFromRows, AmountsFromRows
  <2>2. \A q \in Sessions : PaidFor(q)' = IF q = s THEN rows[s].gross_prm ELSE PaidFor(q)
    BY <1>2, <2>1, ExecutionPays
  <2>3. \A q \in Sessions : rows[q] # NoRow => rows'[q].gross_prm = rows[q].gross_prm
    BY <1>2, PaidRowsStay
  <2>4. \A q \in Sessions :
          PaidFor(q)' = IF q \in sessionMinted' THEN rows'[q].gross_prm ELSE 0
    BY <1>0, <2>1, <2>2, <2>3 DEF PaymentsExact
  <2>5. /\ \A q \in Sessions : Paid[q] \in Int
        /\ Paid[s] = 0 /\ Paid'[s] = rows[s].gross_prm
        /\ \A q \in Sessions : q # s => Paid'[q] = Paid[q]
    BY <1>0, <2>1, <2>2 DEF Paid, PaymentsExact
  <2>6. SumFunctionOnSet(Paid', Sessions) = SumFunctionOnSet(Paid, Sessions) - Paid[s] + Paid'[s]
    <3>1. Paid'[s] \in Int /\ IsFiniteSet(Sessions)
      BY <2>1, <2>5
    <3> QED
      BY <2>5, <3>1, SumChange
  <2>7. SumFunctionOnSet(Paid, Sessions) \in Int
    <3>1. IsFiniteSet(Sessions)
      OBVIOUS
    <3> QED
      BY <2>5, <3>1, SumType
  <2>8. issued'[MiningAddress] = SumFunctionOnSet(Paid', Sessions)
    <3>1. issued' = [issued EXCEPT ![MiningAddress] = issued[MiningAddress] + rows[s].gross_prm]
      BY <1>2, <2>1 DEF ExecuteMint, Mint
    <3>2. issued \in [Accounts -> Nat] /\ MiningAddress \in Accounts
      BY MiningAssumption DEF MiningInv, TypeOK, TokenTypeOK
    <3>3. issued'[MiningAddress] = issued[MiningAddress] + rows[s].gross_prm
      BY <3>1, <3>2
    <3> QED
      BY <2>1, <2>5, <2>6, <2>7, <3>3 DEF PaymentsExact
  <2> QED
    BY <2>4, <2>8 DEF PaymentsExact
<1>3. CASE PipelineNext /\ \A s \in Sessions : ~ExecuteMint(s)
  BY <1>1, <1>3, PaidOnlyByExecution, PaidRowsStay DEF PipelineInv
<1>4. CASE UNCHANGED pipelineVars
  BY <1>1, <1>4 DEF pipelineVars, vars, contractVars, tokenVars, books
<1> QED
  BY <1>2, <1>3, <1>4

LEMMA PaymentsInit == PipelineInit => PaymentsExact
<1> SUFFICES ASSUME PipelineInit PROVE PaymentsExact
  OBVIOUS
<1>1. sessionMinted = {} /\ issued[MiningAddress] = 0 /\ mintLog = <<>>
  BY MiningAssumption DEF PipelineInit
<1>2. \A s \in Sessions : PaidFor(s) = 0
  BY <1>1, UnmintedIsUnpaid DEF FlagsRemember, PipelineInit
<1>3. \A s \in Sessions : Paid[s] = IF s \in {} THEN 0 ELSE 0
  BY <1>2 DEF Paid
<1>4. IsFiniteSet(Sessions)
  BY PipelineAssumption
<1>5. SumFunctionOnSet(Paid, Sessions) = 0 * Cardinality({})
  BY <1>3, <1>4, SumUniform
<1> QED
  BY <1>1, <1>2, <1>5, FS_EmptySet DEF PaymentsExact

\* What the CLI and the contract paid for each session is exactly what its row
\* says, or nothing, and together it is all the contract had minted.
THEOREM PaymentsInvariant == PipelineSpec => []PaymentsExact
<1>1. PipelineInit => AmountsFromRows
  BY PipelineAssumption DEF PipelineInit, AmountsFromRows, EmptyProposal, Idle
<1>2. PipelineInv /\ AmountsFromRows /\ [PipelineNext]_pipelineVars => AmountsFromRows'
  <2>1. AmountsFromRows /\ UNCHANGED pipelineVars => AmountsFromRows'
    BY DEF AmountsFromRows, pipelineVars, vars, contractVars
  <2> QED
    BY <2>1, AmountsPreserved
<1>3. MiningInv /\ PipelineInv /\ AmountsFromRows /\ PaymentsExact /\ [PipelineNext]_pipelineVars
          => PaymentsExact'
  BY PaymentsPreserved
<1> QED
  BY <1>1, <1>2, <1>3, PaymentsInit, PipelineInvariant, PTL DEF PipelineSpec

\* The reports follow from the payments: sums over fewer sessions, or of smaller
\* amounts, are smaller.
LEMMA ReportsFollow ==
    ASSUME PipelineInv, PaymentsExact
    PROVE  ReportsBracketChain
<1> DEFINE g == [s \in Rows |-> rows[s].gross_prm]
<1>1. /\ IsFiniteSet(Sessions) /\ Rows \in SUBSET Sessions /\ Confirmed \in SUBSET Rows
      /\ \A s \in Rows : g[s] \in Nat /\ g[s] = rows[s].gross_prm
      /\ \A s \in Confirmed : Paid[s] = g[s]
      /\ \A s \in Sessions : Paid[s] \in Nat
      /\ \A s \in Sessions : s \notin Rows => Paid[s] = 0
      /\ \A s \in Rows : Paid[s] <= g[s]
  <2>1. \A s \in Sessions : /\ rows[s] # NoRow => rows[s].gross_prm \in Nat
                            /\ s \in sessionMinted => rows[s] # NoRow
                            /\ rows[s] # NoRow /\ rows[s].status = "Confirmed" => s \in sessionMinted
    BY PipelineAssumption, MiningAssumption DEF PipelineInv, PipelineTypeOK, RowType, ProposalsFromRows,
       RowsNeverAheadOfChain
  <2> QED
    BY <2>1, PipelineAssumption DEF Rows, Confirmed, PaymentsExact, Paid
<1>2. \A S : GrossOf(S) = SumFunctionOnSet(g, S)
  BY DEF GrossOf
<1> HIDE DEF g
<1>3. IsFiniteSet(Rows) /\ IsFiniteSet(Confirmed)
  BY <1>1, FS_Subset
<1>4. GrossOf(Confirmed) <= issued[MiningAddress]
  <2>1. \A s \in Confirmed : g[s] \in Nat /\ g[s] <= Paid[s]
    BY <1>1
  <2>2. Confirmed \in SUBSET Sessions
    BY <1>1
  <2>3. SumFunctionOnSet(g, Confirmed) <= SumFunctionOnSet(Paid, Sessions)
    BY <1>1, <2>1, <2>2, SumLess
  <2> QED
    BY <1>2, <2>3 DEF PaymentsExact
<1>5. issued[MiningAddress] <= GrossOf(Rows)
  <2> DEFINE h == [s \in Sessions |-> IF s \in Rows THEN g[s] ELSE 0]
  <2>1. \A s \in Sessions : h[s] \in Nat /\ Paid[s] \in Nat /\ Paid[s] <= h[s]
    BY <1>1
  <2>2. \A s \in Rows : h[s] = g[s]
    BY <1>1
  <2> HIDE DEF h
  <2>3. SumFunctionOnSet(Paid, Sessions) <= SumFunctionOnSet(h, Sessions)
    BY <1>1, <2>1, SumLess
  <2>4. SumFunctionOnSet(h, Rows) = SumFunctionOnSet(g, Rows)
    BY <1>3, <2>2, SumSame
  <2>5. SumFunctionOnSet(h, Sessions) = SumFunctionOnSet(h, Rows)
    BY <1>1, <2>1, SumSupport DEF h
  <2> QED
    BY <1>2, <2>3, <2>4, <2>5 DEF PaymentsExact
<1>6. get_earnings_24h.total_gross_prm <= get_earnings_by_commodity.total_gross_prm
  <2> DEFINE recent == {s \in Rows : WithinDay(rows[s].created_at)}
  <2>1. SumFunctionOnSet(g, recent) <= SumFunctionOnSet(g, Rows)
    <3>1. recent \in SUBSET Rows /\ \A s \in recent : g[s] \in Nat /\ g[s] <= g[s]
      BY <1>1
    <3> HIDE DEF recent
    <3> QED
      BY <1>1, <1>3, <3>1, SumLess
  <2> QED
    BY <1>2, <2>1 DEF get_earnings_24h, get_earnings_by_commodity
<1>7. entity_share.share_bps <= 10000
  <2> DEFINE total == GrossOf(Confirmed)
             company == IF COMPANY_WALLET = Wallet THEN total ELSE 0
  <2>1. total \in Nat
    <3>1. \A s \in Confirmed : g[s] \in Int /\ g[s] \in Nat
      BY <1>1
    <3>2. SumFunctionOnSet(g, Confirmed) \in Int
      BY <1>3, <3>1, SumType
    <3>3. SumFunctionOnSet(g, {}) <= SumFunctionOnSet(g, Confirmed)
      BY <1>3, <3>1, SumLess
    <3> QED
      BY <1>2, <3>2, <3>3, SumEmpty
  <2>2. entity_share.share_bps = IF total = 0 THEN 0 ELSE RoundToBps(company * 10000, total)
    BY DEF entity_share, company_mining_share
  <2> HIDE DEF total
  <2>3. CASE total = 0
    BY <2>2, <2>3
  <2>4. CASE total # 0 /\ COMPANY_WALLET = Wallet
    <3>1. (2 * (total * 10000) + total) \div (2 * total) = 10000
      <4>1. /\ 2 * total \in Nat /\ 2 * total > 0
            /\ 2 * (total * 10000) + total = 10000 * (2 * total) + total
            /\ total \in 0 .. (2 * total) - 1
        BY <2>1, <2>4
      <4> QED
        BY <2>1, <2>4, <4>1
    <3> QED
      BY <2>2, <2>4, <3>1 DEF RoundToBps
  <2>5. CASE total # 0 /\ COMPANY_WALLET # Wallet
    <3>1. (2 * (0 * 10000) + total) \div (2 * total) = 0
      BY <2>1, <2>5
    <3> QED
      BY <2>2, <2>5, <3>1 DEF RoundToBps
  <2> QED
    BY <2>3, <2>4, <2>5
<1>8. ASSUME NEW alerts \in wallet_alerts, NEW i \in DOMAIN alerts,
             alerts[i].kind = "payout_confirmed"
      PROVE  PaidFor(alerts[i].session_id) = rows[alerts[i].session_id].gross_prm
  <2>1. PICK payouts \in get_payouts_for_wallet(ALERTS_LIMIT) :
          alerts = [j \in DOMAIN payouts |->
                       [session_id |-> payouts[j], kind |-> payout_alert(rows[payouts[j]].status)]]
    BY DEF wallet_alerts
  <2>2. payouts[i] \in Rows
    BY <2>1 DEF get_payouts_for_wallet
  <2>3. alerts[i].session_id = payouts[i] /\ rows[payouts[i]].status = "Confirmed"
    BY <1>8, <2>1 DEF payout_alert
  <2>4. payouts[i] \in Confirmed
    BY <2>2, <2>3 DEF Confirmed
  <2> QED
    BY <1>1, <2>3, <2>4 DEF Paid
<1> QED
  BY <1>4, <1>5, <1>6, <1>7, <1>8
  DEF ReportsBracketChain, entity_share, company_mining_share, get_earnings_by_commodity

\* What the service reports brackets what the chain did, for any number of
\* sessions and whichever commands died or were repeated: what the company share
\* counts was minted, what was minted is among the earnings, and a payout is
\* announced only when exactly its amount was minted (company_mining_share,
\* get_earnings_by_commodity, get_earnings_24h, wallet_alerts).
THEOREM ReportsTrue == PipelineSpec => []ReportsBracketChain
<1>1. PipelineInv /\ PaymentsExact => ReportsBracketChain
  BY ReportsFollow
<1> QED
  BY <1>1, PipelineInvariant, PaymentsInvariant, PTL
=============================================================================
