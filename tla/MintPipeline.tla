---------------------------- MODULE MintPipeline ----------------------------
(***************************************************************************)
(* From a finished session to minted PRM: the last part of the backend's   *)
(* end_session (daily ceiling, then a row in mint_proposals), the admin    *)
(* CLI that carries the row to the chain, and the mint contract.           *)
(*                                                                         *)
(* The CLI is a process per invocation.  Each command touches Postgres and *)
(* the chain in separate steps, may die between them, and runs beside      *)
(* other invocations.  derive_proposal_id is injective in what the         *)
(* properties tell apart, so a session is its own proposal id, and         *)
(* proposeMint gets it for both.  An operator passes --session-id of the   *)
(* proposal named, or leaves it out.                                       *)
(***************************************************************************)
EXTENDS MiningContract, FiniteSetsExt

CONSTANTS
    Operators,       \* concurrent invocations of the admin CLI
    Wallet,          \* the wallet the sessions pay
    RegistryAddress, \* the address of the NodeRegistry, the token's burner
    NoRow,           \* the session has no row in mint_proposals
    GrossAmounts,    \* amounts end_session may compute, zero included
    DailyCeiling,    \* daily_ceiling_wei
    DAY              \* 24 hours, in clock ticks

ProposalStatus ==
    {"Pending", "ApprovedByMultiSig", "Submitted", "Confirmed", "Rejected"}

RowType == [gross_prm : GrossAmounts, created_at : Nat, status : ProposalStatus]

ASSUME PipelineAssumption ==
    /\ IsFiniteSet(Sessions)
    /\ ProposalIds = Sessions
    /\ Wallet \in Recipients \cap Accounts
    /\ RegistryAddress \in Accounts
    /\ Candidates \subseteq Accounts
    /\ Cardinality(Candidates) <= TOTAL_SIGNERS
    /\ GrossAmounts \subseteq Amounts
    /\ NoRow \notin RowType \cup GrossAmounts
    /\ DailyCeiling \in Nat
    /\ DAY \in Nat

VARIABLES
    rows,     \* table mint_proposals, UNIQUE(session_id)
    settle,   \* per session, where its end_session stands
    cli       \* per operator, the command under way

pipelineVars == <<vars, rows, settle, cli>>

Idle == [pc |-> "idle"]

PipelineTypeOK ==
    /\ TypeOK
    /\ rows \in [Sessions -> RowType \cup {NoRow}]
    /\ settle \in [Sessions ->
          [pc : {"running", "refused", "done"}]
              \cup [pc : {"inserting"}, gross_prm : GrossAmounts, created_at : Nat]]
    /\ cli \in [Operators -> {Idle}
          \cup [pc : {"proposing"}, session : Sessions, amount : GrossAmounts]
          \cup [pc : {"marking"}, session : Sessions, status : ProposalStatus]]

\* The deployed system: the token points at the contract, the signers are set.
PipelineInit ==
    /\ minter = MiningAddress
    /\ burner = RegistryAddress
    /\ balanceOf = [a \in Accounts |-> 0]
    /\ totalSupply = 0
    /\ issued = [a \in Accounts |-> 0]
    /\ retired = [a \in Accounts |-> 0]
    /\ isSigner = Candidates
    /\ signerCount = Cardinality(Candidates)
    /\ mintCeilingPerBlock \in Ceilings
    /\ sessionMinted = {}
    /\ proposals = [p \in ProposalIds |-> EmptyProposal]
    /\ hasApproved = [p \in ProposalIds |-> {}]
    /\ mintedInBlock = [b \in BlockNumbers |-> 0]
    /\ block = [number |-> 0, timestamp |-> GenesisTime]
    /\ mintLog = <<>>
    /\ approvalLog = {}
    /\ rows = [s \in Sessions |-> NoRow]
    /\ settle = [s \in Sessions |-> [pc |-> "running"]]
    /\ cli = [o \in Operators |-> Idle]

\* created_at > now() - interval '24 hours'
WithinDay(t) == t + DAY > block.timestamp

total_minted_wei_24h ==
    MapThenSumSet(LAMBDA s : rows[s].gross_prm,
        {s \in Sessions : /\ rows[s] # NoRow
                          /\ rows[s].status = "Confirmed"
                          /\ WithinDay(rows[s].created_at)})
-----------------------------------------------------------------------------
(* Mutated forms, one plausible slip each.                                  *)

ProposeSend_RoundsUp(o) ==
    LET s == cli[o].session IN
    /\ cli[o].pc = "proposing"
    /\ ProposeMint(s, s, Wallet, cli[o].amount + 1)
    /\ cli' = [cli EXCEPT ![o] = [pc |-> "marking", session |-> s, status |-> "Submitted"]]
    /\ UNCHANGED <<rows, settle>>

ExecuteStart_MarksFirst(o, s, marks) ==
    /\ cli[o] = Idle
    /\ marks
    /\ proposals[s].proposedAt # 0
    /\ cli' = [cli EXCEPT ![o] = [pc |-> "marking", session |-> s, status |-> "Confirmed"]]
    /\ UNCHANGED <<vars, rows, settle>>

InsertProposal_AnyStatus(s) ==
    /\ settle[s].pc = "inserting"
    /\ rows' = [rows EXCEPT ![s] =
           [gross_prm |-> settle[s].gross_prm, created_at |-> settle[s].created_at,
            status |-> "Draft"]]
    /\ settle' = [settle EXCEPT ![s] = [pc |-> "done"]]
    /\ UNCHANGED <<vars, cli>>
-----------------------------------------------------------------------------
(* The end of end_session.                                                  *)

ExceedsDailyCeiling(gross) == total_minted_wei_24h + gross > DailyCeiling

\* The attestation was made and the payout computed; the 24h total is read, the
\* ceiling checked and the proposal dated.  A read error or a refused mint ends
\* the session without a row.
CheckDailyCeiling(s, gross) ==
    /\ settle[s].pc = "running"
    /\ settle' = [settle EXCEPT ![s] =
           IF ExceedsDailyCeiling(gross) THEN [pc |-> "refused"]
           ELSE [pc |-> "inserting", gross_prm |-> gross, created_at |-> block.timestamp]]
    /\ UNCHANGED <<vars, rows, cli>>

MintCeilingUnverified(s) ==
    /\ settle[s].pc = "running"
    /\ settle' = [settle EXCEPT ![s] = [pc |-> "refused"]]
    /\ UNCHANGED <<vars, rows, cli>>

InsertProposal(s) ==
    /\ settle[s].pc = "inserting"
    /\ rows' = [rows EXCEPT ![s] =
           [gross_prm |-> settle[s].gross_prm, created_at |-> settle[s].created_at,
            status |-> "Pending"]]
    /\ settle' = [settle EXCEPT ![s] = [pc |-> "done"]]
    /\ UNCHANGED <<vars, cli>>

\* A failed insert is logged and the session is reported completed all the same.
InsertProposalFails(s) ==
    /\ settle[s].pc = "inserting"
    /\ settle' = [settle EXCEPT ![s] = [pc |-> "done"]]
    /\ UNCHANGED <<vars, rows, cli>>
-----------------------------------------------------------------------------
(* The admin CLI.                                                           *)

\* get_pending_proposals, and the row of the session is in it.
ProposeStart(o, s) ==
    /\ cli[o] = Idle
    /\ rows[s] # NoRow
    /\ rows[s].status = "Pending"
    /\ cli' = [cli EXCEPT ![o] =
           [pc |-> "proposing", session |-> s, amount |-> rows[s].gross_prm]]
    /\ UNCHANGED <<vars, rows, settle>>

ProposeSend(o) ==
    LET s == cli[o].session IN
    /\ cli[o].pc = "proposing"
    /\ ProposeMint(s, s, Wallet, cli[o].amount)
    /\ cli' = [cli EXCEPT ![o] = [pc |-> "marking", session |-> s, status |-> "Submitted"]]
    /\ UNCHANGED <<rows, settle>>

\* update_proposal_status, the last step of Propose, Execute and Cancel.
MarkRow(o) ==
    LET s == cli[o].session IN
    /\ cli[o].pc = "marking"
    /\ rows' = IF rows[s] = NoRow THEN rows
               ELSE [rows EXCEPT ![s].status = cli[o].status]
    /\ cli' = [cli EXCEPT ![o] = Idle]
    /\ UNCHANGED <<vars, settle>>

\* The transaction reverts, the receipt never comes, Postgres is away or the
\* process dies: the command ends where it stands.
CommandDies(o) ==
    /\ cli[o] # Idle
    /\ cli' = [cli EXCEPT ![o] = Idle]
    /\ UNCHANGED <<vars, rows, settle>>

Approve(signer, s) ==
    /\ ApproveMint(signer, s)
    /\ UNCHANGED <<rows, settle, cli>>

\* What Execute and Cancel do after their transaction: without --session-id
\* the row is left unchanged.
ThenMark(o, s, marks, status) ==
    /\ cli' = IF marks THEN [cli EXCEPT ![o] = [pc |-> "marking", session |-> s,
                                                status |-> status]]
              ELSE cli
    /\ UNCHANGED <<rows, settle>>

ExecuteStart(o, s, marks) ==
    /\ cli[o] = Idle
    /\ ExecuteMint(s)
    /\ ThenMark(o, s, marks, "Confirmed")

CancelStart(o, s, marks) ==
    /\ cli[o] = Idle
    /\ CancelMint(s)
    /\ ThenMark(o, s, marks, "Rejected")

ChainAdvances ==
    /\ NewBlock
    /\ UNCHANGED <<rows, settle, cli>>

\* The wallet spends what it was paid, the registry burns what was slashed.
TokensMove(account, amount) ==
    /\ TokenMoves(account, amount)
    /\ UNCHANGED <<rows, settle, cli>>

PipelineNext ==
    \/ \E s \in Sessions :
          \/ \E gross \in GrossAmounts : CheckDailyCeiling(s, gross)
          \/ MintCeilingUnverified(s)
          \/ InsertProposal(s)
          \/ InsertProposalFails(s)
          \/ \E a \in Candidates : Approve(a, s)
    \/ \E o \in Operators :
          \/ ProposeSend(o)
          \/ MarkRow(o)
          \/ CommandDies(o)
          \/ \E s \in Sessions :
                \/ ProposeStart(o, s)
                \/ \E marks \in BOOLEAN : ExecuteStart(o, s, marks) \/ CancelStart(o, s, marks)
    \/ \E a \in Accounts, amount \in Amounts : TokensMove(a, amount)
    \/ ChainAdvances

PipelineSpec == PipelineInit /\ [][PipelineNext]_pipelineVars
-----------------------------------------------------------------------------
(* Properties.                                                              *)

\* The database never runs ahead of the chain: a row marked Submitted has a
\* proposal on chain and a row marked Confirmed was minted, whichever commands
\* died, were retried or overlapped (the order chain first, row second of the
\* CLI's Propose and Execute).
RowsNeverAheadOfChain ==
    \A s \in Sessions : rows[s] # NoRow =>
        /\ rows[s].status = "Submitted" => proposals[s].proposedAt # 0
        /\ rows[s].status = "Confirmed" => s \in sessionMinted

\* A row is Confirmed no earlier than one timelock after it was dated, although
\* the two clocks are read by different programs (created_at is set by
\* end_session, the timelock starts at proposeMint): with a timelock of two
\* days no Confirmed row is ever inside the window of total_minted_wei_24h.
ConfirmedAfterTimelock ==
    \A s \in Sessions :
        rows[s] # NoRow /\ rows[s].status = "Confirmed"
            => rows[s].created_at + TIMELOCK_DELAY <= block.timestamp

\* What was minted for a session, 0 if nothing.
PaidFor(s) ==
    MintedBy({i \in DOMAIN mintLog : mintLog[i].terms.sessionId = s})

\* The refinement mapping: what each session is owed, and what it was paid.
Due == [s \in Sessions |-> IF rows[s] = NoRow THEN NoRow ELSE rows[s].gross_prm]
Paid == [s \in Sessions |-> PaidFor(s)]

Ledger == INSTANCE PayoutLedger WITH
    Amounts <- GrossAmounts,
    Unsettled <- NoRow,
    due <- Due,
    paid <- Paid

\* The pipeline implements the payout ledger: what end_session settled is what
\* is minted, once or never, through every retry and overlap of the CLI.
ImplementsLedger == Ledger!LedgerSpec

\* postgres-store/src/lib.rs:332 says total_minted_wei_24h "Returns the total
\* gross_prm (wei) actually minted in the last 24 hours".  Stated for states in
\* which every minted session's row is marked, so that no dead command blurs it.
DailyTotalCountsMints ==
    (\A s \in sessionMinted : rows[s].status = "Confirmed") =>
        total_minted_wei_24h = MintedBy({i \in DOMAIN mintLog : WithinDay(mintLog[i].at)})

-----------------------------------------------------------------------------
(* The inductive invariant: what the row invariants above rest on.          *)

\* Nothing is dated in the future, and a row is there only after its end_session
\* is done with it.
DatesPast ==
    \A s \in Sessions :
        /\ settle[s].pc = "inserting" => settle[s].created_at <= block.timestamp
        /\ rows[s] # NoRow => /\ settle[s].pc = "done"
                              /\ rows[s].created_at <= block.timestamp

\* A proposal on chain is for the session its id was derived from and was made
\* from a row that is older; a minted session has waited out the timelock.
ProposalsFromRows ==
    \A s \in Sessions :
        /\ proposals[s].proposedAt # 0 =>
              /\ proposals[s].sessionId = s
              /\ rows[s] # NoRow
              /\ rows[s].created_at <= proposals[s].proposedAt
        /\ s \in sessionMinted =>
              /\ proposals[s].proposedAt # 0
              /\ rows[s].created_at + TIMELOCK_DELAY <= block.timestamp

\* What a command of the CLI is about to write is already true on chain.
CommandsFollowChain ==
    \A o \in Operators :
        /\ cli[o].pc = "proposing" => rows[cli[o].session] # NoRow
        /\ cli[o].pc = "marking" /\ cli[o].status = "Submitted"
              => proposals[cli[o].session].proposedAt # 0
        /\ cli[o].pc = "marking" /\ cli[o].status = "Confirmed"
              => cli[o].session \in sessionMinted

\* What a command is about to propose, and what is proposed, is what the row says.
AmountsFromRows ==
    /\ \A s \in Sessions :
          proposals[s].proposedAt # 0 => proposals[s].amount = rows[s].gross_prm
    /\ \A o \in Operators :
          cli[o].pc = "proposing" => cli[o].amount = rows[cli[o].session].gross_prm

\* A session was paid all it is owed, or nothing, as its replay flag says; what
\* the contract had minted went to the sessions.
PaymentsExact ==
    /\ \A s \in Sessions :
          PaidFor(s) = IF s \in sessionMinted THEN rows[s].gross_prm ELSE 0
    /\ issued[MiningAddress] = SumFunctionOnSet(Paid, Sessions)

PipelineInv ==
    /\ PipelineTypeOK
    /\ DatesPast
    /\ ProposalsFromRows
    /\ CommandsFollowChain
    /\ RowsNeverAheadOfChain
=============================================================================
