--------------------------- MODULE MiningContract ---------------------------
(***************************************************************************)
(* The mint contract, contracts/src/MiningContract.sol, together with the  *)
(* token it mints.  A mint needs REQUIRED_APPROVALS signers, a timelock, a *)
(* per-block ceiling and a session that was not minted before.  A call     *)
(* that reverts changes nothing, so every `revert` is a guard and one      *)
(* action is one successful transaction; the owner-only calls are the      *)
(* owner's, so the caller is not a parameter of them.                      *)
(*                                                                         *)
(* mintLog and approvalLog are the events the contract emits (MintExecuted,*)
(* MintApproved, joined with the proposal they speak of): no action reads  *)
(* them, the properties do.                                                *)
(***************************************************************************)
EXTENDS PrimToken, FiniteSets, Sequences, Functions

CONSTANTS
    Sessions,            \* session ids (bytes32)
    ProposalIds,         \* proposal ids (bytes32)
    Candidates,          \* accounts the owner may pass to addSigner
    Recipients,          \* recipients the owner may pass
    Minters,             \* minters and burners the token's owner may set
    Amounts,             \* amounts the owner may pass, in wei
    Ceilings,            \* per-block ceilings the owner may pass
    MiningAddress,       \* the address of this contract
    TIMELOCK_DELAY,      \* 48 hours, in clock ticks
    REQUIRED_APPROVALS,  \* 3
    TOTAL_SIGNERS,       \* 5
    GenesisTime,         \* block.timestamp of the first block, never 0
    MaxBlock             \* bound: blocks the model lets pass

ASSUME MiningAssumption ==
    /\ IsFiniteSet(Accounts)
    /\ MiningAddress \in Accounts
    /\ Candidates \subseteq Accounts \cup {ZeroAddress}
    /\ Recipients \subseteq Accounts \cup {ZeroAddress}
    /\ Minters \subseteq Accounts \cup {ZeroAddress}
    /\ Amounts \subseteq Nat
    /\ Ceilings \subseteq Nat
    /\ TIMELOCK_DELAY \in Nat
    /\ REQUIRED_APPROVALS \in Nat
    /\ TOTAL_SIGNERS \in Nat
    /\ GenesisTime \in Nat \ {0}
    /\ MaxBlock \in Nat

VARIABLES
    isSigner,             \* the accounts whose isSigner flag is set
    signerCount,
    mintCeilingPerBlock,
    sessionMinted,        \* the sessions whose replay flag is set
    proposals,
    hasApproved,          \* per proposal id, the accounts whose flag is set
    mintedInBlock,
    block,                \* block.number and block.timestamp
    mintLog,              \* MintExecuted events, in order
    approvalLog           \* MintApproved events

contractVars == <<isSigner, signerCount, mintCeilingPerBlock, sessionMinted,
                  proposals, hasApproved, mintedInBlock>>
vars == <<contractVars, tokenVars, block, mintLog, approvalLog>>

BlockNumbers == 0 .. MaxBlock

MintProposal ==
    [sessionId : Sessions \cup {ZeroAddress},
     recipient : Accounts \cup {ZeroAddress},
     amount : Nat,
     proposedAt : Nat,
     approvals : Nat,
     executed : BOOLEAN,
     cancelled : BOOLEAN]

\* What a mapping holds under a key that was never written: every field zero.
EmptyProposal ==
    [sessionId |-> ZeroAddress, recipient |-> ZeroAddress, amount |-> 0,
     proposedAt |-> 0, approvals |-> 0, executed |-> FALSE, cancelled |-> FALSE]

\* What a proposal would mint, and when it was put forward.
Terms(p) ==
    [sessionId |-> p.sessionId, recipient |-> p.recipient,
     amount |-> p.amount, proposedAt |-> p.proposedAt]

TermsType ==
    [sessionId : Sessions \cup {ZeroAddress},
     recipient : Accounts \cup {ZeroAddress},
     amount : Nat,
     proposedAt : Nat]

\* One type invariant for the contract, its token and its event history.
TypeOK ==
    /\ TokenTypeOK
    /\ isSigner \subseteq Accounts
    /\ signerCount \in Nat
    /\ mintCeilingPerBlock \in Nat
    /\ sessionMinted \subseteq Sessions
    /\ proposals \in [ProposalIds -> MintProposal]
    /\ hasApproved \in [ProposalIds -> SUBSET Accounts]
    /\ mintedInBlock \in [BlockNumbers -> Nat]
    /\ block \in [number : BlockNumbers, timestamp : Nat \ {0}]
    /\ mintLog \in Seq([pid : ProposalIds, terms : TermsType,
                        block : BlockNumbers, at : Nat, ceiling : Nat])
    /\ approvalLog \subseteq [pid : ProposalIds, signer : Accounts,
                              terms : TermsType]

\* initialize: the owner, the token and the first ceiling; no signers yet.
Init ==
    /\ TokenInit
    /\ isSigner = {}
    /\ signerCount = 0
    /\ mintCeilingPerBlock \in Ceilings
    /\ sessionMinted = {}
    /\ proposals = [p \in ProposalIds |-> EmptyProposal]
    /\ hasApproved = [p \in ProposalIds |-> {}]
    /\ mintedInBlock = [b \in BlockNumbers |-> 0]
    /\ block = [number |-> 0, timestamp |-> GenesisTime]
    /\ mintLog = <<>>
    /\ approvalLog = {}

-----------------------------------------------------------------------------
(* Mutated forms of the operations below, one plausible slip each.          *)

AddSigner_CountNotRaised(signer) ==
    /\ signer # ZeroAddress
    /\ signer \notin isSigner
    /\ signerCount < TOTAL_SIGNERS
    /\ isSigner' = isSigner \cup {signer}
    /\ UNCHANGED <<signerCount, mintCeilingPerBlock, sessionMinted, proposals,
                   hasApproved, mintedInBlock, tokenVars, block, mintLog, approvalLog>>

ProposeMint_KeepsApprovals(pid, sid, recipient, amount) ==
    /\ recipient # ZeroAddress
    /\ amount # 0
    /\ sid \notin sessionMinted
    /\ proposals' = [proposals EXCEPT ![pid] =
           [sessionId |-> sid, recipient |-> recipient, amount |-> amount,
            proposedAt |-> block.timestamp, approvals |-> @.approvals,
            executed |-> FALSE, cancelled |-> FALSE]]
    /\ UNCHANGED <<isSigner, signerCount, mintCeilingPerBlock, sessionMinted,
                   hasApproved, mintedInBlock, tokenVars, block, mintLog, approvalLog>>

Executable_NoReplayGuard(pid) ==
    LET p == proposals[pid] IN
    /\ p.proposedAt # 0
    /\ ~p.executed
    /\ ~p.cancelled
    /\ p.approvals >= REQUIRED_APPROVALS
    /\ block.timestamp >= p.proposedAt + TIMELOCK_DELAY
    /\ mintedInBlock[block.number] + p.amount <= mintCeilingPerBlock

Executable_PerMintCeiling(pid) ==
    LET p == proposals[pid] IN
    /\ p.proposedAt # 0
    /\ ~p.executed
    /\ ~p.cancelled
    /\ p.approvals >= REQUIRED_APPROVALS
    /\ block.timestamp >= p.proposedAt + TIMELOCK_DELAY
    /\ p.sessionId \notin sessionMinted
    /\ p.amount <= mintCeilingPerBlock

Executable_NoTimelock(pid) ==
    LET p == proposals[pid] IN
    /\ p.proposedAt # 0
    /\ ~p.executed
    /\ ~p.cancelled
    /\ p.approvals >= REQUIRED_APPROVALS
    /\ p.sessionId \notin sessionMinted
    /\ mintedInBlock[block.number] + p.amount <= mintCeilingPerBlock
-----------------------------------------------------------------------------
(* The operations.                                                          *)

AddSigner(signer) ==
    /\ signer # ZeroAddress
    /\ signer \notin isSigner
    /\ signerCount < TOTAL_SIGNERS
    /\ isSigner' = isSigner \cup {signer}
    /\ signerCount' = signerCount + 1
    /\ UNCHANGED <<mintCeilingPerBlock, sessionMinted, proposals, hasApproved,
                   mintedInBlock, tokenVars, block, mintLog, approvalLog>>

\* A mutated form: the check that the account is a signer is dropped.
RemoveSigner_Unchecked(signer) ==
    /\ isSigner' = isSigner \ {signer}
    /\ signerCount' = signerCount - 1
    /\ UNCHANGED <<mintCeilingPerBlock, sessionMinted, proposals, hasApproved,
                   mintedInBlock, tokenVars, block, mintLog, approvalLog>>

RemoveSigner(signer) ==
    /\ signer \in isSigner
    /\ isSigner' = isSigner \ {signer}
    /\ signerCount' = signerCount - 1
    /\ UNCHANGED <<mintCeilingPerBlock, sessionMinted, proposals, hasApproved,
                   mintedInBlock, tokenVars, block, mintLog, approvalLog>>

SetMintCeiling(newCeiling) ==
    /\ mintCeilingPerBlock' = newCeiling
    /\ UNCHANGED <<isSigner, signerCount, sessionMinted, proposals, hasApproved,
                   mintedInBlock, tokenVars, block, mintLog, approvalLog>>

\* Whatever the mapping held under pid is overwritten: a live, an executed or
\* a cancelled proposal too.  hasApproved[pid] is left alone.
ProposeMint(pid, sid, recipient, amount) ==
    /\ recipient # ZeroAddress
    /\ amount # 0
    /\ sid \notin sessionMinted
    /\ proposals' = [proposals EXCEPT ![pid] =
           [sessionId |-> sid, recipient |-> recipient, amount |-> amount,
            proposedAt |-> block.timestamp, approvals |-> 0,
            executed |-> FALSE, cancelled |-> FALSE]]
    /\ UNCHANGED <<isSigner, signerCount, mintCeilingPerBlock, sessionMinted,
                   hasApproved, mintedInBlock, tokenVars, block, mintLog, approvalLog>>

ApproveMint(signer, pid) ==
    /\ signer \in isSigner
    /\ proposals[pid].proposedAt # 0
    /\ ~proposals[pid].executed
    /\ ~proposals[pid].cancelled
    /\ signer \notin hasApproved[pid]
    /\ hasApproved' = [hasApproved EXCEPT ![pid] = @ \cup {signer}]
    /\ proposals' = [proposals EXCEPT ![pid].approvals = @ + 1]
    /\ approvalLog' = approvalLog \cup
           {[pid |-> pid, signer |-> signer, terms |-> Terms(proposals[pid])]}
    /\ UNCHANGED <<isSigner, signerCount, mintCeilingPerBlock, sessionMinted,
                   mintedInBlock, tokenVars, block, mintLog>>

\* The checks of executeMint that precede the call of the token.
Executable(pid) ==
    LET p == proposals[pid] IN
    /\ p.proposedAt # 0
    /\ ~p.executed
    /\ ~p.cancelled
    /\ p.approvals >= REQUIRED_APPROVALS
    /\ block.timestamp >= p.proposedAt + TIMELOCK_DELAY
    /\ p.sessionId \notin sessionMinted
    /\ mintedInBlock[block.number] + p.amount <= mintCeilingPerBlock

\* The token's own checks are part of the transaction: if they fail, all of
\* executeMint is undone.
ExecuteMint(pid) ==
    /\ Executable(pid)
    /\ mintedInBlock' = [mintedInBlock EXCEPT ![block.number] = @ + proposals[pid].amount]
    /\ sessionMinted' = sessionMinted \cup {proposals[pid].sessionId}
    /\ proposals' = [proposals EXCEPT ![pid].executed = TRUE]
    /\ Mint(MiningAddress, proposals[pid].recipient, proposals[pid].amount)
    /\ mintLog' = Append(mintLog,
           [pid |-> pid, terms |-> Terms(proposals[pid]), block |-> block.number,
            at |-> block.timestamp, ceiling |-> mintCeilingPerBlock])
    /\ UNCHANGED <<isSigner, signerCount, mintCeilingPerBlock, hasApproved,
                   block, approvalLog>>

\* There is no check that the proposal exists.
CancelMint(pid) ==
    /\ ~proposals[pid].executed
    /\ ~proposals[pid].cancelled
    /\ proposals' = [proposals EXCEPT ![pid].cancelled = TRUE]
    /\ UNCHANGED <<isSigner, signerCount, mintCeilingPerBlock, sessionMinted,
                   hasApproved, mintedInBlock, tokenVars, block, mintLog, approvalLog>>

\* The owner of the token may point it at this or at another minter.
ChangeMinter(newMinter) ==
    /\ SetMinter(newMinter)
    /\ UNCHANGED <<contractVars, block, mintLog, approvalLog>>

\* The owner of the token sets its burner; this contract never burns.
ChangeBurner(newBurner) ==
    /\ SetBurner(newBurner)
    /\ UNCHANGED <<contractVars, block, mintLog, approvalLog>>

\* Holders, other minters and the burner use the token directly.
TokenMoves(account, amount) ==
    /\ OutsideCall(MiningAddress, account, amount)
    /\ UNCHANGED <<contractVars, block, mintLog, approvalLog>>

\* The chain moves on.  Several blocks may carry one timestamp tick.
NewBlock ==
    /\ block.number < MaxBlock
    /\ \E tick \in {0, 1} :
          block' = [number |-> block.number + 1, timestamp |-> block.timestamp + tick]
    /\ UNCHANGED <<contractVars, tokenVars, mintLog, approvalLog>>

Next ==
    \/ \E a \in Candidates : AddSigner(a) \/ RemoveSigner(a)
    \/ \E a \in Minters : ChangeMinter(a) \/ ChangeBurner(a)
    \/ \E a \in Accounts, amount \in Amounts : TokenMoves(a, amount)
    \/ \E c \in Ceilings : SetMintCeiling(c)
    \/ \E pid \in ProposalIds, sid \in Sessions, to \in Recipients,
          amount \in Amounts : ProposeMint(pid, sid, to, amount)
    \/ \E a \in Accounts, pid \in ProposalIds : ApproveMint(a, pid)
    \/ \E pid \in ProposalIds : ExecuteMint(pid) \/ CancelMint(pid)
    \/ NewBlock

Spec == Init /\ [][Next]_vars
-----------------------------------------------------------------------------
(* What the contract promises.                                              *)

\* A session is paid at most once, whichever proposal ids were used for it and
\* however often they were proposed again (sessionMinted, the replay guard of
\* proposeMint and executeMint).
SessionMintedOnce ==
    \A i, j \in DOMAIN mintLog :
        mintLog[i].terms.sessionId = mintLog[j].terms.sessionId => i = j

\* The accounts a log shows to have approved exactly these terms under this id.
Endorsers(log, pid, terms) ==
    {a \in Accounts : [pid |-> pid, signer |-> a, terms |-> terms] \in log}

\* Every mint executed was approved, for exactly the session, recipient, amount
\* and proposal time it was executed with, by REQUIRED_APPROVALS different
\* signers, and waited out the timelock from that proposal on: replacing a
\* proposal under its id never carries an approval or a clock over
\* (proposeMint overwrites, approveMint counts, executeMint checks).
MintsEndorsedAndTimelocked ==
    \A i \in DOMAIN mintLog :
        /\ Cardinality(Endorsers(approvalLog, mintLog[i].pid, mintLog[i].terms))
               >= REQUIRED_APPROVALS
        /\ mintLog[i].at >= mintLog[i].terms.proposedAt + TIMELOCK_DELAY

\* signerCount is the number of signers and never passes TOTAL_SIGNERS
\* through any sequence of addSigner and removeSigner.
SignerCountExact ==
    /\ signerCount = Cardinality(isSigner)
    /\ signerCount <= TOTAL_SIGNERS

\* What the mints with the given places in the log minted together.
MintedBy(places) == SumFunctionOnSet([i \in DOMAIN mintLog |-> mintLog[i].terms.amount], places)

\* The mints executed in a block, summed up to and including each of them,
\* fit the ceiling in force when that one was executed (mintedInBlock and the
\* CeilingExceeded check of executeMint).
BlockCeilingHolds ==
    \A i \in DOMAIN mintLog :
        MintedBy({j \in 1 .. i : mintLog[j].block = mintLog[i].block}) <= mintLog[i].ceiling

\* What the contract had the token mint is what its log of executed mints adds
\* up to, whatever other minters mint, the burner burns and holders send about;
\* and the token's books stay closed meanwhile: the balances add up to the
\* supply, and the supply to what was minted less what was burned.  So with no
\* other minter the supply never passes the executed mints (executeMint calling
\* PrimToken.mint; PrimToken's mint, burn and transfer).
SupplyIsAccounted ==
    /\ issued[MiningAddress] = MintedBy(DOMAIN mintLog)
    /\ BooksClosed

\* MiningContract.sol:59 says hasApproved "Tracks which signers have approved
\* each proposal": a set flag means an approval of what the id stands for now.
HasApprovedMeansApproved ==
    \A pid \in ProposalIds : \A a \in hasApproved[pid] :
        proposals[pid].proposedAt # 0 =>
            a \in Endorsers(approvalLog, pid, Terms(proposals[pid]))

-----------------------------------------------------------------------------
(* The inductive invariant: what the properties above rest on.              *)

\* A proposal that exists names a session and an account.
ProposalsWellFormed ==
    \A pid \in ProposalIds : proposals[pid].proposedAt # 0 =>
        /\ proposals[pid].sessionId \in Sessions
        /\ proposals[pid].recipient \in Accounts

\* Every approval ever counted left its flag set, and every session paid left
\* its replay flag set: proposeMint clears neither.
FlagsRemember ==
    /\ \A e \in approvalLog : e.signer \in hasApproved[e.pid]
    /\ \A i \in DOMAIN mintLog : mintLog[i].terms.sessionId \in sessionMinted

\* The counter of a proposal is backed by as many different accounts that
\* approved its present terms.
ApprovalsBacked ==
    \A pid \in ProposalIds :
        proposals[pid].approvals
            <= Cardinality(Endorsers(approvalLog, pid, Terms(proposals[pid])))

\* mintedInBlock is the sum of the mints of its block.
BlockTally ==
    \A b \in BlockNumbers :
        mintedInBlock[b] = MintedBy({i \in DOMAIN mintLog : mintLog[i].block = b})

MiningInv ==
    /\ TypeOK
    /\ BooksClosed
    /\ SignerCountExact
    /\ ProposalsWellFormed
    /\ FlagsRemember
    /\ ApprovalsBacked
    /\ SessionMintedOnce
    /\ MintsEndorsedAndTimelocked

\* The sums, beside MiningInv.
BooksInv == BlockTally /\ BlockCeilingHolds /\ SupplyIsAccounted
=============================================================================
