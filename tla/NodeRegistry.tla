---------------------------- MODULE NodeRegistry ----------------------------
(***************************************************************************)
(* The node registry, contracts/src/NodeRegistry.sol, with the token whose *)
(* burner it is.  Operators stake PRM to register a node; a slash needs    *)
(* REQUIRED_CONFIRMATIONS observers and the veto window to pass, and burns *)
(* a part of the stake.  As in MiningContract a revert is no step.         *)
(*                                                                         *)
(* slashLog is the SlashExecuted events joined with the proposal they speak*)
(* of, backers what the SlashConfirmed events since the last SlashProposed *)
(* of an id say; no guard reads them.                                      *)
(***************************************************************************)
EXTENDS PrimToken, FiniteSets, Sequences, Functions

CONSTANTS
    NodeIds,             \* node ids (bytes32), the zero id among them
    ZeroNode,            \* bytes32(0)
    NodeOperators,       \* accounts that call registerNode
    Observers,           \* node ids the coordinator passes as observers
    SlashIds,            \* slash proposal ids (bytes32)
    StakeAmounts,        \* amounts an operator may stake
    RegistryAddress,     \* the address of this contract
    Endowment,           \* PRM each operator holds at first
    MIN_STAKE,           \* 10_000e18, in the model's units
    VETO_WINDOW,         \* 4 hours, in clock ticks
    UINT8_MAX,           \* the largest violationCount, 255
    GenesisTime,         \* first block.timestamp
    MaxTime              \* bound: last block.timestamp

\* The literal 2 in executeSlash.
REQUIRED_CONFIRMATIONS == 2

ASSUME RegistryAssumption ==
    /\ IsFiniteSet(Accounts)
    /\ IsFiniteSet(NodeIds)
    /\ ZeroNode \in NodeIds
    /\ RegistryAddress \in Accounts
    /\ NodeOperators \subseteq Accounts \ {RegistryAddress}
    /\ StakeAmounts \subseteq Nat
    /\ IsFiniteSet(Observers)
    /\ Endowment \in Nat
    /\ MIN_STAKE \in Nat
    /\ VETO_WINDOW \in Nat
    /\ UINT8_MAX \in Nat
    /\ GenesisTime \in Nat /\ GenesisTime > VETO_WINDOW
    /\ MaxTime \in Nat

VARIABLES
    nodes,
    slashProposals,
    confirmed,       \* per proposal id, the node ids whose flag is set
    timestamp,       \* block.timestamp
    slashLog,        \* SlashExecuted events, in order
    backers          \* per id, who confirmed what it accuses now

registryVars == <<nodes, slashProposals, confirmed>>
nodeVars == <<registryVars, tokenVars, timestamp, slashLog, backers>>

SlashReason == {"InvalidAttestation", "Downtime"}

NodeInfo == [operator : Accounts \cup {ZeroAddress}, stakedAmount : Nat,
             violationCount : 0 .. UINT8_MAX, active : BOOLEAN, registeredAt : Nat]

SlashProposal == [nodeId : NodeIds, reason : SlashReason, confirmations : Nat,
                  proposedAt : Nat, executed : BOOLEAN, vetoed : BOOLEAN]

SlashEvent == [pid : SlashIds, nodeId : NodeIds, proposedAt : Nat,
               backers : SUBSET Observers, burned : Nat, at : Nat]

\* The part of the type invariant that is about the registry itself.
RegistryStateOK ==
    /\ nodes \in [NodeIds -> NodeInfo]
    /\ slashProposals \in [SlashIds -> SlashProposal]
    /\ confirmed \in [SlashIds -> SUBSET Observers]
    /\ timestamp \in Nat
    /\ slashLog \in Seq(SlashEvent)
    /\ backers \in [SlashIds -> SUBSET Observers]

\* Types of the registry and of the token: no stake, balance or supply ever
\* goes below zero, no violation count beyond its uint8 (executeSlash).
RegistryTypeOK == TokenTypeOK /\ RegistryStateOK

\* The deployed registry: it is the token's burner, the operators have PRM that
\* the minter, another contract, minted to them before.
RegistryInit ==
    /\ minter \in Accounts \ {RegistryAddress}
    /\ burner = RegistryAddress
    /\ balanceOf = [a \in Accounts |-> IF a \in NodeOperators THEN Endowment ELSE 0]
    /\ totalSupply = Endowment * Cardinality(NodeOperators)
    /\ issued = [a \in Accounts |-> IF a = minter THEN totalSupply ELSE 0]
    /\ retired = [a \in Accounts |-> 0]
    /\ nodes = [n \in NodeIds |->
           [operator |-> ZeroAddress, stakedAmount |-> 0, violationCount |-> 0,
            active |-> FALSE, registeredAt |-> 0]]
    /\ slashProposals = [p \in SlashIds |->
           [nodeId |-> ZeroNode, reason |-> "InvalidAttestation", confirmations |-> 0,
            proposedAt |-> 0, executed |-> FALSE, vetoed |-> FALSE]]
    /\ confirmed = [p \in SlashIds |-> {}]
    /\ timestamp = GenesisTime
    /\ slashLog = <<>>
    /\ backers = [p \in SlashIds |-> {}]
-----------------------------------------------------------------------------
(* Registration.                                                            *)

\* A mutated form: the stake returned stays on the node's record.
DeregisterNode_StakeStays(operator, n) ==
    /\ nodes[n].active
    /\ nodes[n].operator = operator
    /\ nodes' = [nodes EXCEPT ![n].active = FALSE]
    /\ Transfer(RegistryAddress, operator, nodes[n].stakedAmount)
    /\ UNCHANGED <<slashProposals, confirmed, timestamp, slashLog, backers>>

\* violationCount is what the node id had before, whoever registers it now.
RegisterNode(sender, n, stakeAmount) ==
    /\ stakeAmount >= MIN_STAKE
    /\ ~nodes[n].active
    /\ Transfer(sender, RegistryAddress, stakeAmount)
    /\ nodes' = [nodes EXCEPT ![n] =
           [operator |-> sender, stakedAmount |-> stakeAmount,
            violationCount |-> @.violationCount, active |-> TRUE,
            registeredAt |-> timestamp]]
    /\ UNCHANGED <<slashProposals, confirmed, timestamp, slashLog, backers>>

\* Open slash proposals against the node do not matter.
DeregisterNode(sender, n) ==
    /\ nodes[n].active
    /\ nodes[n].operator = sender
    /\ nodes' = [nodes EXCEPT ![n].active = FALSE, ![n].stakedAmount = 0]
    /\ Transfer(RegistryAddress, sender, nodes[n].stakedAmount)
    /\ UNCHANGED <<slashProposals, confirmed, timestamp, slashLog, backers>>
-----------------------------------------------------------------------------
(* Slashing.  All of it is the owner's.                                     *)

\* A mutated form: the counter goes on from where the last proposal left it.
ProposeSlash_CountGoesOn(pid, n, observer, reason) ==
    LET new == [slashProposals[pid] EXCEPT !.nodeId = n, !.reason = reason,
                    !.proposedAt = timestamp, !.confirmations = @ + 1]
    IN  /\ nodes[n].operator # ZeroAddress
        /\ nodes[n].active
        /\ slashProposals' = [slashProposals EXCEPT ![pid] = new]
        /\ confirmed' = [confirmed EXCEPT ![pid] = @ \cup {observer}]
        /\ backers' = [backers EXCEPT ![pid] = {observer}]
        /\ UNCHANGED <<nodes, tokenVars, timestamp, slashLog>>

\* A mutated form: the proposal is open again.
ProposeSlash_Reopens(pid, n, observer, reason) ==
    LET new == [nodeId |-> n, reason |-> reason, proposedAt |-> timestamp,
                confirmations |-> 1, executed |-> FALSE, vetoed |-> FALSE]
    IN  /\ nodes[n].operator # ZeroAddress
        /\ nodes[n].active
        /\ slashProposals' = [slashProposals EXCEPT ![pid] = new]
        /\ confirmed' = [confirmed EXCEPT ![pid] = {observer}]
        /\ backers' = [backers EXCEPT ![pid] = {observer}]
        /\ UNCHANGED <<nodes, tokenVars, timestamp, slashLog>>

\* executed, vetoed and the flags of earlier confirmations stay as they were.
ProposeSlash(pid, n, observer, reason) ==
    LET new == [nodeId |-> n, reason |-> reason, proposedAt |-> timestamp,
                confirmations |-> 1, executed |-> slashProposals[pid].executed,
                vetoed |-> slashProposals[pid].vetoed]
    IN  /\ nodes[n].operator # ZeroAddress
        /\ nodes[n].active
        /\ slashProposals' = [slashProposals EXCEPT ![pid] = new]
        /\ confirmed' = [confirmed EXCEPT ![pid] = @ \cup {observer}]
        /\ backers' = [backers EXCEPT ![pid] = {observer}]
        /\ UNCHANGED <<nodes, tokenVars, timestamp, slashLog>>

\* There is no check that the proposal was made.
ConfirmSlash(pid, observer) ==
    /\ ~slashProposals[pid].executed
    /\ ~slashProposals[pid].vetoed
    /\ observer \notin confirmed[pid]
    /\ confirmed' = [confirmed EXCEPT ![pid] = @ \cup {observer}]
    /\ slashProposals' = [slashProposals EXCEPT ![pid].confirmations = @ + 1]
    /\ backers' = [backers EXCEPT ![pid] = @ \cup {observer}]
    /\ UNCHANGED <<nodes, tokenVars, timestamp, slashLog>>

\* A mutated form: shares of a thousand, where executeSlash divides by 10000.
SlashBps_WrongScale(reason, violations) ==
    CASE reason = "Downtime" -> 5000
      [] reason # "Downtime" /\ violations = 0 -> 10000
      [] reason # "Downtime" /\ violations = 1 -> 25000
      [] OTHER -> 100000

\* _slashBps: 10%, 25%, 100% by earlier violations, or a flat 5%.
SlashBps(reason, violations) ==
    CASE reason = "Downtime" -> 500
      [] reason # "Downtime" /\ violations = 0 -> 1000
      [] reason # "Downtime" /\ violations = 1 -> 2500
      [] OTHER -> 10000

\* The node's record after a slash of this reason.
Slashed(node, reason, amount) ==
    [node EXCEPT
        !.stakedAmount = @ - amount,
        !.violationCount = @ + 1,
        !.active = @ /\ ~(reason = "InvalidAttestation" /\ node.violationCount >= 2)]

\* The node may have left, or come back with another operator, since the
\* proposal was made.  A violation count at its largest value overflows, so the
\* call reverts.
ExecuteSlash(pid) ==
    LET p == slashProposals[pid]
        node == nodes[p.nodeId]
        amount == (node.stakedAmount * SlashBps(p.reason, node.violationCount)) \div 10000
    IN  /\ ~p.executed
        /\ ~p.vetoed
        /\ p.confirmations >= REQUIRED_CONFIRMATIONS
        /\ timestamp >= p.proposedAt + VETO_WINDOW
        /\ node.violationCount < UINT8_MAX
        /\ nodes' = [nodes EXCEPT ![p.nodeId] = Slashed(node, p.reason, amount)]
        /\ slashProposals' = [slashProposals EXCEPT ![pid].executed = TRUE]
        /\ Burn(RegistryAddress, RegistryAddress, amount)
        /\ slashLog' = Append(slashLog,
               [pid |-> pid, nodeId |-> p.nodeId, proposedAt |-> p.proposedAt,
                backers |-> backers[pid], burned |-> amount, at |-> timestamp])
        /\ UNCHANGED <<confirmed, timestamp, backers>>

\* A mutated form: an executed proposal can be vetoed.
VetoSlash_AfterExecution(pid) ==
    /\ timestamp <= slashProposals[pid].proposedAt + VETO_WINDOW
    /\ slashProposals' = [slashProposals EXCEPT ![pid].vetoed = TRUE]
    /\ UNCHANGED <<nodes, confirmed, tokenVars, timestamp, slashLog, backers>>

VetoSlash(pid) ==
    /\ ~slashProposals[pid].executed
    /\ timestamp <= slashProposals[pid].proposedAt + VETO_WINDOW
    /\ slashProposals' = [slashProposals EXCEPT ![pid].vetoed = TRUE]
    /\ UNCHANGED <<nodes, confirmed, tokenVars, timestamp, slashLog, backers>>

\* PrimToken.setBurner by the token's owner: while the burner is another
\* account, executeSlash reverts and that account may burn what it likes.
ChangeBurner(newBurner) ==
    /\ SetBurner(newBurner)
    /\ UNCHANGED <<registryVars, timestamp, slashLog, backers>>

\* Holders, the minter and any other burner use the token directly: they may
\* send PRM to the registry or burn what it holds.
TokenMoves(account, amount) ==
    /\ OutsideCall(RegistryAddress, account, amount)
    /\ UNCHANGED <<registryVars, timestamp, slashLog, backers>>

TimePasses ==
    /\ timestamp < MaxTime
    /\ timestamp' = timestamp + 1
    /\ UNCHANGED <<registryVars, tokenVars, slashLog, backers>>

RegistryNext ==
    \/ \E op \in NodeOperators, n \in NodeIds :
          DeregisterNode(op, n) \/ \E amount \in StakeAmounts : RegisterNode(op, n, amount)
    \/ \E pid \in SlashIds :
          \/ \E n \in NodeIds, o \in Observers, reason \in SlashReason :
                ProposeSlash(pid, n, o, reason)
          \/ \E o \in Observers : ConfirmSlash(pid, o)
          \/ ExecuteSlash(pid)
          \/ VetoSlash(pid)
    \/ \E a \in Accounts : ChangeBurner(a)
    \/ \E a \in Accounts, amount \in StakeAmounts : TokenMoves(a, amount)
    \/ TimePasses

RegistrySpec == RegistryInit /\ [][RegistryNext]_nodeVars
-----------------------------------------------------------------------------
(* Properties.                                                              *)

\* Every executed slash was confirmed by two different observers since its id was
\* last proposed, and came a whole veto window after that, also when the id was
\* proposed again (proposeSlash, confirmSlash, executeSlash).  An id that was
\* never proposed has no such window: confirmSlash and executeSlash accept it,
\* but all it can strike is the node with the zero id.
SlashesConfirmedAndWaited ==
    \A i \in DOMAIN slashLog :
        /\ Cardinality(slashLog[i].backers) >= REQUIRED_CONFIRMATIONS
        /\ IF slashLog[i].proposedAt = 0 THEN slashLog[i].nodeId = ZeroNode
           ELSE slashLog[i].at >= slashLog[i].proposedAt + VETO_WINDOW

\* No proposal is both vetoed and executed, although both are possible in the
\* last instant of the veto window (vetoSlash, executeSlash).
VetoedOrExecuted ==
    \A pid \in SlashIds : ~(slashProposals[pid].vetoed /\ slashProposals[pid].executed)

\* An id burns stake at most once, however often it is proposed again
\* (executed is never reset).
SlashedOncePerId ==
    \A i, j \in DOMAIN slashLog : slashLog[i].pid = slashLog[j].pid => i = j

\* What the registry owes its nodes, and what all slashes have burned.
Stakes == SumFunctionOnSet([n \in NodeIds |-> nodes[n].stakedAmount], NodeIds)
Burned == SumFunctionOnSet([i \in DOMAIN slashLog |-> slashLog[i].burned], DOMAIN slashLog)

\* The registry holds every stake it owes, but for what other burners burned,
\* through registration, slashes of any severity and rounding, departures and
\* returns, gifts sent to it and burners installed and removed; a node without a
\* place has no stake, and what the registry burned is what slashes took
\* (registerNode, deregisterNode, executeSlash, PrimToken.burn).  So while the
\* registry is the only burner, every operator can have its stake back.
StakesBacked ==
    /\ balanceOf[RegistryAddress] + SumFunctionOnSet(retired, Accounts \ {RegistryAddress})
           >= Stakes
    /\ \A n \in NodeIds : nodes[n].stakedAmount > 0 => nodes[n].active
    /\ retired[RegistryAddress] = Burned
-----------------------------------------------------------------------------
(* The inductive invariant: what the properties above rest on.              *)

\* The counter of a proposal is backed by as many observers that confirmed what
\* it accuses now; every confirmation left its flag, every slash its mark.
ConfirmationsBacked ==
    /\ \A pid \in SlashIds :
          /\ slashProposals[pid].confirmations <= Cardinality(backers[pid])
          /\ backers[pid] \subseteq confirmed[pid]
    /\ \A i \in DOMAIN slashLog : slashProposals[slashLog[i].pid].executed

\* An id that was never proposed accuses the zero id; block.timestamp is not 0.
UnproposedAccuseZero ==
    /\ timestamp # 0
    /\ \A pid \in SlashIds :
          slashProposals[pid].proposedAt = 0 => slashProposals[pid].nodeId = ZeroNode

RegistryInv ==
    /\ RegistryStateOK
    /\ UnproposedAccuseZero
    /\ ConfirmationsBacked
    /\ VetoedOrExecuted
    /\ SlashedOncePerId
    /\ SlashesConfirmedAndWaited

\* The sums, beside RegistryInv.
StakeInv == TokenTypeOK /\ BooksClosed /\ StakesBacked
=============================================================================
