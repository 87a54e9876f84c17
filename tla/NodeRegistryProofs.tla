------------------------- MODULE NodeRegistryProofs -------------------------
(***************************************************************************)
(* The registry's safety for any number of nodes, observers, proposals and *)
(* stakes.  RegistryInv is inductive; each lemma below takes one of its    *)
(* parts through a step.                                                   *)
(***************************************************************************)
EXTENDS NodeRegistry, SumTheorems, TLAPS

\* What a slash takes of a stake.
Share(stake, reason, violations) == (stake * SlashBps(reason, violations)) \div 10000

\* No share is larger than the whole, so a slash takes at most the stake.
LEMMA SlashWithinStake ==
    ASSUME NEW stake \in Nat, NEW reason \in SlashReason, NEW violations \in Nat
    PROVE  Share(stake, reason, violations) \in Nat /\ Share(stake, reason, violations) <= stake
<1>1. CASE reason = "Downtime"
  BY <1>1 DEF SlashBps, Share
<1>2. CASE reason # "Downtime" /\ violations = 0
  BY <1>2 DEF SlashBps, Share
<1>3. CASE reason # "Downtime" /\ violations = 1
  BY <1>3 DEF SlashBps, Share
<1>4. CASE reason # "Downtime" /\ violations > 1
  <2>1. SlashBps(reason, violations) = 10000
    BY <1>4 DEF SlashBps
  <2> QED
    BY <2>1 DEF Share
<1> QED
  BY <1>1, <1>2, <1>3, <1>4

\* Every entry of the log speaks of a proposal id.
LEMMA LogSpeaksOfIds ==
    ASSUME RegistryStateOK, NEW i \in DOMAIN slashLog
    PROVE  slashLog[i] \in SlashEvent /\ slashLog[i].pid \in SlashIds
<1>1. slashLog \in Seq(SlashEvent)
  BY DEF RegistryStateOK
<1>2. slashLog[i] \in SlashEvent
  BY <1>1
<1> QED
  BY <1>2 DEF SlashEvent

\* Counting one more confirmation keeps the records well formed.
LEMMA ConfirmationCounted ==
    ASSUME NEW f \in [SlashIds -> SlashProposal], NEW pid \in SlashIds
    PROVE  [f EXCEPT ![pid].confirmations = @ + 1] \in [SlashIds -> SlashProposal]
  BY DEF SlashProposal

\* What the contract starts with.
LEMMA RegistryInitInv == RegistryInit => RegistryInv
<1> SUFFICES ASSUME RegistryInit PROVE RegistryInv
  OBVIOUS
<1> USE RegistryAssumption DEF RegistryInit
<1>1. RegistryStateOK
  BY DEF RegistryStateOK, NodeInfo, SlashProposal, SlashReason
<1>2. Cardinality({}) = 0
  BY FS_EmptySet
<1>3. ConfirmationsBacked
  BY <1>2 DEF ConfirmationsBacked
<1>4. VetoedOrExecuted /\ SlashedOncePerId /\ SlashesConfirmedAndWaited
      /\ UnproposedAccuseZero
  BY DEF VetoedOrExecuted, SlashedOncePerId, SlashesConfirmedAndWaited, UnproposedAccuseZero
<1> QED
  BY <1>1, <1>3, <1>4 DEF RegistryInv

\* Registration does not touch the proposals.
LEMMA RegistrationPreserves ==
    ASSUME RegistryInv, NEW op \in NodeOperators, NEW n \in NodeIds,
           \/ DeregisterNode(op, n)
           \/ \E amount \in StakeAmounts : RegisterNode(op, n, amount)
    PROVE  RegistryInv'
<1>1. nodes' \in [NodeIds -> NodeInfo]
  <2>1. CASE DeregisterNode(op, n)
    BY <2>1 DEF DeregisterNode, RegistryInv, RegistryStateOK, NodeInfo
  <2>2. ASSUME NEW amount \in StakeAmounts, RegisterNode(op, n, amount)
        PROVE  nodes' \in [NodeIds -> NodeInfo]
    BY <2>2, RegistryAssumption
       DEF RegisterNode, RegistryInv, RegistryStateOK, NodeInfo
  <2> QED
    BY <2>1, <2>2
<1>2. UNCHANGED <<slashProposals, confirmed, timestamp, slashLog, backers>>
  BY DEF RegisterNode, DeregisterNode
<1> QED
  BY <1>1, <1>2 DEF RegistryInv, RegistryStateOK, UnproposedAccuseZero, ConfirmationsBacked,
     VetoedOrExecuted, SlashedOncePerId, SlashesConfirmedAndWaited

\* A proposal starts over with one backer and one confirmation.
LEMMA ProposePreserves ==
    ASSUME RegistryInv, NEW pid \in SlashIds, NEW n \in NodeIds,
           NEW o \in Observers, NEW reason \in SlashReason,
           ProposeSlash(pid, n, o, reason)
    PROVE  RegistryInv'
<1>1. /\ \A q \in SlashIds \ {pid} : /\ slashProposals'[q] = slashProposals[q]
                                     /\ confirmed'[q] = confirmed[q]
                                     /\ backers'[q] = backers[q]
      /\ slashProposals'[pid].confirmations = 1
      /\ slashProposals'[pid].executed = slashProposals[pid].executed
      /\ slashProposals'[pid].vetoed = slashProposals[pid].vetoed
      /\ backers'[pid] = {o}
      /\ confirmed'[pid] = confirmed[pid] \cup {o}
      /\ slashLog' = slashLog
  BY DEF ProposeSlash, RegistryInv, RegistryStateOK
<1>2. RegistryStateOK'
  BY DEF ProposeSlash, RegistryInv, RegistryStateOK, SlashProposal
<1>3. Cardinality({o}) = 1
  BY FS_Singleton
<1>4. ConfirmationsBacked'
  <2>1. \A i \in DOMAIN slashLog : slashLog[i].pid \in SlashIds
    BY LogSpeaksOfIds DEF RegistryInv
  <2>2. \A i \in DOMAIN slashLog : slashProposals'[slashLog[i].pid].executed
    BY <1>1, <2>1 DEF RegistryInv, ConfirmationsBacked
  <2>3. \A q \in SlashIds : slashProposals'[q].confirmations <= Cardinality(backers'[q])
    <3>1. slashProposals'[pid].confirmations <= Cardinality(backers'[pid])
      BY <1>1, <1>3
    <3>2. ASSUME NEW q \in SlashIds \ {pid}
          PROVE  slashProposals'[q].confirmations <= Cardinality(backers'[q])
      BY <1>1 DEF RegistryInv, ConfirmationsBacked
    <3> QED
      BY <3>1, <3>2
  <2>4. \A q \in SlashIds : backers'[q] \subseteq confirmed'[q]
    BY <1>1 DEF RegistryInv, ConfirmationsBacked
  <2> QED
    BY <1>1, <2>2, <2>3, <2>4 DEF ConfirmationsBacked
<1>5. VetoedOrExecuted'
  BY <1>1 DEF RegistryInv, VetoedOrExecuted
<1>6. SlashedOncePerId' /\ SlashesConfirmedAndWaited'
  BY <1>1 DEF RegistryInv, SlashedOncePerId, SlashesConfirmedAndWaited
<1>7. UnproposedAccuseZero'
  <2>1. slashProposals'[pid].proposedAt = timestamp /\ timestamp' = timestamp
    BY DEF ProposeSlash, RegistryInv, RegistryStateOK
  <2> QED
    BY <1>1, <2>1 DEF RegistryInv, UnproposedAccuseZero
<1> QED
  BY <1>2, <1>4, <1>5, <1>6, <1>7 DEF RegistryInv

\* A confirmation adds an observer that was not yet among the backers.
LEMMA ConfirmPreserves ==
    ASSUME RegistryInv, NEW pid \in SlashIds, NEW o \in Observers,
           ConfirmSlash(pid, o)
    PROVE  RegistryInv'
<1>1. /\ \A q \in SlashIds \ {pid} : /\ slashProposals'[q] = slashProposals[q]
                                     /\ confirmed'[q] = confirmed[q]
                                     /\ backers'[q] = backers[q]
      /\ slashProposals'[pid].confirmations = slashProposals[pid].confirmations + 1
      /\ slashProposals'[pid].executed = slashProposals[pid].executed
      /\ slashProposals'[pid].vetoed = slashProposals[pid].vetoed
      /\ backers'[pid] = backers[pid] \cup {o}
      /\ confirmed'[pid] = confirmed[pid] \cup {o}
      /\ slashLog' = slashLog
  BY DEF ConfirmSlash, RegistryInv, RegistryStateOK, SlashProposal
<1>2. RegistryStateOK'
  <2>4. slashProposals' \in [SlashIds -> SlashProposal]
    BY ConfirmationCounted DEF ConfirmSlash, RegistryInv, RegistryStateOK
  <2> QED
    BY <2>4 DEF ConfirmSlash, RegistryInv, RegistryStateOK
<1>3. o \notin backers[pid]
  BY DEF ConfirmSlash, RegistryInv, ConfirmationsBacked
<1>4. IsFiniteSet(backers[pid])
  BY RegistryAssumption, FS_Subset DEF RegistryInv, RegistryStateOK
<1>5. /\ Cardinality(backers[pid] \cup {o}) = Cardinality(backers[pid]) + 1
      /\ Cardinality(backers[pid]) \in Nat
  BY <1>3, <1>4, FS_AddElement, FS_CardinalityType
<1>6. ConfirmationsBacked'
  <2>1. slashProposals[pid].confirmations \in Nat
    BY DEF RegistryInv, RegistryStateOK, SlashProposal
  <2>2. \A i \in DOMAIN slashLog : slashLog[i].pid \in SlashIds
    BY LogSpeaksOfIds DEF RegistryInv
  <2>3. \A i \in DOMAIN slashLog : slashProposals'[slashLog[i].pid].executed
    BY <1>1, <2>2 DEF RegistryInv, ConfirmationsBacked
  <2>4. \A q \in SlashIds : slashProposals'[q].confirmations <= Cardinality(backers'[q])
    <3>1. slashProposals'[pid].confirmations <= Cardinality(backers'[pid])
      <4>1. slashProposals[pid].confirmations <= Cardinality(backers[pid])
        BY DEF RegistryInv, ConfirmationsBacked
      <4> QED
        BY <1>1, <1>5, <2>1, <4>1
    <3>2. ASSUME NEW q \in SlashIds \ {pid}
          PROVE  slashProposals'[q].confirmations <= Cardinality(backers'[q])
      BY <1>1 DEF RegistryInv, ConfirmationsBacked
    <3> QED
      BY <3>1, <3>2
  <2>5. \A q \in SlashIds : backers'[q] \subseteq confirmed'[q]
    BY <1>1 DEF RegistryInv, ConfirmationsBacked
  <2> QED
    BY <1>1, <2>3, <2>4, <2>5 DEF ConfirmationsBacked
<1>7. VetoedOrExecuted'
  BY <1>1 DEF RegistryInv, VetoedOrExecuted
<1>8. SlashedOncePerId' /\ SlashesConfirmedAndWaited'
  BY <1>1 DEF RegistryInv, SlashedOncePerId, SlashesConfirmedAndWaited
<1>9. UnproposedAccuseZero'
  <2>1. \A q \in SlashIds : /\ slashProposals'[q].proposedAt = slashProposals[q].proposedAt
                            /\ slashProposals'[q].nodeId = slashProposals[q].nodeId
    BY DEF ConfirmSlash, RegistryInv, RegistryStateOK, SlashProposal
  <2> QED
    BY <2>1 DEF ConfirmSlash, RegistryInv, UnproposedAccuseZero
<1> QED
  BY <1>2, <1>6, <1>7, <1>8, <1>9 DEF RegistryInv

\* An execution appends one entry, of an id that had none.
LEMMA ExecutePreserves ==
    ASSUME RegistryInv, NEW pid \in SlashIds, ExecuteSlash(pid)
    PROVE  RegistryInv'
<1> DEFINE p == slashProposals[pid]
           node == nodes[p.nodeId]
           amount == (node.stakedAmount * SlashBps(p.reason, node.violationCount)) \div 10000
           e == [pid |-> pid, nodeId |-> p.nodeId, proposedAt |-> p.proposedAt,
                 backers |-> backers[pid], burned |-> amount, at |-> timestamp]
<1>1. /\ ~p.executed /\ ~p.vetoed
      /\ p.confirmations >= REQUIRED_CONFIRMATIONS
      /\ timestamp >= p.proposedAt + VETO_WINDOW
      /\ node.violationCount < UINT8_MAX
      /\ nodes' = [nodes EXCEPT ![p.nodeId] = Slashed(node, p.reason, amount)]
      /\ slashProposals' = [slashProposals EXCEPT ![pid].executed = TRUE]
      /\ slashLog' = Append(slashLog, e)
      /\ UNCHANGED <<confirmed, timestamp, backers>>
  BY DEF ExecuteSlash
<1>2. p \in SlashProposal /\ node \in NodeInfo
  BY DEF RegistryInv, RegistryStateOK, SlashProposal
<1>3. amount \in Nat /\ amount <= node.stakedAmount
  <2>1. node.stakedAmount \in Nat /\ p.reason \in SlashReason /\ node.violationCount \in Nat
    BY <1>2, RegistryAssumption DEF NodeInfo, SlashProposal
  <2>2. amount = Share(node.stakedAmount, p.reason, node.violationCount)
    BY DEF Share
  <2> HIDE DEF p, node, amount
  <2> QED
    BY <2>1, <2>2, SlashWithinStake
<1> HIDE DEF amount
<1>4. Slashed(node, p.reason, amount) \in NodeInfo
  <2>1. /\ node.stakedAmount - amount \in Nat
        /\ node.violationCount + 1 \in 0 .. UINT8_MAX
    <3>1. node.stakedAmount \in Nat /\ node.violationCount \in 0 .. UINT8_MAX
      BY <1>2 DEF NodeInfo
    <3> HIDE DEF p, node
    <3> QED
      BY <1>1, <1>3, <3>1, RegistryAssumption
  <2> QED
    BY <1>2, <2>1 DEF Slashed, NodeInfo
<1>5. e \in SlashEvent /\ e.pid = pid /\ e.backers = backers[pid]
      /\ e.at = timestamp /\ e.proposedAt = p.proposedAt /\ e.nodeId = p.nodeId
  BY <1>2, <1>3 DEF RegistryInv, RegistryStateOK, SlashEvent, SlashProposal
<1> HIDE DEF e
<1>6. /\ slashLog \in Seq(SlashEvent)
      /\ slashLog' \in Seq(SlashEvent)
      /\ DOMAIN slashLog' = DOMAIN slashLog \cup {Len(slashLog) + 1}
      /\ \A i \in DOMAIN slashLog : i # Len(slashLog) + 1 /\ slashLog'[i] = slashLog[i]
      /\ slashLog'[Len(slashLog) + 1] = e
  BY <1>1, <1>5 DEF RegistryInv, RegistryStateOK
<1>7. slashProposals' \in [SlashIds -> SlashProposal]
  BY <1>1 DEF RegistryInv, RegistryStateOK, SlashProposal
<1>8. RegistryStateOK'
  <2>1. nodes' \in [NodeIds -> NodeInfo]
    BY <1>1, <1>4 DEF RegistryInv, RegistryStateOK
  <2> QED
    BY <1>1, <1>6, <1>7, <2>1 DEF RegistryInv, RegistryStateOK
<1>9. /\ \A q \in SlashIds : /\ slashProposals'[q].confirmations = slashProposals[q].confirmations
                             /\ slashProposals'[q].vetoed = slashProposals[q].vetoed
                             /\ slashProposals[q].executed => slashProposals'[q].executed
                             /\ q # pid => slashProposals'[q] = slashProposals[q]
      /\ slashProposals'[pid].executed
  BY <1>1 DEF RegistryInv, RegistryStateOK, SlashProposal
<1>10. \A i \in DOMAIN slashLog : slashLog[i].pid \in SlashIds /\ slashLog[i].pid # pid
  BY <1>1, LogSpeaksOfIds DEF RegistryInv, ConfirmationsBacked
<1>11. ConfirmationsBacked'
  <2>1. \A i \in DOMAIN slashLog' : slashProposals'[slashLog'[i].pid].executed
    BY <1>5, <1>6, <1>9, <1>10 DEF RegistryInv, ConfirmationsBacked
  <2> QED
    BY <1>1, <1>9, <2>1 DEF RegistryInv, ConfirmationsBacked
<1>12. VetoedOrExecuted'
  BY <1>1, <1>9 DEF RegistryInv, VetoedOrExecuted
<1>13. SlashedOncePerId'
  BY <1>5, <1>6, <1>10 DEF RegistryInv, SlashedOncePerId
<1>14. SlashesConfirmedAndWaited'
  <2>1. IsFiniteSet(backers[pid])
    BY RegistryAssumption, FS_Subset DEF RegistryInv, RegistryStateOK
  <2>2. Cardinality(backers[pid]) \in Nat /\ p.confirmations \in Nat
    BY <1>2, <2>1, FS_CardinalityType DEF SlashProposal
  <2>3. Cardinality(backers[pid]) >= REQUIRED_CONFIRMATIONS
    BY <1>1, <2>2 DEF RegistryInv, ConfirmationsBacked, REQUIRED_CONFIRMATIONS
  <2>4. e.proposedAt = 0 => e.nodeId = ZeroNode
    BY <1>5 DEF RegistryInv, UnproposedAccuseZero
  <2> HIDE DEF p
  <2> QED
    BY <1>1, <1>5, <1>6, <2>3, <2>4 DEF RegistryInv, SlashesConfirmedAndWaited
<1>15. UnproposedAccuseZero'
  <2>1. \A q \in SlashIds : /\ slashProposals'[q].proposedAt = slashProposals[q].proposedAt
                            /\ slashProposals'[q].nodeId = slashProposals[q].nodeId
    BY <1>1 DEF RegistryInv, RegistryStateOK, SlashProposal
  <2> QED
    BY <1>1, <2>1 DEF RegistryInv, UnproposedAccuseZero
<1> QED
  BY <1>8, <1>11, <1>12, <1>13, <1>14, <1>15 DEF RegistryInv

\* A veto marks only proposals that were not executed.
LEMMA VetoPreserves ==
    ASSUME RegistryInv, NEW pid \in SlashIds, VetoSlash(pid)
    PROVE  RegistryInv'
<1>1. RegistryStateOK'
  BY DEF VetoSlash, RegistryInv, RegistryStateOK, SlashProposal
<1>2. /\ \A q \in SlashIds :
            /\ slashProposals'[q].confirmations = slashProposals[q].confirmations
            /\ slashProposals'[q].executed = slashProposals[q].executed
            /\ q # pid => slashProposals'[q] = slashProposals[q]
      /\ ~slashProposals[pid].executed
      /\ UNCHANGED <<confirmed, backers, slashLog>>
  BY DEF VetoSlash, RegistryInv, RegistryStateOK, SlashProposal
<1>3. ConfirmationsBacked'
  <2>1. \A i \in DOMAIN slashLog : slashLog[i].pid \in SlashIds
    BY LogSpeaksOfIds DEF RegistryInv
  <2> QED
    BY <1>2, <2>1 DEF RegistryInv, ConfirmationsBacked
<1>4. VetoedOrExecuted'
  BY <1>2 DEF RegistryInv, VetoedOrExecuted
<1>5. SlashedOncePerId' /\ SlashesConfirmedAndWaited'
  BY <1>2 DEF RegistryInv, SlashedOncePerId, SlashesConfirmedAndWaited
<1>6. UnproposedAccuseZero'
  <2>1. \A q \in SlashIds : /\ slashProposals'[q].proposedAt = slashProposals[q].proposedAt
                            /\ slashProposals'[q].nodeId = slashProposals[q].nodeId
    BY DEF VetoSlash, RegistryInv, RegistryStateOK, SlashProposal
  <2> QED
    BY <2>1 DEF VetoSlash, RegistryInv, UnproposedAccuseZero
<1> QED
  BY <1>1, <1>3, <1>4, <1>5, <1>6 DEF RegistryInv

\* Every step keeps the invariant.
LEMMA RegistryStep == RegistryInv /\ [RegistryNext]_nodeVars => RegistryInv'
<1> SUFFICES ASSUME RegistryInv, [RegistryNext]_nodeVars PROVE RegistryInv'
  OBVIOUS
<1>1. ASSUME UNCHANGED registryVars, timestamp' \in Nat \ {0}, UNCHANGED <<slashLog, backers>>
      PROVE  RegistryInv'
  BY <1>1 DEF registryVars, RegistryInv, RegistryStateOK, UnproposedAccuseZero, ConfirmationsBacked,
     VetoedOrExecuted, SlashedOncePerId, SlashesConfirmedAndWaited
<1>2. CASE TimePasses
  BY <1>1, <1>2 DEF TimePasses, RegistryInv, RegistryStateOK, UnproposedAccuseZero
<1>3. CASE \/ \E a \in Accounts : ChangeBurner(a)
          \/ \E a \in Accounts, amount \in StakeAmounts : TokenMoves(a, amount)
  BY <1>1, <1>3 DEF ChangeBurner, TokenMoves, RegistryInv, RegistryStateOK, UnproposedAccuseZero
<1>4. CASE UNCHANGED nodeVars
  BY <1>1, <1>4 DEF nodeVars, RegistryInv, RegistryStateOK, UnproposedAccuseZero
<1> QED
  BY <1>2, <1>3, <1>4, RegistrationPreserves, ProposePreserves, ConfirmPreserves,
     ExecutePreserves, VetoPreserves DEF RegistryNext

\* The inductive invariant holds in every reachable state of the registry.
THEOREM RegistryInvariant == RegistrySpec => []RegistryInv
  BY RegistryInitInv, RegistryStep, PTL DEF RegistrySpec

\* Every executed slash had two different observers confirm it since its id was
\* last proposed, and came a whole veto window after that; an id never proposed
\* can strike only the node with the zero id.
THEOREM SlashingIsDue == RegistrySpec => []SlashesConfirmedAndWaited
  BY RegistryInvariant, PTL DEF RegistryInv

\* No proposal is both vetoed and executed.
THEOREM VetoHolds == RegistrySpec => []VetoedOrExecuted
  BY RegistryInvariant, PTL DEF RegistryInv

\* No proposal id burns stake twice.
THEOREM SlashOnce == RegistrySpec => []SlashedOncePerId
  BY RegistryInvariant, PTL DEF RegistryInv
-----------------------------------------------------------------------------
(* The stakes and the supply.                                               *)

\* Replacing one record changes the stakes owed by the difference.
LEMMA StakesChange ==
    ASSUME RegistryStateOK, NEW n \in NodeIds, NEW new,
           nodes' = [nodes EXCEPT ![n] = new], new.stakedAmount \in Nat
    PROVE  /\ Stakes \in Int
           /\ Stakes' = Stakes - nodes[n].stakedAmount + new.stakedAmount
<1> DEFINE f == [m \in NodeIds |-> nodes[m].stakedAmount]
           g == [m \in NodeIds |-> nodes'[m].stakedAmount]
<1>1. /\ \A m \in NodeIds : f[m] \in Int
      /\ f[n] = nodes[n].stakedAmount /\ g[n] = new.stakedAmount /\ g[n] \in Int
      /\ \A m \in NodeIds : m # n => g[m] = f[m]
  BY DEF RegistryStateOK, NodeInfo
<1>2. Stakes = SumFunctionOnSet(f, NodeIds) /\ Stakes' = SumFunctionOnSet(g, NodeIds)
  BY DEF Stakes
<1> HIDE DEF f, g
<1>3. IsFiniteSet(NodeIds)
  BY RegistryAssumption
<1>4. SumFunctionOnSet(f, NodeIds) \in Int
  BY <1>1, <1>3, SumType
<1>5. SumFunctionOnSet(g, NodeIds) = SumFunctionOnSet(f, NodeIds) - f[n] + g[n]
  BY <1>1, <1>3, SumChange
<1> QED
  BY <1>1, <1>2, <1>4, <1>5

\* A call of the token that succeeds keeps its types and its books: a burn takes
\* from the supply no more than the accounts hold together.
LEMMA TokenCalls ==
    ASSUME TokenTypeOK, BooksClosed, NEW caller \in Accounts, NEW account \in Accounts,
           NEW amount \in Nat,
           \/ Transfer(caller, account, amount)
           \/ Mint(caller, account, amount)
           \/ Burn(caller, account, amount)
    PROVE  TokenTypeOK' /\ BooksClosed'
<1> DEFINE Total(f) == SumFunctionOnSet(f, Accounts)
<1>1. /\ IsFiniteSet(Accounts) /\ minter \in Accounts \cup {ZeroAddress}
      /\ burner \in Accounts \cup {ZeroAddress} /\ totalSupply \in Nat
      /\ balanceOf \in [Accounts -> Nat] /\ issued \in [Accounts -> Nat]
      /\ retired \in [Accounts -> Nat] /\ UNCHANGED <<minter, burner>>
  BY RegistryAssumption DEF TokenTypeOK, Transfer, Mint, Burn
<1>2. /\ balanceOf \in [Accounts -> Int] /\ issued \in [Accounts -> Int]
      /\ retired \in [Accounts -> Int] /\ amount \in Int /\ -amount \in Int
  BY <1>1
<1>3. totalSupply = Total(balanceOf) /\ totalSupply + Total(retired) = Total(issued)
  BY DEF BooksClosed
<1>4. Total(retired) \in Int /\ Total(issued) \in Int
  <2>1. \A a \in Accounts : retired[a] \in Int /\ issued[a] \in Int
    BY <1>2
  <2> QED
    BY <1>1, <2>1, SumType
<1>5. CASE Transfer(caller, account, amount)
  <2>1. /\ amount <= balanceOf[caller] /\ UNCHANGED <<totalSupply, issued, retired>>
        /\ balanceOf' = [a \in Accounts |-> balanceOf[a]
               + (IF a = account THEN amount ELSE 0) - (IF a = caller THEN amount ELSE 0)]
    BY <1>5 DEF Transfer
  <2>2. balanceOf' \in [Accounts -> Nat]
    BY <1>1, <2>1
  <2>3. \A a \in Accounts : balanceOf[a] \in Int
    BY <1>2
  <2>4. Total(balanceOf') = Total(balanceOf)
    <3>1. CASE caller = account
      <4>1. \A a \in Accounts : balanceOf'[a] = balanceOf[a]
        BY <1>1, <2>1, <3>1
      <4> QED
        BY <1>1, <4>1, SumSame
    <3>2. CASE caller # account
      <4>1. /\ balanceOf'[caller] = balanceOf[caller] - amount
            /\ balanceOf'[account] = balanceOf[account] + amount
            /\ \A a \in Accounts : a # caller /\ a # account => balanceOf'[a] = balanceOf[a]
        BY <1>1, <2>1, <3>2
      <4> QED
        BY <1>1, <1>2, <2>3, <3>2, <4>1, SumMove
    <3> QED
      BY <3>1, <3>2
  <2> QED
    BY <1>1, <1>3, <2>1, <2>2, <2>4 DEF TokenTypeOK, BooksClosed
<1>6. CASE Mint(caller, account, amount)
  <2>1. /\ balanceOf' = [balanceOf EXCEPT ![account] = balanceOf[account] + amount]
        /\ issued' = [issued EXCEPT ![caller] = issued[caller] + amount]
        /\ totalSupply' = totalSupply + amount /\ retired' = retired
    BY <1>6 DEF Mint
  <2>2. balanceOf' \in [Accounts -> Nat] /\ issued' \in [Accounts -> Nat] /\ totalSupply' \in Nat
    BY <1>1, <2>1
  <2>3. Total(balanceOf') = Total(balanceOf) + amount /\ Total(issued') = Total(issued) + amount
    <3>1. /\ \A a \in Accounts : balanceOf[a] \in Int
          /\ \A a \in Accounts : issued[a] \in Int
          /\ balanceOf'[account] = balanceOf[account] + amount
          /\ issued'[caller] = issued[caller] + amount
          /\ \A a \in Accounts : a # account => balanceOf'[a] = balanceOf[a]
          /\ \A a \in Accounts : a # caller => issued'[a] = issued[a]
      BY <1>2, <2>1
    <3>2. balanceOf'[account] \in Int /\ issued'[caller] \in Int
      BY <2>2
    <3>3. Total(balanceOf') = Total(balanceOf) - balanceOf[account] + balanceOf'[account]
      BY <1>1, <3>1, <3>2, SumChange
    <3>4. Total(issued') = Total(issued) - issued[caller] + issued'[caller]
      BY <1>1, <3>1, <3>2, SumChange
    <3> QED
      BY <1>1, <1>3, <1>4, <3>1, <3>2, <3>3, <3>4
  <2>4. totalSupply' + Total(retired) = Total(issued) + amount
    BY <1>1, <1>3, <1>4, <2>1
  <2> QED
    BY <1>1, <1>3, <2>1, <2>2, <2>3, <2>4 DEF TokenTypeOK, BooksClosed
<1>7. CASE Burn(caller, account, amount)
  <2>1. /\ balanceOf' = [balanceOf EXCEPT ![account] = balanceOf[account] - amount]
        /\ retired' = [retired EXCEPT ![caller] = retired[caller] + amount]
        /\ totalSupply' = totalSupply - amount /\ issued' = issued
        /\ amount <= balanceOf[account]
    BY <1>7 DEF Burn
  <2>2. balanceOf' \in [Accounts -> Nat] /\ retired' \in [Accounts -> Nat]
    BY <1>1, <2>1
  <2>3. /\ \A a \in Accounts : balanceOf[a] \in Int
        /\ \A a \in Accounts : retired[a] \in Int
        /\ balanceOf'[account] = balanceOf[account] + (-amount)
        /\ retired'[caller] = retired[caller] + amount
        /\ \A a \in Accounts : a # account => balanceOf'[a] = balanceOf[a]
        /\ \A a \in Accounts : a # caller => retired'[a] = retired[a]
    BY <1>2, <2>1
  <2>4. Total(balanceOf') = Total(balanceOf) + (-amount)
    <3>1. balanceOf'[account] \in Int
      BY <2>2
    <3>2. Total(balanceOf') = Total(balanceOf) - balanceOf[account] + balanceOf'[account]
      BY <1>1, <2>3, <3>1, SumChange
    <3> QED
      BY <1>1, <1>2, <1>3, <2>3, <3>2
  <2>5. Total(retired') = Total(retired) + amount
    <3>1. retired'[caller] \in Int
      BY <2>2
    <3>2. Total(retired') = Total(retired) - retired[caller] + retired'[caller]
      BY <1>1, <2>3, <3>1, SumChange
    <3> QED
      BY <1>1, <1>2, <1>4, <2>3, <3>2
  <2>6. Total(balanceOf') \in Nat
    BY <1>1, <2>2, SumNat
  <2>7. totalSupply' = Total(balanceOf')
    BY <1>1, <1>3, <2>1, <2>4
  <2>8. totalSupply' + Total(retired') = Total(issued)
    BY <1>1, <1>3, <1>4, <2>1, <2>5
  <2> QED
    BY <1>1, <2>1, <2>2, <2>6, <2>7, <2>8 DEF TokenTypeOK, BooksClosed
<1> QED
  BY <1>5, <1>6, <1>7

\* What other burners burned.
BurnedByOthers == SumFunctionOnSet(retired, Accounts \ {RegistryAddress})

LEMMA OthersFinite ==
    ASSUME TokenTypeOK
    PROVE  /\ IsFiniteSet(Accounts \ {RegistryAddress})
           /\ \A a \in Accounts \ {RegistryAddress} : retired[a] \in Int
           /\ BurnedByOthers \in Int
<1>1. IsFiniteSet(Accounts \ {RegistryAddress})
  BY RegistryAssumption, FS_Subset
<1>2. \A a \in Accounts \ {RegistryAddress} : retired[a] \in Int
  BY DEF TokenTypeOK
<1> QED
  BY <1>1, <1>2, SumType DEF BurnedByOthers

\* Whatever others do with the token, what the registry holds and what they
\* burned do not fall together, and the registry burns nothing.
LEMMA OutsideKeepsBacking ==
    ASSUME TokenTypeOK, NEW account \in Accounts, NEW amount \in Nat,
           OutsideCall(RegistryAddress, account, amount)
    PROVE  /\ balanceOf'[RegistryAddress] + BurnedByOthers'
                  >= balanceOf[RegistryAddress] + BurnedByOthers
           /\ retired'[RegistryAddress] = retired[RegistryAddress]
<1> DEFINE O == Accounts \ {RegistryAddress}
<1>1. PICK caller \in O : \/ Transfer(caller, account, amount)
                          \/ Mint(caller, account, amount)
                          \/ Burn(caller, account, amount)
  BY DEF OutsideCall
<1>2. /\ RegistryAddress \in Accounts /\ balanceOf \in [Accounts -> Nat]
      /\ retired \in [Accounts -> Nat] /\ BurnedByOthers \in Int /\ IsFiniteSet(O)
      /\ \A a \in O : retired[a] \in Int
  BY RegistryAssumption, OthersFinite DEF TokenTypeOK
<1>3. CASE Transfer(caller, account, amount) \/ Mint(caller, account, amount)
  <2>1. retired' = retired /\ balanceOf'[RegistryAddress] >= balanceOf[RegistryAddress]
    BY <1>2, <1>3 DEF Transfer, Mint
  <2>2. balanceOf'[RegistryAddress] \in Int
    BY <1>2, <1>3 DEF Transfer, Mint
  <2> QED
    BY <1>2, <2>1, <2>2 DEF BurnedByOthers
<1>4. CASE Burn(caller, account, amount)
  <2>1. /\ retired' = [retired EXCEPT ![caller] = retired[caller] + amount]
        /\ balanceOf' = [balanceOf EXCEPT ![account] = balanceOf[account] - amount]
    BY <1>4 DEF Burn
  <2>2. /\ retired'[caller] = retired[caller] + amount /\ retired'[caller] \in Int
        /\ \A a \in O : a # caller => retired'[a] = retired[a]
        /\ retired'[RegistryAddress] = retired[RegistryAddress]
    BY <1>1, <1>2, <2>1
  <2>3. /\ balanceOf'[RegistryAddress] >= balanceOf[RegistryAddress] - amount
        /\ balanceOf'[RegistryAddress] \in Int
    BY <1>2, <2>1
  <2> HIDE DEF O
  <2>4. SumFunctionOnSet(retired', O)
            = SumFunctionOnSet(retired, O) - retired[caller] + retired'[caller]
    BY <1>1, <1>2, <2>2, SumChange
  <2>5. BurnedByOthers' = BurnedByOthers + amount
    <3>1. retired[caller] \in Int
      BY <1>1, <1>2
    <3> QED
      BY <1>2, <2>2, <2>4, <3>1 DEF BurnedByOthers, O
  <2> QED
    BY <1>2, <2>2, <2>3, <2>5
<1> QED
  BY <1>1, <1>3, <1>4

\* The operators' first balances are the whole supply, all of it from the first
\* minter, and nothing is staked.
LEMMA StakeInit == RegistryInit => StakeInv
<1> SUFFICES ASSUME RegistryInit PROVE StakeInv
  OBVIOUS
<1>1. /\ IsFiniteSet(Accounts) /\ IsFiniteSet(NodeIds) /\ NodeOperators \in SUBSET Accounts
      /\ Endowment \in Nat /\ RegistryAddress \in Accounts \ NodeOperators
      /\ minter \in Accounts \ {RegistryAddress} /\ {minter} \in SUBSET Accounts
  BY RegistryAssumption DEF RegistryInit
<1>2. Cardinality(NodeOperators) \in Nat /\ totalSupply \in Nat
  <2>1. IsFiniteSet(NodeOperators)
    BY <1>1, FS_Subset
  <2>2. Cardinality(NodeOperators) \in Nat
    BY <2>1, FS_CardinalityType
  <2> QED
    BY <1>1, <2>2 DEF RegistryInit
<1>3. TokenTypeOK
  BY <1>1, <1>2, RegistryAssumption DEF RegistryInit, TokenTypeOK
<1>4. BooksClosed
  <2>1. /\ \A a \in Accounts : balanceOf[a] = IF a \in NodeOperators THEN Endowment ELSE 0
        /\ \A a \in Accounts : issued[a] = IF a \in {minter} THEN totalSupply ELSE 0
        /\ \A a \in Accounts : retired[a] = IF a \in {} THEN 0 ELSE 0
    BY DEF RegistryInit
  <2>2. SumFunctionOnSet(balanceOf, Accounts) = Endowment * Cardinality(NodeOperators)
    BY <1>1, <2>1, SumUniform
  <2>3. SumFunctionOnSet(issued, Accounts) = totalSupply * Cardinality({minter})
    BY <1>1, <1>2, <2>1, SumUniform
  <2>4. SumFunctionOnSet(retired, Accounts) = 0 * Cardinality({})
    BY <1>1, <2>1, SumUniform
  <2>5. Cardinality({minter}) = 1 /\ Cardinality({}) = 0
    BY FS_Singleton, FS_EmptySet
  <2> QED
    BY <1>2, <2>2, <2>3, <2>4, <2>5 DEF RegistryInit, BooksClosed
<1>5. Stakes = 0
  <2> DEFINE f == [n \in NodeIds |-> nodes[n].stakedAmount]
  <2>1. \A n \in NodeIds : f[n] = IF n \in {} THEN 0 ELSE 0
    BY DEF RegistryInit
  <2> HIDE DEF f
  <2>2. SumFunctionOnSet(f, NodeIds) = 0 * Cardinality({})
    BY <1>1, <2>1, SumUniform
  <2> QED
    BY <2>2, FS_EmptySet DEF Stakes, f
<1>6. Burned = 0
  <2>1. DOMAIN slashLog = {}
    BY DEF RegistryInit
  <2> QED
    BY <2>1, SumEmpty DEF Burned
<1>7. BurnedByOthers = 0
  <2> DEFINE O == Accounts \ {RegistryAddress}
  <2>1. IsFiniteSet(O) /\ \A a \in O : retired[a] = IF a \in {} THEN 0 ELSE 0
    BY <1>3, OthersFinite DEF RegistryInit
  <2> HIDE DEF O
  <2>2. SumFunctionOnSet(retired, O) = 0 * Cardinality({})
    BY <2>1, SumUniform
  <2> QED
    BY <2>2, FS_EmptySet DEF BurnedByOthers, O
<1>8. StakesBacked
  BY <1>1, <1>2, <1>5, <1>6, <1>7 DEF RegistryInit, StakesBacked, BurnedByOthers
<1> QED
  BY <1>3, <1>4, <1>8 DEF StakeInv

\* A stake comes from its operator's balance, and replaces a record without one.
LEMMA StakeRegister ==
    ASSUME RegistryInv, StakeInv, NEW op \in NodeOperators, NEW n \in NodeIds,
           NEW amount \in StakeAmounts, RegisterNode(op, n, amount)
    PROVE  StakeInv'
<1>1. /\ op \in Accounts /\ RegistryAddress \in Accounts /\ op # RegistryAddress
      /\ amount \in Nat
  BY RegistryAssumption
<1>2. /\ TokenTypeOK' /\ BooksClosed' /\ retired' = retired
      /\ balanceOf'[RegistryAddress] = balanceOf[RegistryAddress] + amount
  <2>1. TokenTypeOK' /\ BooksClosed'
    BY <1>1, TokenCalls DEF RegisterNode, StakeInv
  <2> QED
    BY <1>1, <2>1 DEF RegisterNode, Transfer, StakeInv, TokenTypeOK
<1> DEFINE new == [operator |-> op, stakedAmount |-> amount,
                   violationCount |-> nodes[n].violationCount, active |-> TRUE,
                   registeredAt |-> timestamp]
<1>3. /\ nodes' = [nodes EXCEPT ![n] = new] /\ new.stakedAmount = amount /\ new.active
      /\ slashLog' = slashLog /\ ~nodes[n].active
  BY DEF RegisterNode
<1> HIDE DEF new
<1>4. Stakes \in Int /\ Stakes' = Stakes - nodes[n].stakedAmount + amount
  BY <1>1, <1>3, StakesChange DEF RegistryInv
<1>5. /\ nodes \in [NodeIds -> NodeInfo] /\ nodes[n].stakedAmount \in Nat
  BY DEF RegistryInv, RegistryStateOK, NodeInfo
<1>6. nodes[n].stakedAmount = 0
  BY <1>3, <1>5 DEF StakeInv, StakesBacked
<1>7. balanceOf'[RegistryAddress] + BurnedByOthers' >= Stakes'
  <2>1. BurnedByOthers' = BurnedByOthers /\ BurnedByOthers \in Int
    BY <1>2, OthersFinite DEF BurnedByOthers, StakeInv
  <2>2. balanceOf[RegistryAddress] \in Int
    BY <1>1 DEF StakeInv, TokenTypeOK
  <2>3. balanceOf[RegistryAddress] + BurnedByOthers >= Stakes
    BY DEF StakeInv, StakesBacked, BurnedByOthers
  <2> QED
    BY <1>1, <1>2, <1>4, <1>6, <2>1, <2>2, <2>3
<1>8. \A m \in NodeIds : nodes'[m].stakedAmount > 0 => nodes'[m].active
  BY <1>3, <1>5 DEF StakeInv, StakesBacked
<1>9. Burned' = Burned
  BY <1>3 DEF Burned
<1>10. StakesBacked'
  BY <1>2, <1>7, <1>8, <1>9 DEF StakeInv, StakesBacked, BurnedByOthers
<1> QED
  BY <1>2, <1>10 DEF StakeInv

\* A leaving node takes its whole stake along.
LEMMA StakeDeregister ==
    ASSUME RegistryInv, StakeInv, NEW op \in NodeOperators, NEW n \in NodeIds,
           DeregisterNode(op, n)
    PROVE  StakeInv'
<1> DEFINE amount == nodes[n].stakedAmount
           new == [nodes[n] EXCEPT !.active = FALSE, !.stakedAmount = 0]
<1>1. /\ op \in Accounts /\ RegistryAddress \in Accounts /\ op # RegistryAddress
      /\ nodes \in [NodeIds -> NodeInfo] /\ nodes[n] \in NodeInfo /\ amount \in Nat
  BY RegistryAssumption DEF RegistryInv, RegistryStateOK, NodeInfo
<1>2. /\ TokenTypeOK' /\ BooksClosed' /\ retired' = retired
      /\ balanceOf'[RegistryAddress] = balanceOf[RegistryAddress] - amount
  <2>1. TokenTypeOK' /\ BooksClosed'
    BY <1>1, TokenCalls DEF DeregisterNode, StakeInv
  <2> QED
    BY <1>1, <2>1 DEF DeregisterNode, Transfer, StakeInv, TokenTypeOK
<1>3. /\ nodes' = [nodes EXCEPT ![n] = new] /\ slashLog' = slashLog
      /\ new.stakedAmount = 0 /\ new.stakedAmount \in Nat
  BY <1>1 DEF DeregisterNode, NodeInfo
<1> HIDE DEF new
<1>4. Stakes \in Int /\ Stakes' = Stakes - amount + new.stakedAmount
  BY <1>3, StakesChange DEF RegistryInv
<1>5. balanceOf'[RegistryAddress] + BurnedByOthers' >= Stakes'
  <2>1. BurnedByOthers' = BurnedByOthers /\ BurnedByOthers \in Int
    BY <1>2, OthersFinite DEF BurnedByOthers, StakeInv
  <2>2. balanceOf[RegistryAddress] \in Int
    BY <1>1 DEF StakeInv, TokenTypeOK
  <2>3. balanceOf[RegistryAddress] + BurnedByOthers >= Stakes
    BY DEF StakeInv, StakesBacked, BurnedByOthers
  <2> HIDE DEF amount
  <2> QED
    BY <1>1, <1>2, <1>3, <1>4, <2>1, <2>2, <2>3
<1>6. \A m \in NodeIds : nodes'[m].stakedAmount > 0 => nodes'[m].active
  BY <1>1, <1>3 DEF StakeInv, StakesBacked
<1>7. Burned' = Burned
  BY <1>3 DEF Burned
<1>8. StakesBacked'
  BY <1>2, <1>5, <1>6, <1>7 DEF StakeInv, StakesBacked, BurnedByOthers
<1> QED
  BY <1>2, <1>8 DEF StakeInv

\* A slash burns what it takes from the stake: a node that loses its place has
\* no stake left, since the third violation takes the whole of it.
LEMMA StakeExecute ==
    ASSUME RegistryInv, StakeInv, NEW pid \in SlashIds, ExecuteSlash(pid)
    PROVE  StakeInv'
<1> DEFINE n == slashProposals[pid].nodeId
           reason == slashProposals[pid].reason
           node == nodes[n]
           amount == (node.stakedAmount * SlashBps(reason, node.violationCount)) \div 10000
           new == Slashed(node, reason, amount)
           k == Len(slashLog) + 1
           e == [pid |-> pid, nodeId |-> n, proposedAt |-> slashProposals[pid].proposedAt,
                 backers |-> backers[pid], burned |-> amount, at |-> timestamp]
<1>1. /\ nodes' = [nodes EXCEPT ![n] = new]
      /\ Burn(RegistryAddress, RegistryAddress, amount)
      /\ slashLog' = Append(slashLog, e)
  BY DEF ExecuteSlash
<1>2. /\ n \in NodeIds /\ reason \in SlashReason /\ node \in NodeInfo
      /\ node.stakedAmount \in Nat /\ node.violationCount \in Nat
      /\ nodes \in [NodeIds -> NodeInfo] /\ RegistryAddress \in Accounts
  BY RegistryAssumption DEF RegistryInv, RegistryStateOK, SlashProposal, NodeInfo
<1>3. e.burned = amount
  OBVIOUS
<1>4. /\ new.stakedAmount = node.stakedAmount - amount
      /\ node.active /\ ~(reason = "InvalidAttestation" /\ node.violationCount >= 2)
            => new.active
  BY <1>2 DEF Slashed, NodeInfo
<1> HIDE DEF n, reason, node, new, e
<1>5. /\ amount \in Nat /\ amount <= node.stakedAmount
      /\ reason = "InvalidAttestation" /\ node.violationCount >= 2
            => amount = node.stakedAmount
  <2>1. amount \in Nat /\ amount <= node.stakedAmount
    <3>1. amount = Share(node.stakedAmount, reason, node.violationCount)
      BY DEF Share
    <3> HIDE DEF amount
    <3> QED
      BY <1>2, <3>1, SlashWithinStake
  <2>2. ASSUME reason = "InvalidAttestation", node.violationCount >= 2
        PROVE  amount = node.stakedAmount
    <3>1. SlashBps(reason, node.violationCount) = 10000
      BY <1>2, <2>2 DEF SlashBps
    <3> QED
      BY <1>2, <3>1
  <2> QED
    BY <2>1, <2>2
<1> HIDE DEF amount
<1>6. new.stakedAmount \in Nat
  BY <1>2, <1>4, <1>5
<1>7. /\ TokenTypeOK' /\ BooksClosed'
      /\ balanceOf'[RegistryAddress] = balanceOf[RegistryAddress] - amount
      /\ retired'[RegistryAddress] = retired[RegistryAddress] + amount
      /\ \A a \in Accounts \ {RegistryAddress} : retired'[a] = retired[a]
  <2>1. TokenTypeOK' /\ BooksClosed'
    BY <1>1, <1>2, <1>5, TokenCalls DEF StakeInv
  <2> QED
    BY <1>1, <1>2, <2>1 DEF Burn, StakeInv, TokenTypeOK
<1>8. Stakes \in Int /\ Stakes' = Stakes - nodes[n].stakedAmount + new.stakedAmount
  BY <1>1, <1>2, <1>6, StakesChange DEF RegistryInv
<1>9. balanceOf'[RegistryAddress] + BurnedByOthers' >= Stakes'
  <2> DEFINE O == Accounts \ {RegistryAddress}
  <2>1. IsFiniteSet(O) /\ BurnedByOthers \in Int /\ \A a \in O : retired'[a] = retired[a]
    BY <1>7, OthersFinite DEF StakeInv
  <2>2. SumFunctionOnSet(retired', O) = SumFunctionOnSet(retired, O)
    <3> HIDE DEF O
    <3> QED
      BY <2>1, SumSame
  <2>3. BurnedByOthers' = BurnedByOthers
    BY <2>2 DEF BurnedByOthers
  <2>4. balanceOf[RegistryAddress] \in Int
    BY <1>2 DEF StakeInv, TokenTypeOK
  <2>5. balanceOf[RegistryAddress] + BurnedByOthers >= Stakes
    BY DEF StakeInv, StakesBacked, BurnedByOthers
  <2> QED
    BY <1>2, <1>4, <1>5, <1>7, <1>8, <2>1, <2>3, <2>4, <2>5 DEF node
<1>10. \A m \in NodeIds : nodes'[m].stakedAmount > 0 => nodes'[m].active
  <2>1. node.stakedAmount > 0 => node.active
    BY <1>2 DEF StakeInv, StakesBacked, node
  <2>2. new.stakedAmount > 0 => /\ node.stakedAmount > 0
                                /\ amount # node.stakedAmount
    BY <1>2, <1>4, <1>5
  <2>3. new.stakedAmount > 0 => new.active
    BY <1>4, <1>5, <2>1, <2>2
  <2> QED
    BY <1>1, <1>2, <2>3 DEF StakeInv, StakesBacked
<1>11. Burned \in Int /\ Burned' = Burned + amount
  <2> DEFINE S == DOMAIN slashLog
             f == [i \in DOMAIN slashLog |-> slashLog[i].burned]
             g == [i \in DOMAIN slashLog' |-> slashLog'[i].burned]
  <2>1. /\ slashLog \in Seq(SlashEvent)
        /\ \A i \in S : slashLog[i].burned \in Nat
    BY LogSpeaksOfIds DEF RegistryInv, RegistryStateOK, SlashEvent
  <2>2. /\ S = 1 .. Len(slashLog) /\ Len(slashLog) \in Nat
        /\ DOMAIN slashLog' = S \cup {k} /\ k \notin S
        /\ slashLog'[k] = e /\ \A i \in S : slashLog'[i] = slashLog[i]
    BY <1>1, <2>1
  <2>3. IsFiniteSet(S)
    <3>1. IsFiniteSet(1 .. Len(slashLog))
      BY <2>2, UpTo
    <3> QED
      BY <2>2, <3>1
  <2>4. /\ \A i \in S : f[i] \in Int /\ f[i] = g[i]
        /\ g[k] = amount /\ \A i \in S \cup {k} : g[i] \in Int
    BY <1>3, <1>5, <2>1, <2>2
  <2>5. Burned = SumFunctionOnSet(f, S) /\ Burned' = SumFunctionOnSet(g, S \cup {k})
    BY <2>2 DEF Burned
  <2> HIDE DEF S, f, g, k
  <2>6. SumFunctionOnSet(f, S) = SumFunctionOnSet(g, S)
    BY <2>3, <2>4, SumSame
  <2>7. SumFunctionOnSet(f, S) \in Int
    BY <2>3, <2>4, SumType
  <2>8. SumFunctionOnSet(g, S \cup {k}) = SumFunctionOnSet(g, S) + g[k]
    BY <2>2, <2>3, <2>4, SumAdd
  <2> QED
    BY <2>4, <2>5, <2>6, <2>7, <2>8
<1>12. retired'[RegistryAddress] = Burned'
  BY <1>7, <1>11 DEF StakeInv, StakesBacked
<1>13. StakesBacked'
  BY <1>9, <1>10, <1>12 DEF StakesBacked, BurnedByOthers
<1> QED
  BY <1>7, <1>13 DEF StakeInv

LEMMA StakeStep == RegistryInv /\ StakeInv /\ [RegistryNext]_nodeVars => StakeInv'
<1> SUFFICES ASSUME RegistryInv, StakeInv, [RegistryNext]_nodeVars PROVE StakeInv'
  OBVIOUS
<1>1. ASSUME UNCHANGED <<nodes, minter, books, slashLog>>,
             burner' = burner \/ burner' \in Accounts
      PROVE  StakeInv'
  BY <1>1 DEF StakeInv, TokenTypeOK, StakesBacked, BooksClosed, books, Stakes, Burned
<1>2. ASSUME NEW pid \in SlashIds, NEW n \in NodeIds, NEW o \in Observers,
             NEW reason \in SlashReason, ProposeSlash(pid, n, o, reason)
      PROVE  StakeInv'
  BY <1>1, <1>2 DEF ProposeSlash, tokenVars
<1>3. ASSUME NEW pid \in SlashIds, NEW o \in Observers, ConfirmSlash(pid, o)
      PROVE  StakeInv'
  BY <1>1, <1>3 DEF ConfirmSlash, tokenVars
<1>4. ASSUME NEW pid \in SlashIds, VetoSlash(pid) PROVE StakeInv'
  BY <1>1, <1>4 DEF VetoSlash, tokenVars
<1>5. ASSUME NEW a \in Accounts, ChangeBurner(a) PROVE StakeInv'
  BY <1>1, <1>5 DEF ChangeBurner, SetBurner, registryVars
<1>7. ASSUME NEW a \in Accounts, NEW amount \in StakeAmounts, TokenMoves(a, amount)
      PROVE  StakeInv'
  <2>1. amount \in Nat /\ RegistryAddress \in Accounts /\ UNCHANGED <<nodes, slashLog>>
        /\ OutsideCall(RegistryAddress, a, amount) /\ TokenTypeOK /\ BooksClosed
    BY <1>7, RegistryAssumption DEF TokenMoves, registryVars, StakeInv
  <2>2. TokenTypeOK' /\ BooksClosed'
    BY <2>1, TokenCalls DEF OutsideCall
  <2>3. Stakes' = Stakes /\ Burned' = Burned
    BY <2>1 DEF Stakes, Burned
  <2>4. /\ balanceOf'[RegistryAddress] + BurnedByOthers'
               >= balanceOf[RegistryAddress] + BurnedByOthers
        /\ retired'[RegistryAddress] = retired[RegistryAddress]
    BY <2>1, OutsideKeepsBacking
  <2>5. balanceOf[RegistryAddress] + BurnedByOthers >= Stakes
    BY DEF StakeInv, StakesBacked, BurnedByOthers
  <2>6. /\ balanceOf'[RegistryAddress] + BurnedByOthers' \in Int
        /\ balanceOf[RegistryAddress] + BurnedByOthers \in Int /\ Stakes \in Int
    <3>1. /\ balanceOf[RegistryAddress] \in Int /\ balanceOf'[RegistryAddress] \in Int
          /\ BurnedByOthers \in Int
      BY <2>1, <2>2, OthersFinite DEF TokenTypeOK
    <3>2. BurnedByOthers' \in Int
      <4>1. IsFiniteSet(Accounts \ {RegistryAddress})
        BY <2>1, OthersFinite
      <4>2. \A x \in Accounts \ {RegistryAddress} : retired'[x] \in Int
        BY <2>2 DEF TokenTypeOK
      <4> QED
        BY <4>1, <4>2, SumType DEF BurnedByOthers
    <3>3. Stakes \in Int
      <4> DEFINE f == [m \in NodeIds |-> nodes[m].stakedAmount]
      <4>1. IsFiniteSet(NodeIds) /\ \A m \in NodeIds : f[m] \in Int
        BY RegistryAssumption DEF RegistryInv, RegistryStateOK, NodeInfo
      <4> HIDE DEF f
      <4>2. SumFunctionOnSet(f, NodeIds) \in Int
        BY <4>1, SumType
      <4> QED
        BY <4>2 DEF f, Stakes
    <3> QED
      BY <3>1, <3>2, <3>3
  <2>7. balanceOf'[RegistryAddress] + BurnedByOthers' >= Stakes'
    BY <2>3, <2>4, <2>5, <2>6
  <2>8. StakesBacked'
    BY <2>1, <2>3, <2>4, <2>7 DEF StakeInv, StakesBacked, BurnedByOthers
  <2> QED
    BY <2>2, <2>8 DEF StakeInv
<1>6. CASE TimePasses \/ UNCHANGED nodeVars
  BY <1>1, <1>6 DEF TimePasses, registryVars, tokenVars, nodeVars
<1> QED
  BY <1>2, <1>3, <1>4, <1>5, <1>6, <1>7, StakeRegister, StakeDeregister, StakeExecute
     DEF RegistryNext

\* The registry's and the token's books agree with the history of slashes.
THEOREM StakeInvariant == RegistrySpec => []StakeInv
  BY RegistryInvariant, StakeInit, StakeStep, PTL DEF RegistrySpec

\* Whatever is registered, slashed, withdrawn, sent to the registry or burned by
\* others in whatever order, the registry can pay back every stake it records but
\* for what other burners burned, a node without a place has no stake in it, and
\* what the registry burned is what slashes took (registerNode, deregisterNode,
\* executeSlash with its rounding, PrimToken's transfers, mints and burns).
THEOREM RegistrySolvent == RegistrySpec => []StakesBacked
  BY StakeInvariant, PTL DEF StakeInv

\* No stake, balance or supply goes below zero and no violation count passes its
\* uint8 in any history (the subtractions of executeSlash and of the token).
THEOREM RegistryTypes == RegistrySpec => []RegistryTypeOK
  BY RegistryInvariant, StakeInvariant, PTL DEF RegistryInv, StakeInv, RegistryTypeOK
=============================================================================
