# Primora: TLA+ specifications

Primora pays users of a mining client in PRM. A Rust backend (`crates/`) takes
partial proofs, prices the session and writes a mint proposal to Postgres; an
operator's CLI carries the proposal to Solidity contracts (`contracts/src/`),
which mint after a 3-of-5 approval and a 48-hour timelock. This directory
specifies the parts of that path in which an order of events nobody tested could
pay twice, pay what was not earned, or lose what was.

## The system

| Part | State it keeps | Operations | Talks to |
|---|---|---|---|
| `verification-service` (session handlers) | map of TWAP calculators behind one lock, session gauge (memory) | create, submit proof, pause, resume, end | Redis, Postgres, oracle, chain, nodes |
| `verification-service` (admin login) | nonces (memory), tokens (with the clients) | nonce, login, guard | - |
| `verification-service` (read endpoints) | caches of the edge and the reserves | estimate, sessions, staking, reserve, earnings, alerts | Postgres, Redis, chain |
| `verification-service` (start-up) | the configuration of the process | main | all of them |
| `session-manager` | Redis keys of a session: context, commitment, proofs, counters, pause flag | one or a few Redis commands each | Redis |
| `rate-limiter` | Redis counters | check (INCR, EXPIRE) | Redis |
| `postgres-store` | `mint_proposals`, anomaly events | insert, mark, list, 24-hour total | Postgres |
| `admin-cli` | none between commands | list, propose, approve, execute, cancel, status | Postgres, chain |
| `onchain-client`, `oracle-reader` | cached house edge, stakes | reads, transactions | chain, Chainlink, Pyth |
| `node-coordinator`, `node-server` | node list, clients | select nodes, collect signatures | nodes (gRPC) |
| `twap-calculator`, `payout-calculator`, `mint-ceiling`, `anomaly-engine`, `proof-validator`, `randomx-verifier` | none shared | pure computations | - |
| `MiningContract` | signers, proposals, replay flags, per-block totals | signer set, ceiling, propose, approve, execute, cancel | PrimToken |
| `PrimToken` | balances, supply, minter, burner | mint, burn, set roles | - |
| `NodeRegistry` | nodes and stakes, slash proposals | register, deregister, propose, confirm, veto, execute slash | PrimToken |
| `StakingContract`, `HouseEdge`, `OracleAggregator`, `Treasury` | stakes, edge proposals, prices, reserves | stake, unstake; propose, execute, cancel, adjust; submit; deposit, withdraw, redeem | PrimToken, stablecoins |

What is hard about it:

* **Handlers overlap.** Every `.await` of a handler lets others run. What was read
  before it (the proof list, the pause flag, the 24-hour total) may be stale after
  it. The map of calculators is one lock for all sessions, held across a remote
  read.
* **Things fail half-way.** A handler meets an error, its client disconnects, the
  process restarts (memory goes, Redis and Postgres stay), keys expire between two
  commands, a CLI command dies between its transaction and the row it should mark.
* **Ids are reused.** `proposeMint` and `proposeSlash` overwrite what is stored
  under the id, with some fields reset and some not; `confirmSlash` and
  `executeSlash` accept an id that was never proposed.
* **The token is shared.** While the contracts keep their own books, holders send PRM
  where they like, and the token's owner can install other minters and burners.
* **Remote parties are not trusted.** A node may answer late, never, twice under two
  ids, or with a signature of something else; a feed may answer nonsense; messages
  and tokens of an admin may be replayed.
* **Limits and clocks.** A timelock, a veto window, a daily and a per-block ceiling,
  each read at another moment than the one that matters.

`PROJECT.json` lists these hazards at the lines where they bite, with the
properties that watch them.

## The modules

| Module | Models |
|---|---|
| `PrimToken` | `PrimToken.sol`, with what anybody but the contract in question may do on it; ERC-20 transfer is library code |
| `MiningContract` | `MiningContract.sol` with the token: one action per transaction, one for time |
| `MiningContractProofs` | theorems about it |
| `PayoutLedger` | what the pipeline promises: a session is settled once, paid its amount once or never |
| `MintPipeline` | the end of `end_session`, `mint_proposals`, the CLI commands, and `MiningContract` below them |
| `MintPipelineProofs` | theorems about it |
| `SessionStore` | the Redis keys of sessions (`session-manager`) |
| `SessionService` | the five session handlers, await by await, over `SessionStore` |
| `SessionServiceProofs` | theorems about it |
| `NodeRegistry` | `NodeRegistry.sol` with the token |
| `NodeRegistryProofs` | theorems about it |
| `Reports` | the queries and endpoints that report on `mint_proposals`, over `MintPipeline` (theorems in `MintPipelineProofs`) |
| `Attestation` | `node-coordinator`, `node-server`, `randomx-verifier` and the node configuration of `main` |
| `AttestationProofs` | theorems about it |
| `Payout` | the arithmetic of `payout-calculator`, `twap-calculator`, `oracle-reader` and of the boost in `StakingContract.sol` |
| `Economy` | what a session is worth: the awaits of `end_session`, estimate, session list, staking and reserve reports, over the caches, Redis keys, feeds and four contracts they touch |
| `EconomyProofs` | theorems about it and about `Payout` |
| `Startup` | `main.rs`: which environments it refuses, what it builds from the others |
| `AdminAuth` | `admin.rs`: nonces, SIWE login, tokens, guard |
| `Admission` | `rate-limiter`, the session count of `create_session`, pre-filter and anomaly scoring of `submit_proof` |
| `Access` | `Startup`, `AdminAuth` and `Admission` in one process that crashes and is restarted |
| `AccessProofs` | theorems about it |
| `SumTheorems` | laws of sums over finite sets, which the proofs about totals rest on |
| `MC...` | the small instances, their symmetry and bounds |

### How state and steps correspond to the code

*Contracts.* A transaction is atomic and a revert leaves no trace, so each external
function is one action whose guards are its checks, and the call it makes of the
token is part of the action. `TokenMoves` is everybody else on the token: a holder's
transfer to any account, a mint or burn by another minter or burner that the token's
owner installed (`ChangeMinter`, `ChangeBurner`). Storage keeps its names. `mapping(x => bool)` is the
set of keys that map to true. Two variables of `MiningContract` and two of
`NodeRegistry` are histories of emitted events (`mintLog`, `approvalLog`;
`slashLog`, `backers`), and `issued` and `retired` of `PrimToken` add up what each
caller minted and burned: no guard reads them, the properties do.

*Pipeline.* `settle` says where `end_session` of a session stands between the read
of the 24-hour total and the insert. `cli` is the command an operator runs: each
command is one transaction and one row update, with `CommandDies` possible between
them and any other command beside it. `derive_proposal_id` is injective in what
matters here, so a session is its own proposal id.

*Handlers.* `pc` of a request is the await it stands before. A step is what runs
from there to the next await that another handler could tell apart; consecutive
Redis writes to keys nobody reads in between are one step that may do any part of
them. Every remote call has the branch for its error. `Disconnect` drops the handler
of a client that went away (and its lock), `Restart` drops all of them and the
memory. `ContextExpires` and `DataExpires` are the TTLs: context keys
live an hour from creation, keys written later go later, and `proof_count` has no
TTL at all. The body of a request is reduced to the one bit its handler branches on
(does the pre-filter pass; does the nonce match; pause or resume).

*Attestation.* A call of `coordinate_attestation` keeps its locals in `call`; it asks
its targets one after the other (`try_request`), and each wait ends with `Receive`
or `Timeout`. A request stays in `requests` until its server took it up, also after
the call gave up on it; its late answer goes nowhere. `request_attestation` is a
node's whole handler: authentication, missing hash, pre-filter, verifier thread,
signature. `VerifierDies` and `Restart` are its failures, `Lie` is a node that does
not follow the code. A node is sent the first proof only, and the attestation carries
the hashes of all: the model keeps the whole set. `select_nodes` is the shuffle of the code, driven by the bytes
of the seed block. RandomX is a function given by the instance.

*Economy.* `Route` lists the awaits of each handler, and `req` holds the stage and
the locals of a request. Between two of its steps proofs arrive, feeds move and the
contracts change. A submission is a process of its own (`miner`) and several overlap:
SET NX of the anchor, INCRBY, the clock read and the SET of `touch_last_activity`, and
the price sample are steps, each of which may fail. `submit_price` is the submitter's
loop: a nonce conflict with rival transactions, a send that fails, a transaction that
is mined and stores or reverts, an answer that is lost, and "already known" for the
submitter's own transaction, which the code takes for a conflict. The caches are read, missed, refetched and overwritten as in
`current_edge_bps` and `reserve_balances`; `read_at` beside the code's `fetched_at`
remembers when the chain was really read, for the property only. `Payout` keeps
every rounding; the decimal scales are constants so that an instance stays within
the 32 bits of TLC.

*Access.* `service` is what the running process was built with. A login is two steps
with the nonce lock between them (`login_verify`, `login_consume`): that is where
replays and the clock can interleave. INCR and EXPIRE of the limiter are two steps,
each of which may fail or lose its answer (`RedisFails`). The count of a wallet's open
sessions is a SCAN, one step per page: a page names any of the sessions open at that
moment, those of earlier pages included, and the loop may end once every session open
since it began has been named, which is what Redis guarantees. `granted`, `lost`,
`minted`, `uses` and, beside a session's context, `pages`, `named` and `beside` are
histories that no guard reads, except that a uuid is not drawn twice.

### Abstractions

* Amounts are small numbers. Their arithmetic is in `Payout` and `Economy`; in the
  pipeline an amount is an input.
* One clock serves backend, Postgres and chain in `MintPipeline`, and one chain
  stands for the two the backend can serve.
* An operator who passes `--session-id` passes the session of the proposal named.
* ERC-20 allowances are granted; a missing one is a revert and so no step.
* `Economy` follows one wallet, one session, one commodity and one proposal id of
  `HouseEdge` at a time (the code has a mapping of them; no property is about it). A chain read takes at most `MaxFetch`: the code sets no limit on it, so
  this is an assumption of `ReadsAreRecent`, not a fact.
* `Attestation`: handlers of a node share only the queue of the verifier thread, so they
  are served in any order. An error status, `valid = false` and a malformed signature
  are one answer, `Refused`: the coordinator treats them alike.
* `Access`: monotonic and unix time are one clock; the channel of anomaly events, which only logs, is left out. A
  submission has one result, so a score never goes beyond Medium, and
  `last_submission_at` is never set, so the timing check never fires: both are
  modelled as they are. A wallet's counter is consumed even when its address is
  denied. A token cannot be made without its secret.
* `Reports`: each report is one SQL statement, hence a function of the state; the order of
  rows with equal dates is not fixed by `ORDER BY created_at`, so the list of payouts is
  the set of the answers Postgres may give.
* UUPS upgrades and ownership transfers are left out: they replace the program.
* `uint8 confirmations` of a slash is a natural number: it grows once per distinct
  observer and would revert at 256.

## The runs

| Run | Shows |
|---|---|
| `mining` | Under every order of signer changes, ceilings, proposals (repeated ones too), approvals, executions, cancellations and role changes: a session is minted once; every mint had the approvals for exactly its terms and waited; `signerCount` is exact; mints of a block fit the ceiling in force. With holders, another minter and a burner at work on the token: what the contract issued is the sum of its executed mints, the balances add up to the supply, and the supply to what was minted less what was burned. |
| `mining_reproposal` (violation) | `hasApproved` keeps the flags of an overwritten proposal: it then holds accounts that never approved the present terms, and these cannot approve them. |
| `pipeline` | The pipeline implements `PayoutLedger`; a row is never ahead of the chain; a row is Confirmed only a full timelock after it was dated; the reports stay between what was minted and what was proposed. |
| `daily_ceiling` (violation) | `total_minted_wei_24h` is 0 right after a mint: it looks at the row's creation date, which is two days back by then (`ConfirmedAfterTimelock` says it always is). |
| `session_safety` | Three concurrent requests of any kind on a session, with errors, disconnects, expiry and a restart: one signed proposal at most, only earned rows, a completed session is gone, a pause holds. |
| `session_liveness` | As long as the oracle answers, every request is answered: the lock is never left held. |
| `deferred_mint` (violation) | After `mint_ceiling_unverified` ("deferring mint") the session cannot be ended again: its calculator was taken. |
| `lost_proof` (violation) | Two overlapping submissions: the second `SET` of `store_proof` drops the first proof. |
| `registry` | Every slash had two observers confirm it since its id was last proposed and, if the id was proposed at all, waited the whole veto window; one never proposed strikes node 0 only; none is both vetoed and executed; none happens twice. The registry holds every stake it owes, except for what other burners burned, while others send it PRM and the burner moves; it burned itself what slashes took, no more. |
| `attestation` | Three different registered signers that ran RandomX on this very proof, or no attestation; with one Byzantine node a forged first proof is never attested and a genuine one never blocked; every attestation ends. |
| `economy` | Cached reads are at most a TTL and one read old; a price submission lands once, and again only after "already known", says ok only when its price was stored, and gives up only against more transactions than retries; the boost is what the contracts state; the rate of a settlement is covered by accepted work, its price lies within the session's samples; the three places that compute a payout agree. |
| `access` | A nonce logs in once and only in the process that drew it; no admission outlasts nonce and token lifetimes through restarts and new configurations; at most two limits of requests pass in any stretch of one window; a counter that does not expire has its EXPIRE coming or lost; a review flag for duplicates is earned and not missed, as far as a SCAN can tell. |

What two of these do not say: `RateIsEarned` is about the rate. `end_session` pays it for
the whole time from the creation of the session to its end, so the pay is not bounded
by the work (two proofs at ticks 0 and 1 and an end at 2 are paid for two ticks at the rate
of one). And `RowsNeverAheadOfChain` admits a row that falls back from Confirmed to
Submitted when a slow `propose` marks it late: the update is unconditional.

### Bounds, and why they are enough

* `mining`: two sessions and two proposal ids, so that one session meets two ids and
  one id two sessions; three candidates for two seats and a quorum of two, so that
  a signer can be replaced between approval and execution; amounts of 1 under
  ceilings 1 and 2, so that a second mint in the block fits or does not; blocks 0
  and 1 and a timelock of one tick; two mints, four approvals (`MCBounds`). Others use
  the token once two mints are approved, between their executions (`MCMoves`): one account
  becomes minter and burner in turn, two units are minted or burned. The theorems below
  cover the other values.
* `pipeline`: one session (sessions meet only in the 24-hour total and the per-block
  ceiling), two operators, amounts 0 (refused by `proposeMint`), 1 and 3 (above both
  ceilings), a timelock of two days on a day of one tick, four blocks: enough to propose,
  wait, execute and look back a day.
* `session_*`: three requests suffice for a submission that earns a sample and two
  rival ends; two for liveness and the two violations. One restart. A calculator
  counts samples up to one: the handlers ask only whether there is any.
* `registry`: three ids, so that one node can be slashed through 10%, 25% and 100%;
  two node ids, one of them the zero id that an unproposed slash points at; two
  observers; stakes of 20 and one below the minimum; `UINT8_MAX` 3. At
  most one veto, the burner moved only before the first slash and the second node
  never accused (`MCBounds`); these prune combinations, not kinds of steps. Others
  send PRM to the registry, mint and burn while one slash id is in use.
* `attestation`: one call (calls share only the nodes' verifier threads), six node ids:
  two are one server with one key, one is Byzantine, one has another API key; the
  assigned node is good, Byzantine or unknown; three seeds choose one of each mix;
  no proof, a too easy one, a genuine one before a forged one and the reverse; two
  servers fail.
* `economy`: two requests meet only in the caches, so two reserve reports or two quotes
  run together and the other kinds alone (`MCBounds`), while proofs, contracts
  and feeds move (`MCEvents`: only while somebody has yet to read them). One change of
  chain or feed, or one failure; two proofs by two overlapping submissions, before a
  request begins or during the reads of a settlement (then edge, stakes and the key's
  other transactions stand still); three transactions of the submitter's
  key against one retry; a cache TTL of two ticks against reads of one, so that an
  answer can be overwritten by an older one. Stakes 1 and 49 units lie at the first
  threshold and just below the last, 0 below `minStake`.
* `access`: two admins, two secrets, two nonces, two concurrent logins and two starts in
  six environments; two concurrent creations of one wallet and three sessions, which
  is what a flag takes; SCANs of up to two pages. A wallet has a limit of two in a window of
  two ticks, so that a stretch across an expiry lets through three requests: the most
  there can be, since the request that created a counter is a whole window older than the
  counter's end, and one below the bound that is stated. The subjects share only the
  process and the clock, so a behaviour is about one of them (`MCBounds`).

Deadlock is not checked: a contract nobody calls and a service nobody asks may
rest, and the bounded clock ends.

### Fairness

`attestation` assumes weak fairness of the coordinator's own steps: the runtime polls a
call, and the timer of a request fires. Nothing is assumed of nodes or network,
and `AttestationEnds` holds all the same.

`session_liveness` assumes weak fairness of the steps of each request.
Tokio polls a task that was woken and `tokio::sync::RwLock` queues its waiters; the
Redis, Postgres, chain and node calls of a request answer or fail (the code itself
sets a timeout for the nodes only; a call that hung would hold up that one request).
The oracle read is different: `submit_proof` makes it under the lock all sessions
share and without a timeout. That it answers is an assumption of its own,
`OracleAnswers`; without it one hung read would hold up every session. Arrivals,
expiry, disconnects and restarts are not fair.

## The theorems

For every value of the constants that the named assumptions admit.

* **`MiningContractProofs`**: `TypeCorrect`, `ReplayGuard`, `QuorumAndTimelock` and
  `SignerLimit`, from the inductive invariant `MiningInv`.
  The properties speak of the history, so the invariant ties it to the storage: a
  mint in the log set its replay flag (otherwise a second one could follow), a
  nonzero `approvals` counter is backed by as many entries of the approval log with
  the present terms and by flags that are still set (otherwise an old approval could
  be counted again), and only `proposeMint` writes terms. `CeilingPerBlock` and
  `SupplyExact` add up the log: `BooksInv` says that `mintedInBlock` is the sum of
  the block's mints and what the contract issued the sum of all of them, and that the
  token's books are closed (`BooksInvariant`). A call by anybody else changes what that
  caller issued or retired and not what the contract did.
  Assumptions: finitely many accounts, and a genesis time above zero (0 means "not
  proposed").
* **`MintPipelineProofs`**: each step of the pipeline is a step of the contract or
  leaves it alone, so `MiningInv` and `BooksInv` carry over from the deployed state
  (`PipelineInvariant`, `PipelinePaysOnce`, `PipelineBooks`). `PipelineInv` adds that
  what a CLI command is about to write is already true on chain, that a proposal on
  chain is newer than its row, and that a minted session waited; `PipelineTypes`,
  `TableFollowsChain` and `ConfirmedIsOld` follow. `AmountsFromRows` says that what is
  proposed or about to be is the row's amount, `PaymentsExact` that a session was paid
  all of it or nothing (`PaymentsInvariant`). With these every step is a step of
  `PayoutLedger` or a stutter under the mapping `Due`, `Paid`
  (`PipelineImplementsLedger`): inserting a row settles, executing pays, everything
  else is invisible, the token's other users included. `ReportsTrue` compares sums over the confirmed, the minted and
  all rows. Assumptions: finitely many sessions, one proposal id per session,
  derived from it, the wallet paid is an account other than zero.
* **`SessionServiceProofs`**: `ServiceTypes`, `OneProposal`, `EarnedRows`,
  `CompletedStaysGone` and `PauseShutsOut` from `ServiceInv`. `OneClaim` is why there is
  one proposal: the calculator is the one right to sign, so while it is in the map, or
  not made yet, no request has a claim on the session, and no two ever have. `EvidenceHeld` carries the checks of `end_session` in its locals to the
  insert, since what they checked may expire behind them. `Gone` follows a deleted
  session past handlers still under way, `ShutOut` the submissions that met a pause,
  `LockHeld` ties the lock to its holder.
* **`NodeRegistryProofs`**: `SlashingIsDue`, `VetoHolds`, `SlashOnce` from
  `RegistryInv`. Its core is that `confirmations` never exceeds the number of
  observers that confirmed the accusation as it stands now, although the flags of
  earlier accusations stay, and that a logged slash left its `executed` mark,
  which nothing resets. `UnproposedAccuseZero` says that an id without a date names the
  zero node, which is all the contract guarantees of it. `RegistrySolvent` and
  `RegistryTypes` from `StakeInv`: the registry's balance and what other burners burned
  together cover the stakes, and what the registry burned is what the log of slashes
  adds up to. Assumptions: finitely
  many accounts, nodes and observers; the registry operates no node.
* **`AccessProofs`**: `NonceSingleUse` and `AdmissionExpires` from `LoginInv`: a nonce in the
  map was drawn by this very process and not used yet, a login under way read
  the clock in the past, and a token ends before the lifetimes of its nonce and its
  session are over, whatever the service is configured with now. `WindowsExpire` from
  `CounterInv`: at most one request is about to set a key's TTL, exactly one where the
  TTL is missing and not lost, none where there is a TTL or no key. It is
  inductive because only the INCR that finds no key leads to an EXPIRE, and a key
  without a TTL does not go away before that EXPIRE. `RateLimits` from `EpochOK`: what a
  stretch of one window lets through belongs to at most two lives of the key, and each
  life admits no more than its count, hence the limit; `FlagsEarned` from `FlagInv`: the
  count a creation carries is no less than the sessions named, equal to them while there
  was one page and 0 when none was named, and a SCAN that is over has named every session
  that was open all along.
  `AccessTypes` comes with them. All of it is shown once for the kinds of steps a
  creation can make (`Move`) and then for each action (`StepKinds`). Assumptions: finitely
  many creations and sessions, limits and windows above zero, and `None` distinct
  from the values it stands beside.
* **`AttestationProofs`**: `AttestationTypes`, `QuorumEarned`, `FirstProofGenuine` and `OneBadNode`
  from `QuorumInv`, for any number of calls, nodes, entries of the two start-up lists,
  proofs and crashes. A request under way carries the proof and the server of the
  target it was made for, and belongs to the present wait only if its index does
  (`RequestOK`): this is why a late answer of an earlier target cannot be counted for a
  later one. The awaited answer, if honest, signs this call's first proof, and a
  genuine proof is refused only by a server that lies, has another key or crashed
  (`ReplyOK`). What is counted is distinct and registered (`Tally`), and a sound target
  behind the call has been counted (`PassedOK`). That `select_nodes` yields configured
  nodes is proved through its two loops. `FirstProofGenuine` has the hypothesis `FewLiars`: fewer
  registered addresses than the quorum belong to Byzantine servers, which is weaker
  than the one faulty node the code's comment speaks of; the instance satisfies it.
* **`EconomyProofs`**: `EconomyTypes`, `ReadsRecent`, `SubmissionsSettled`, `BoostTrue`,
  `RateEarned` and `EstimatesTrue` from `EconomyInv` (`EconomyInvariant`), for any number of
  requests, proofs, samples, retries, rival transactions, failed calls and changes on
  chain, and any prices, stakes and scales. The invariant says of each request what its
  locals owe to the world: a fetch under way began at most `MaxFetch` ago and what it has
  got was read since (`FetchOK`), and a cached value was stored at most that long after
  its read (`Recent`), which bounds the age even when a slow answer overwrites a newer
  one (`AgeOK`); the submission under way has met a transaction for each retry, a rival's or
  its own that was "already known", and those to come are untouched (`Present`, `ToCome`); the price is the average of samples
  that no proof can add to any more (`PriceOK`), the sum is what accepted proofs offered less the anchor and less
  what submissions under way still owe (`ProofsOK`, `Owed`), so the rate is covered by difficulty
  that was accepted before the sum was read (`RateOK`, `Covered`), the boost is the one of the stakes read
  (`BoostOK`), the result is the settlement's formula (`ResultOK`). `ReqFrame` shows once that
  the rest of the system does not disturb a request that stands still (`Drift`): time
  passes, transactions and work only grow, a calculator that is gone does not come back.
  About `Payout`: `AverageWithin` (the average lies between the smallest and the largest
  sample), `BoostSound` (the service's boost against the contract's, for every amount and
  lock), `NetWithin`, and that a price read is a natural number or none, which needs the power
  of ten as a recursive function (`Pow10Type`). Assumptions (`EconomyAssumption`,
  `AbsentAssumption`): the two chains, at most one submitter per chain (`main` builds one
  of each), a cache TTL above zero, integers from the feeds, and `None` distinct from the
  values it stands beside.
* **`SumTheorems`**: what a sum over a finite set does when one term changes, when a
  set grows or splits, when terms are bounded. `SumFunctionOnSet` is a fold over a
  choice function; its laws are proved from a smallest counterexample.

Only model-checked: liveness (`session_liveness`, `AttestationEnds`), which the prover
does not reach. Every safety property of a passing run is also a theorem. That a
chain read takes at most `MaxFetch` is an assumption about the chain's nodes, in the run as
in the proofs. The prover cannot use induction schemas over an
operator, so induction is done over sets of naturals (`CountUp`, `Smallest` in
`SumTheorems`) and only for finite sums and bounded recursive functions.

## Disagreements met on the way

Four runs exhibit one each (`mining_reproposal`, `daily_ceiling`, `deferred_mint`,
`lost_proof`). For the others a property of a passing run states what does hold:

* `NodeRegistry.sol` says a slash comes after the veto window. `confirmSlash` and
  `executeSlash` accept an id nobody proposed: it has the date 0 and names node 0, and is
  carried out at once (`SlashesConfirmedAndWaited`; the run `registry` reaches it).
* A comment says a node recomputes the hash of each proof. It is sent the first one
  only; a session with a genuine first and a forged second proof is attested
  (`FirstProofIsGenuine`).
* A wallet with one other session open is a duplicate by `common`'s comment; the code
  flags from two others on (`FlagsAreEarned`).
* Earnings sum proposals of every status where a comment says "minted"
  (`ReportsBracketChain`).
* The age of a cached edge is counted from the answer and not from the read
  (`ReadsAreRecent`).
* The first signature of an attestation is not always the assigned node's; nothing
  depends on it.

`PROJECT.json` quotes the lines.

## Not modelled, and the plan

Left out on purpose:

* `StakingContract.distributeRevenue` and the list of stakers: one owner transaction that
  loops over all stakers and sums shares; nothing interleaves with it.
* The formula of `mint-ceiling` (a product of two settings): the ceiling is a constant of
  the pipeline.
* `setSubmitter`, `setRedeemer`, the views of `OracleAggregator` and `Treasury` that the
  service does not call, `check_node` and `reset` of the limiter, which nothing calls.
* The node roster, the metrics page and the admin overview, which project state;
  `logout`, which does nothing.
* RandomX itself, gRPC and HTTP plumbing, wire formats; upgrades.

Next, in this order:

1. `SessionService` with the outcome of `Attestation` in place of its choice.
