------------------------------ MODULE Economy -------------------------------
(***************************************************************************)
(* What a session is worth: the part of the verification service that      *)
(* reads prices, the house edge, stakes, reserves and the session's work,  *)
(* and turns them into a payout (end_session), an estimate, the list of a  *)
(* wallet's sessions or the reserve report; and the contracts it reads     *)
(* (HouseEdge, StakingContract, Treasury) and writes (OracleAggregator).   *)
(* Requests and submissions of proofs run concurrently, every await ends a *)
(* step, every remote call may fail.  A session is followed from its       *)
(* creation to its settlement, for one wallet.                             *)
(***************************************************************************)
EXTENDS Payout, Functions

CONSTANTS
    Requests,          \* HTTP requests that read or settle
    Miners,            \* requests of the session's client that submit a proof
    Chains,            \* sequence: Ethereum, Polygon
    Submitters,        \* sequence: the chains with an OracleSubmitter
    Treasuries,        \* sequence: the chains with a TreasuryReader
    Commodities,       \* commodities of the session
    MAX_NONCE_RETRIES,
    CACHE_TTL,         \* HOUSE_EDGE_CACHE_TTL, RESERVE_CACHE_TTL
    MAX_HASHRATE,      \* max_hashrate of the session's client type
    REF_HASHRATE,      \* the reference rate of an estimate
    ESTIMATE_DURATION, \* duration_secs of an estimate
    TIMELOCK_DELAY, LOCK_DURATION, minStake,
    DIVERGENCE_THRESHOLD_BPS,
    RawPrices,         \* what a feed may answer, with exponent
    OpeningPrice,      \* what it answers at first
    Difficulties,      \* difficulties clients submit proofs with
    OpeningStakes,     \* amounts the wallet may have staked on Polygon before
    StakeAmounts, EdgeChoices, ReserveRatios, Deposits,
    None,              \* absent
    MaxTime,           \* bound: clock
    MaxFetch,          \* assumption: a chain read takes no longer
    MaxProofs,         \* bound: accepted proofs
    MaxTransactions,   \* bound: transactions of the submitter's key
    MaxEvents          \* bound: changes on chain or of the feed, and failed calls

Chain == Range(Chains)

ASSUME EconomyAssumption ==
    /\ Chains = <<"Ethereum", "Polygon">> /\ Requests # {} /\ None \notin Int
    /\ IsFiniteSet(Miners)
    /\ OpeningPrice \in RawPrices /\ RawPrices \subseteq [price : Int, expo : Int]
    /\ {Submitters, Treasuries} \subseteq Seq(Chain) /\ Commodities \subseteq Commodity
    /\ \A i, j \in DOMAIN Submitters : Submitters[i] = Submitters[j] => i = j
    /\ CACHE_TTL > 0
    /\ {MAX_NONCE_RETRIES, CACHE_TTL, MAX_HASHRATE, REF_HASHRATE, ESTIMATE_DURATION,
        TIMELOCK_DELAY, LOCK_DURATION, minStake, DIVERGENCE_THRESHOLD_BPS, MaxTime, MaxFetch,
        MaxProofs, MaxTransactions, MaxEvents} \subseteq Nat
    /\ Difficulties \cup OpeningStakes \cup StakeAmounts \cup EdgeChoices
           \cup ReserveRatios \cup Deposits \subseteq Nat

VARIABLES
    now,
    houseEdge,   \* HouseEdge: current and operator's edge, the one proposal
    stakes,      \* StakingContract: the wallet's stake, per chain
    treasury,    \* Treasury: balances and total redeemed, per chain
    aggregator,  \* OracleAggregator: the price (0 when none); the signer's transactions
    feed,        \* the raw price of the session's commodity
    session,     \* Redis keys and calculator of the session
    miner,       \* per submission of a proof, its stage and locals
    edgeCache, reserveCache,
    req,         \* per request, its kind, stage and locals
    events,
    work         \* history: proofs accepted, their difficulty, that of the one that set the clock

chainVars == <<houseEdge, stakes, treasury, aggregator>>
cacheVars == <<edgeCache, reserveCache>>
vars == <<now, chainVars, feed, session, miner, cacheVars, req, events, work>>

\* The awaits of each handler, in order.
Route == [settle   |-> <<"twap", "submit", "edge", "rate", "stake", "pay">>,
          estimate |-> <<"rate", "edge", "stake", "spot">>,
          quote    |-> <<"edge", "spot">>,
          sessions |-> <<"rate", "stake", "edge", "list">>,
          staking  |-> <<"stake">>,
          reserve  |-> <<"reserve">>]

\* Nothing computed yet.
NoResult == [gross |-> 0, redemption |-> 0, net |-> None]

Idle == [kind |-> None, at |-> 0, step |-> "start", todo |-> <<>>, nonce |-> 0, tries |-> 0,
         since |-> 0, twap |-> 0, duration |-> 0, edge |-> DEFAULT_EDGE_BPS, edgeAge |-> 0,
         first |-> None, last |-> None, rate |-> 0, read |-> [c \in {} |-> NoStake], boost |-> 0,
         sent |-> [c \in Chain |-> None], got |-> <<>>, report |-> [c \in {} |-> None], result |-> NoResult]

\* No submission: nothing stamped, no difficulty left to record.
NoProof == [at |-> "idle", stamp |-> 0, difficulty |-> 0]

\* None is neither a handler nor the record of a submission.
ASSUME AbsentAssumption ==
    /\ None \notin DOMAIN Route
    /\ None \notin [status : {"open", "ok", "error", "nonce"}, own : Nat, known : Nat,
                     stored : BOOLEAN, begun : Nat, rivals : Int]

Stage(r) == IF req[r].kind = None THEN "idle"
            ELSE IF req[r].at > Len(Route[req[r].kind]) THEN "done" ELSE Route[req[r].kind][req[r].at]

At(r, stage, step) == Stage(r) = stage /\ req[r].step = step

\* Request r goes on to its next stage, or answers now.
Proceed(k) == [k EXCEPT !.at = @ + 1, !.step = "start", !.todo = <<>>, !.since = 0, !.nonce = 0]
\* The loop over the chains of todo is over, or goes on.
Loop(k) == IF k.todo = <<>> THEN Proceed(k) ELSE k
Answer(k) == [Proceed(k) EXCEPT !.at = Len(Route[k.kind]) + 1]

\* A failed call or another event of the environment, within the bound.
Happens == events < MaxEvents /\ events' = events + 1
Quiet == UNCHANGED events
-----------------------------------------------------------------------------
Init ==
    /\ now = 0
    /\ houseEdge = [current |-> DEFAULT_EDGE_BPS, operator |-> DEFAULT_EDGE_BPS, proposal |-> None]
    /\ \E amount \in OpeningStakes :
          stakes = [c \in Chain |->
                      LET held == IF c = "Polygon" THEN amount ELSE 0
                      IN  [amount |-> held, lockPeriod |-> 0, unlockAt |-> 0, active |-> held > 0]]
    /\ treasury = [c \in Chain |-> [usdc |-> 1, usdt |-> 1, redeemed |-> 0]]
    /\ aggregator = [c \in Chain |-> [price |-> 0, txs |-> 0]]
    /\ feed = OpeningPrice
    /\ session \in [commodity : Commodities, first : {None}, last : {None}, sum : {0},
                    samples : {<<>>}, live : {TRUE}]
    /\ miner = [m \in Miners |-> NoProof]
    /\ edgeCache = None /\ reserveCache = [c \in Chain |-> None]
    /\ req = [r \in Requests |-> Idle]
    /\ events = 0
    /\ work = [proofs |-> 0, offered |-> 0, anchor |-> None]

\* A request arrives; end_session comes once for a session that still has its
\* calculator (SessionService has the rest of that handler).
Arrive(r) ==
    /\ Stage(r) = "idle"
    /\ \E kind \in DOMAIN Route :
          LET k == [Idle EXCEPT !.kind = kind, !.at = 1]
          IN  req' = [req EXCEPT ![r] = IF kind # "reserve" THEN k ELSE Loop([k EXCEPT !.todo = Treasuries])]
    /\ UNCHANGED <<now, chainVars, feed, session, miner, cacheVars, events, work>>
-----------------------------------------------------------------------------
(* The session's work: submit_proof for an accepted proof.  Submissions     *)
(* overlap; a command of Redis may fail, or work and lose its answer, and   *)
(* the handler goes on.  The keys' TTLs outlive the session.                *)

\* The pre-filter has accepted a proof; the time is taken for the first command.
submit_proof(m, d) ==
    /\ miner[m].at = "idle" /\ work.proofs < MaxProofs
    /\ miner' = [miner EXCEPT ![m] = [at |-> "anchor", stamp |-> now, difficulty |-> d]]
    /\ work' = [work EXCEPT !.proofs = @ + 1, !.offered = @ + d]
    /\ UNCHANGED <<now, chainVars, feed, session, cacheVars, req, events>>

\* The difficulty is recorded, or lost: on to touch_last_activity.
RecordDone(m) == miner' = [miner EXCEPT ![m] = [at |-> "stamp", stamp |-> miner[m].stamp, difficulty |-> 0]]

\* SET NX: the first proof anchors the clock and counts no work.  After it the
\* handler is done with the record, unless the key was there.
\* A mutated form: the difficulty of the first proof is counted too.
Anchored_Counts(m) ==
    [session EXCEPT !.first = miner[m].stamp, !.sum = @ + miner[m].difficulty]

Anchored(m) == [session EXCEPT !.first = miner[m].stamp]

Anchor(m) ==
    /\ miner[m].at = "anchor"
    /\ \/ /\ session.first = None
          /\ session' = Anchored(m) /\ work' = [work EXCEPT !.anchor = miner[m].difficulty]
          /\ RecordDone(m) /\ Quiet
       \/ /\ session.first # None
          /\ miner' = [miner EXCEPT ![m].at = "count"]
          /\ Quiet /\ UNCHANGED <<session, work>>
       \/ /\ RecordDone(m) /\ Happens /\ UNCHANGED <<session, work>>
    /\ UNCHANGED <<now, chainVars, feed, cacheVars, req>>

\* INCRBY (and EXPIRE), which may fail.
record_accepted_proof(m) ==
    /\ miner[m].at = "count"
    /\ RecordDone(m)
    /\ \/ session' = [session EXCEPT !.sum = @ + miner[m].difficulty] /\ Quiet
       \/ UNCHANGED session /\ Happens
    /\ UNCHANGED <<now, chainVars, feed, cacheVars, req, work>>

\* The time is taken, and written in a step of its own: the last activity of an
\* older submission may be written over that of a newer one.
Stamp(m) ==
    /\ miner[m].at = "stamp"
    /\ miner' = [miner EXCEPT ![m] = [at |-> "touch", stamp |-> now, difficulty |-> 0]]
    /\ UNCHANGED <<now, chainVars, feed, session, cacheVars, req, events, work>>

touch_last_activity(m) ==
    /\ miner[m].at = "touch"
    /\ miner' = [miner EXCEPT ![m] = [at |-> "sample", stamp |-> 0, difficulty |-> 0]]
    /\ \/ session' = [session EXCEPT !.last = miner[m].stamp] /\ Quiet
       \/ UNCHANGED session /\ Happens
    /\ UNCHANGED <<now, chainVars, feed, cacheVars, req, work>>

\* The calculator takes a sample unless it is gone, no price could be read or
\* the proof could not be stored before.
sample_into_twap(m) ==
    /\ miner[m].at = "sample"
    /\ miner' = [miner EXCEPT ![m] = NoProof]
    /\ \/ /\ LET price == read_price(session.commodity, feed)
             IN  session' = IF session.live /\ price # NoPrice
                            THEN [session EXCEPT !.samples = Append(@, price)] ELSE session
          /\ Quiet
       \/ UNCHANGED session /\ Happens
    /\ UNCHANGED <<now, chainVars, feed, cacheVars, req, work>>

Submission(m) ==
    \/ \E d \in Difficulties : submit_proof(m, d)
    \/ Anchor(m) \/ record_accepted_proof(m)
    \/ Stamp(m) \/ touch_last_activity(m) \/ sample_into_twap(m)
-----------------------------------------------------------------------------
(* end_session: the TWAP is taken and submitted on every chain.             *)

finalize(r) ==
    /\ At(r, "twap", "start")
    /\ session' = [session EXCEPT !.live = FALSE]
    /\ req' = [req EXCEPT ![r] =
                 IF session.live /\ session.samples # <<>>
                 THEN Loop([Proceed(@) EXCEPT !.twap = calculate(session.samples),
                                                       !.duration = now, !.todo = Submitters])
                 ELSE Answer(@)]
    /\ UNCHANGED <<now, chainVars, feed, miner, cacheVars, events, work>>

\* The outcome for one submitter, and on to the next.
Submitted(k, status) ==
    LET c == Head(k.todo)
    IN  Loop([k EXCEPT !.sent[c] = [@ EXCEPT !.status = status], !.todo = Tail(@),
                                !.tries = 0, !.step = "start"])

\* One attempt begins with the signer's pending nonce.
FetchNonce(r) ==
    /\ At(r, "submit", "start")
    /\ LET c == Head(req[r].todo)
           begun == IF req[r].sent[c] = None
                    THEN [status |-> "open", own |-> 0, known |-> 0, stored |-> FALSE,
                          begun |-> aggregator[c].txs, rivals |-> 0]
                    ELSE req[r].sent[c]
           k == [req[r] EXCEPT !.sent[c] = begun, !.nonce = aggregator[c].txs, !.step = "send"]
       IN  \/ req' = [req EXCEPT ![r] = k] /\ Quiet
           \/ req' = [req EXCEPT ![r] = Submitted(k, "error")] /\ Happens
    /\ UNCHANGED <<now, chainVars, feed, session, miner, cacheVars, work>>

\* The contract's guard.
submitPrice(stored, price) ==
    LET diff == IF price > stored THEN price - stored ELSE stored - price
    IN  /\ price > 0
        /\ stored > 0 => (diff * BPS_DENOMINATOR) \div stored <= DIVERGENCE_THRESHOLD_BPS

\* A conflict is answered with a fresh nonce, so many times.
\* A mutated form: no end to the retries.
Conflict_Endless(k, rivals) == [k EXCEPT !.tries = @ + 1, !.step = "start"]

Conflict(k, rivals) ==
    IF k.tries < MAX_NONCE_RETRIES THEN [k EXCEPT !.tries = @ + 1, !.step = "start"]
    ELSE Submitted([k EXCEPT !.sent[Head(k.todo)].rivals = rivals], "nonce")

\* What a receipt says.
\* A mutated form: the receipt's status is not looked at.
Receipt_Unread(stores) == "ok"

Receipt(stores) == IF stores THEN "ok" ELSE "error"

\* The transaction is refused for its nonce; or fails before it is sent (its
\* estimate reverts, the call fails); or is mined, storing the price or
\* reverting, and is answered by its receipt, by nothing, or by "already
\* known", which counts as a conflict.
submit_price(r) ==
    /\ At(r, "submit", "send")
    /\ LET k == req[r]
           c == Head(k.todo)
           txs == aggregator[c].txs
           begun == k.sent[c].begun
           stores == submitPrice(aggregator[c].price, k.twap)
           Landed(known) == [k EXCEPT !.sent[c] = [status |-> "open", own |-> k.sent[c].own + 1,
                                                   known |-> k.sent[c].known + known, stored |-> stores,
                                                   begun |-> begun, rivals |-> 0]]
       IN  \/ /\ k.nonce # txs
              /\ req' = [req EXCEPT ![r] = Conflict(k, txs - begun)]
              /\ Quiet /\ UNCHANGED aggregator
           \/ /\ k.nonce = txs
              /\ req' = [req EXCEPT ![r] = Submitted(k, "error")]
              /\ IF stores THEN Happens ELSE Quiet
              /\ UNCHANGED aggregator
           \/ /\ k.nonce = txs
              /\ aggregator' = [aggregator EXCEPT ![c] = [price |-> IF stores THEN k.twap ELSE @.price,
                                                          txs |-> txs + 1]]
              /\ \/ req' = [req EXCEPT ![r] = Submitted(Landed(0), Receipt(stores))] /\ Quiet
                 \/ req' = [req EXCEPT ![r] = Submitted(Landed(0), "error")] /\ Happens
                 \/ req' = [req EXCEPT ![r] = Conflict(Landed(1), txs + 1 - begun)] /\ Happens
    /\ UNCHANGED <<now, houseEdge, stakes, treasury, feed, session, miner, cacheVars, work>>
-----------------------------------------------------------------------------
(* The house edge: payout_config_with_live_edge.                            *)

\* A mutated form: a cached value never grows old.
Current_Forever(cached) == cached # None

Current(cached) == cached # None /\ now - cached.fetched_at < CACHE_TTL

CachedEdge(r) ==
    /\ At(r, "edge", "start")
    /\ req' = [req EXCEPT ![r] =
                 IF Current(edgeCache)
                 THEN [Proceed(@) EXCEPT !.edge = edgeCache.value, !.edgeAge = now - edgeCache.read_at]
                 ELSE [@ EXCEPT !.step = "rpc", !.since = now]]
    /\ UNCHANGED <<now, chainVars, feed, session, miner, cacheVars, events, work>>

\* The node evaluates currentEdgeBps, or the call fails and the default is used.
read_edge(r) ==
    /\ At(r, "edge", "rpc")
    /\ \/ req' = [req EXCEPT ![r] = [@ EXCEPT !.step = "store", !.got = <<houseEdge.current, now>>]]
          /\ Quiet
       \/ req' = [req EXCEPT ![r] = Proceed(@)] /\ Happens
    /\ UNCHANGED <<now, chainVars, feed, session, miner, cacheVars, work>>

\* The answer is back: it is cached as of this moment, whoever else cached.
current_edge_bps(r) ==
    /\ At(r, "edge", "store")
    /\ LET value == req[r].got[1]
           read_at == req[r].got[2]
       IN  /\ edgeCache' = [value |-> value, fetched_at |-> now, read_at |-> read_at]
           /\ req' = [req EXCEPT ![r] = [Proceed(@) EXCEPT !.edge = value, !.edgeAge = now - read_at, !.got = <<>>]]
    /\ UNCHANGED <<now, chainVars, feed, session, miner, reserveCache, events, work>>
-----------------------------------------------------------------------------
(* The session's rate: get_session_hashrate, three reads of Redis.          *)

ReadFirst(r) ==
    /\ At(r, "rate", "start")
    /\ req' = [req EXCEPT ![r] = [@ EXCEPT !.first = session.first, !.step = "last"]]
    /\ UNCHANGED <<now, chainVars, feed, session, miner, cacheVars, events, work>>

ReadLast(r) ==
    /\ At(r, "rate", "last")
    /\ req' = [req EXCEPT ![r] = [@ EXCEPT !.last = session.last, !.step = "sum"]]
    /\ UNCHANGED <<now, chainVars, feed, session, miner, cacheVars, events, work>>

\* 0 until two proofs at different times; never above the client's maximum.
get_session_hashrate(k) ==
    IF None \in {k.first, k.last} \/ session.sum = 0 THEN 0
    ELSE IF k.last <= k.first THEN 0
    ELSE Min({session.sum \div (k.last - k.first), MAX_HASHRATE})

\* What a handler makes of the rate: an estimate without one takes a reference.
estimate_hashrate(k, rate) == IF k.kind = "estimate" /\ rate = 0 THEN REF_HASHRATE ELSE rate

\* Redis may fail: end_session goes on with 0, the list is an error.
ReadSum(r) ==
    /\ At(r, "rate", "sum")
    /\ \/ /\ req' = [req EXCEPT ![r] =
                       [Proceed(@) EXCEPT !.rate = estimate_hashrate(req[r], get_session_hashrate(req[r]))]]
          /\ Quiet
       \/ /\ req' = [req EXCEPT ![r] = IF @.kind = "sessions" THEN Answer(@)
                       ELSE [Proceed(@) EXCEPT !.rate = estimate_hashrate(req[r], 0)]]
          /\ Happens
    /\ UNCHANGED <<now, chainVars, feed, session, miner, cacheVars, work>>
-----------------------------------------------------------------------------
(* The stakes: staking_summary reads both chains at once.                   *)

resolve_chain_stake(info) == [amount |-> info.amount, lockPeriod |-> info.lockPeriod, active |-> info.active]

build_summary(read) == combined_boost_bps(read["Ethereum"], read["Polygon"])

staking_summary(r, c) ==
    /\ Stage(r) = "stake" /\ c \notin DOMAIN req[r].read
    /\ \E failed \in BOOLEAN :
          LET got == IF failed THEN NoStake ELSE resolve_chain_stake(stakes[c])
              read == [x \in DOMAIN req[r].read \cup {c} |-> IF x = c THEN got ELSE req[r].read[x]]
          IN  /\ req' = [req EXCEPT ![r] =
                           IF DOMAIN read = Chain
                           THEN [Proceed(@) EXCEPT !.read = read, !.boost = build_summary(read)]
                           ELSE [@ EXCEPT !.read = read]]
              /\ IF failed THEN Happens ELSE Quiet
    /\ UNCHANGED <<now, chainVars, feed, session, miner, cacheVars, work>>
-----------------------------------------------------------------------------
(* The three computations.                                                  *)

\* end_session; the amount minted is the gross.
settled(k) ==
    LET base == calculate_gross_prm(k.rate, k.duration, session.commodity)
        boosted == apply_staking_boost(base, k.boost)
    IN  calculate_payout_from_gross(boosted, k.twap, session.commodity, k.edge)

settle(r) ==
    /\ At(r, "pay", "start")
    /\ req' = [req EXCEPT ![r] = [Proceed(@) EXCEPT !.result = settled(req[r])]]
    /\ UNCHANGED <<now, chainVars, feed, session, miner, cacheVars, events, work>>

\* GET /estimate, on the spot price; without a price it has no net.
\* A mutated form: the boost is left out of the money.
estimated_Unboosted(k, price) ==
    LET base == calculate_gross_prm(k.rate, k.duration, session.commodity)
    IN  IF price = NoPrice THEN NoResult
        ELSE calculate_payout_from_gross(base, price, session.commodity, k.edge)

estimated(k, price) ==
    LET base == calculate_gross_prm(k.rate, k.duration, session.commodity)
        boosted == apply_staking_boost(base, k.boost)
    IN  IF price = NoPrice THEN [NoResult EXCEPT !.gross = boosted]
        ELSE calculate_payout_from_gross(boosted, price, session.commodity, k.edge)

estimate(r) ==
    /\ At(r, "spot", "start")
    /\ \E failed \in BOOLEAN :
          LET price == IF failed THEN NoPrice ELSE read_price(session.commodity, feed)
              k == [req[r] EXCEPT !.duration = ESTIMATE_DURATION,
                                  !.rate = IF req[r].kind = "quote" THEN REF_HASHRATE ELSE @,
                                  !.twap = IF price = NoPrice THEN 0 ELSE price]
          IN  /\ req' = [req EXCEPT ![r] = [Proceed(k) EXCEPT !.result = estimated(k, price)]]
              /\ IF failed THEN Happens ELSE Quiet
    /\ UNCHANGED <<now, chainVars, feed, session, miner, cacheVars, work>>

\* GET /wallet/sessions: what the running session would pay by now.
listed(k) ==
    LET base == calculate_gross_prm(k.rate, k.duration, session.commodity)
    IN  calculate_payout_from_gross(apply_staking_boost(base, k.boost), k.twap, session.commodity, k.edge)

wallet_sessions(r) ==
    /\ At(r, "list", "start")
    /\ LET twap == IF session.samples = <<>> THEN 0 ELSE calculate(session.samples)
           k == [req[r] EXCEPT !.duration = now, !.twap = twap]
           priced == session.live /\ session.samples # <<>> /\ now > 0 /\ k.rate > 0
       IN  req' = [req EXCEPT ![r] = IF ~priced THEN Proceed(@) ELSE [Proceed(k) EXCEPT !.result = listed(k)]]
    /\ UNCHANGED <<now, chainVars, feed, session, miner, cacheVars, events, work>>
-----------------------------------------------------------------------------
(* GET /reserve: the chains one after the other.                            *)

\* A chain is reported: its balances, or None when they could not be read.
Reported(k, balances) ==
    LET c == Head(k.todo)
    IN  Loop([k EXCEPT !.report = [x \in DOMAIN @ \cup {c} |-> IF x = c THEN balances ELSE @[x]],
                       !.todo = Tail(@), !.step = "start", !.got = <<>>, !.since = 0])

CachedReserve(r) ==
    /\ At(r, "reserve", "start")
    /\ LET cached == reserveCache[Head(req[r].todo)]
       IN  req' = [req EXCEPT ![r] =
                     IF Current(cached)
                     THEN Reported(@, [cached.balances EXCEPT !.age = now - cached.read_at])
                     ELSE [@ EXCEPT !.step = "rpc", !.since = now]]
    /\ UNCHANGED <<now, chainVars, feed, session, miner, cacheVars, events, work>>

\* The reads of read_balances, one call each: USDC, USDT, the Treasury's own
\* total and what it has redeemed.  got collects them, the time first.
read_balances(r) ==
    /\ At(r, "reserve", "rpc")
    /\ LET t == treasury[Head(req[r].todo)]
           values == <<t.usdc, t.usdt, t.usdc + t.usdt, t.redeemed>>
           got == IF req[r].got = <<>> THEN <<now, values[1]>>
                  ELSE Append(req[r].got, values[Len(req[r].got)])
       IN  \/ req' = [req EXCEPT ![r] = [@ EXCEPT !.got = got, !.step = IF Len(got) = 5 THEN "store" ELSE "rpc"]]
              /\ Quiet
           \/ req' = [req EXCEPT ![r] = Reported(@, None)] /\ Happens
    /\ UNCHANGED <<now, chainVars, feed, session, miner, cacheVars, work>>

reserve_balances(r) ==
    /\ At(r, "reserve", "store")
    /\ LET got == req[r].got
           balances == [usdc |-> got[2], usdt |-> got[3], total |-> got[4], redeemed |-> got[5], age |-> 0]
       IN  /\ reserveCache' = [reserveCache EXCEPT ![Head(req[r].todo)] =
                                 [balances |-> balances, fetched_at |-> now, read_at |-> got[1]]]
           /\ req' = [req EXCEPT ![r] = Reported(@, [balances EXCEPT !.age = now - got[1]])]
    /\ UNCHANGED <<now, chainVars, feed, session, miner, edgeCache, events, work>>
-----------------------------------------------------------------------------
(* The chain and the feeds.                                                 *)

proposeEdgeChange(new) ==
    /\ Happens /\ new \in 1000 .. 2500
    /\ houseEdge' = [houseEdge EXCEPT !.proposal = [new |-> new, at |-> now]]
    /\ UNCHANGED <<now, stakes, treasury, aggregator, feed, session, miner, cacheVars, req, work>>

\* None also stands for a proposal that was executed or cancelled.
executeEdgeChange ==
    /\ Quiet /\ houseEdge.proposal # None
    /\ now >= houseEdge.proposal.at + TIMELOCK_DELAY
    /\ LET new == houseEdge.proposal.new
       IN  houseEdge' = [current |-> new, operator |-> new, proposal |-> None]
    /\ UNCHANGED <<now, stakes, treasury, aggregator, feed, session, miner, cacheVars, req, work>>

cancelEdgeChange ==
    /\ Quiet /\ houseEdge.proposal # None
    /\ houseEdge' = [houseEdge EXCEPT !.proposal = None]
    /\ UNCHANGED <<now, stakes, treasury, aggregator, feed, session, miner, cacheVars, req, work>>

adjustForReserve(ratio) ==
    /\ Happens
    /\ houseEdge' = [houseEdge EXCEPT !.current =
                       IF ratio >= 12000 THEN houseEdge.operator
                       ELSE IF ratio < 11000 THEN 2400 ELSE 2200]
    /\ UNCHANGED <<now, stakes, treasury, aggregator, feed, session, miner, cacheVars, req, work>>

\* Polygon's contract has lockRequired false and records the shortest period.
stake(c, amount, lockPeriod) ==
    /\ Happens /\ amount >= minStake /\ ~stakes[c].active
    /\ stakes' = [stakes EXCEPT ![c] =
                    [amount |-> amount, active |-> TRUE,
                     lockPeriod |-> IF c = "Ethereum" THEN lockPeriod ELSE 0,
                     unlockAt |-> IF c = "Ethereum" THEN now + LOCK_DURATION ELSE now]]
    /\ UNCHANGED <<now, houseEdge, treasury, aggregator, feed, session, miner, cacheVars, req, work>>

unstake(c) ==
    /\ Quiet /\ stakes[c].active /\ now >= stakes[c].unlockAt
    /\ stakes' = [stakes EXCEPT ![c] = [@ EXCEPT !.active = FALSE, !.amount = 0]]
    /\ UNCHANGED <<now, houseEdge, treasury, aggregator, feed, session, miner, cacheVars, req, work>>

depositReserve(c, token, amount) ==
    /\ Happens /\ amount > 0
    /\ treasury' = [treasury EXCEPT ![c][token] = @ + amount]
    /\ UNCHANGED <<now, houseEdge, stakes, aggregator, feed, session, miner, cacheVars, req, work>>

withdrawReserve(c, token, amount) ==
    /\ Happens /\ amount > 0 /\ amount <= treasury[c][token]
    /\ treasury' = [treasury EXCEPT ![c][token] = @ - amount]
    /\ UNCHANGED <<now, houseEdge, stakes, aggregator, feed, session, miner, cacheVars, req, work>>

payRedemption(c, token, amount) ==
    /\ Happens /\ amount > 0 /\ amount <= treasury[c][token]
    /\ LET t == treasury[c]
       IN  treasury' = [treasury EXCEPT ![c] = [t EXCEPT ![token] = @ - amount, !.redeemed = @ + amount]]
    /\ UNCHANGED <<now, houseEdge, stakes, aggregator, feed, session, miner, cacheVars, req, work>>

forceSubmitPrice(c, price) ==
    /\ Happens /\ price # NoPrice /\ price > 0
    /\ aggregator' = [aggregator EXCEPT ![c].price = price]
    /\ UNCHANGED <<now, houseEdge, stakes, treasury, feed, session, miner, cacheVars, req, work>>

\* Another transaction of the submitter's key, such as a session of another
\* commodity that ends at the same time.
OtherSubmission(c) ==
    /\ Quiet /\ aggregator[c].txs < MaxTransactions
    /\ aggregator' = [aggregator EXCEPT ![c].txs = @ + 1]
    /\ UNCHANGED <<now, houseEdge, stakes, treasury, feed, session, miner, cacheVars, req, work>>

FeedMoves(raw) ==
    /\ Happens /\ raw # feed
    /\ feed' = raw
    /\ UNCHANGED <<now, chainVars, session, miner, cacheVars, req, work>>

Fetching(r) == req[r].step \in {"rpc", "store"}

Tick ==
    /\ now < MaxTime
    /\ \A r \in Requests : Fetching(r) => now < req[r].since + MaxFetch
    /\ now' = now + 1
    /\ UNCHANGED <<chainVars, feed, session, miner, cacheVars, req, events, work>>

Step(r) ==
    \/ Arrive(r) \/ finalize(r) \/ FetchNonce(r) \/ submit_price(r)
    \/ CachedEdge(r) \/ read_edge(r) \/ current_edge_bps(r)
    \/ ReadFirst(r) \/ ReadLast(r) \/ ReadSum(r)
    \/ \E c \in Chain : staking_summary(r, c)
    \/ settle(r) \/ estimate(r) \/ wallet_sessions(r)
    \/ CachedReserve(r) \/ read_balances(r) \/ reserve_balances(r)

OnChain ==
    \/ \E new \in EdgeChoices : proposeEdgeChange(new)
    \/ executeEdgeChange \/ cancelEdgeChange
    \/ \E ratio \in ReserveRatios : adjustForReserve(ratio)
    \/ \E c \in Chain, amount \in StakeAmounts, p \in 0 .. 2 : stake(c, amount, p)
    \/ \E c \in Chain : unstake(c)
    \/ \E c \in Range(Treasuries), token \in {"usdc", "usdt"}, amount \in Deposits :
          \/ depositReserve(c, token, amount)
          \/ withdrawReserve(c, token, amount) \/ payRedemption(c, token, amount)
    \/ \E c \in Range(Submitters) :
          \/ OtherSubmission(c)
          \/ \E raw \in RawPrices : forceSubmitPrice(c, read_price(session.commodity, raw))

Next ==
    \/ \E r \in Requests : Step(r)
    \/ \E m \in Miners : Submission(m)
    \/ OnChain
    \/ \E raw \in RawPrices : FeedMoves(raw)
    \/ Tick

Spec == Init /\ [][Next]_vars
-----------------------------------------------------------------------------
(* Properties.                                                              *)

Done(r) == Stage(r) = "done"

\* Every place a request may be in.
Names == {"idle", "done"} \cup UNION {Range(Route[h]) : h \in DOMAIN Route}

\* Shape of the state.
EconomyTypeOK ==
    /\ now \in 0 .. MaxTime /\ events \in 0 .. MaxEvents
    /\ houseEdge.current \in 1000 .. 2500 /\ houseEdge.operator \in 1000 .. 2500
    /\ \A c \in Chain :
          /\ stakes[c].amount \in Nat /\ stakes[c].lockPeriod \in 0 .. 2
          /\ treasury[c].usdc \in Nat /\ treasury[c].usdt \in Nat
          /\ aggregator[c].price \in Nat /\ aggregator[c].txs \in Nat
    /\ session.sum \in Nat /\ session.samples \in Seq(Nat)
    /\ miner \in [Miners -> [at : {"idle", "anchor", "count", "stamp", "touch", "sample"},
                            stamp : Nat, difficulty : Nat]]
    /\ \A r \in Requests :
          /\ Stage(r) \in Names
          /\ req[r].rate \in Nat /\ req[r].edge \in 0 .. BPS_DENOMINATOR
          /\ req[r].boost \in 0 .. MAX_BOOST_BPS /\ req[r].tries \in 0 .. MAX_NONCE_RETRIES
          /\ req[r].result.net \in Nat \cup {None}

\* The caches: an edge or a reserve that a request uses was true on chain at
\* most one TTL and one read ago, although requests refetch concurrently and
\* a slow answer may overwrite a newer one.
ReadsAreRecent ==
    \A r \in Requests :
        /\ req[r].edgeAge < CACHE_TTL + MaxFetch
        /\ \A c \in DOMAIN req[r].report :
              req[r].report[c] # None => req[r].report[c].age < CACHE_TTL + MaxFetch

\* submit_price, "correct as the sole production writer and resilient to
\* concurrent writers": a call lands one transaction, and one more for each it
\* was told "already known"; success is reported only when its last transaction
\* stored the price, so neither for one that was mined and reverted nor for
\* none; and it gives up on a nonce conflict only when more transactions of the
\* key came since it began than it has retries.
SubmissionsSettle ==
    \A r \in Requests, c \in Chain :
        LET s == req[r].sent[c]
        IN  s # None =>
              /\ s.own <= 1 + s.known
              /\ s.status = "ok" => s.own >= 1 /\ s.stored
              /\ s.status = "nonce" => s.rivals > MAX_NONCE_RETRIES

\* combined_boost_bps against the contracts: a wallet staked on one chain gets
\* what that chain's contract states, one staked on both at least as much as
\* either states, and the cap of 40% holds.
BoostMirrorsContract ==
    \A r \in Requests : DOMAIN req[r].read = Chain =>
        LET ethereum == req[r].read["Ethereum"]
            polygon == req[r].read["Polygon"]
        IN  /\ ~polygon.active => req[r].boost = effectiveBoostBps(ethereum)
            /\ ~ethereum.active => req[r].boost = effectiveBoostBps(polygon)
            /\ req[r].boost >= effectiveBoostBps(ethereum) /\ req[r].boost >= effectiveBoostBps(polygon)

\* The rate of a settlement is earned: at most the client's maximum, and positive
\* only over a time between two stamps that the difficulty of the accepted
\* proofs covers, without the proof that set the clock; although submissions
\* overlap, the keys are read one by one meanwhile, and commands fail.  What is
\* paid is this rate times the whole session, from its creation to its end: it
\* is not bounded by the work.  The price lies within the samples, and the user
\* never gets more than the redemption value.
RateIsEarned ==
    \A r \in Requests : req[r].kind = "settle" /\ Done(r) /\ req[r].result.net # None =>
        LET k == req[r]
        IN  /\ k.rate <= MAX_HASHRATE
            /\ k.rate > 0 => /\ k.first < k.last
                             /\ k.rate * (k.last - k.first) <= work.offered - work.anchor
            /\ Min(Range(session.samples)) <= k.twap /\ k.twap <= Max(Range(session.samples))
            /\ k.result.net * CENTS_SCALE <= k.result.redemption

\* estimate "tracks what a real session would pay": the estimate and the list of
\* sessions have their own code for the sum, and what they show as net is what
\* end_session would pay for the rate, duration, boost, edge and price they read.
EstimatesAgree ==
    \A r \in Requests : Done(r) /\ req[r].result.net # None => req[r].result = settled(req[r])
=============================================================================
