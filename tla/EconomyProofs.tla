--------------------------- MODULE EconomyProofs ----------------------------
(***************************************************************************)
(* What a session is worth, for any number of requests, proofs, samples,   *)
(* retries, changes on chain and failed calls, and any prices, stakes and  *)
(* scales.                                                                 *)
(***************************************************************************)
EXTENDS Economy, SumTheorems, TLAPS

Steps == {"start", "send", "rpc", "store", "last", "sum"}
Status == {"open", "ok", "error", "nonce"}
StakeRead == [amount : Nat, lockPeriod : 0 .. 2, active : BOOLEAN]
Sent == [status : Status, own : Nat, known : Nat, stored : BOOLEAN, begun : Nat, rivals : Int]
Balances == [usdc : Nat, usdt : Nat, total : Nat, redeemed : Nat, age : Nat]
Money == [gross : Nat, redemption : Nat, net : Nat \cup {None}]
Time == Nat \cup {None}

Handlers == {"settle", "estimate", "quote", "sessions", "staking", "reserve"}
Todos == Seq(Chain)
Edges == 1000 .. 2500
Reads == UNION {[D -> StakeRead] : D \in SUBSET Chain}
Sents == [Chain -> Sent \cup {None}]
Gots == Seq(Nat)
Reports == UNION {[D -> Balances \cup {None}] : D \in SUBSET Chain}

ReqType ==
    [kind : Handlers \cup {None}, at : Nat, step : Steps, todo : Todos, nonce : Nat,
     tries : 0 .. MAX_NONCE_RETRIES, since : Nat, twap : Nat, duration : Nat,
     edge : 0 .. BPS_DENOMINATOR, edgeAge : Nat, first : Time, last : Time, rate : Nat, read : Reads,
     boost : 0 .. MAX_BOOST_BPS, sent : Sents, got : Gots, report : Reports, result : Money]

SessionType == [commodity : Commodities, first : Time, last : Time, sum : Nat, samples : Seq(Nat),
                live : BOOLEAN]
WorkType == [proofs : Nat, offered : Nat, anchor : Time]
ProofType == [at : {"idle", "anchor", "count", "stamp", "touch", "sample"}, stamp : Nat, difficulty : Nat]
MinerType == [Miners -> ProofType]
AggregatorType == [Chain -> [price : Nat, txs : Nat]]
EdgeEntry == [value : Edges, fetched_at : Nat, read_at : Nat]
ReserveEntry == [balances : Balances, fetched_at : Nat, read_at : Nat]

\* The contracts and the feed.
ChainOK ==
    /\ houseEdge \in [current : Edges, operator : Edges, proposal : {None} \cup [new : Edges, at : Nat]]
    /\ stakes \in [Chain -> [amount : Nat, lockPeriod : 0 .. 2, unlockAt : Nat, active : BOOLEAN]]
    /\ stakes["Polygon"].lockPeriod = 0
    /\ treasury \in [Chain -> [usdc : Nat, usdt : Nat, redeemed : Nat]]
    /\ aggregator \in AggregatorType
    /\ feed \in RawPrices

\* A cached value was read at most MaxFetch before it was stored.
Recent(entry, t) ==
    /\ entry.read_at <= entry.fetched_at /\ entry.fetched_at <= t
    /\ entry.fetched_at <= entry.read_at + MaxFetch

CachesOK ==
    /\ edgeCache \in {None} \cup EdgeEntry
    /\ edgeCache # None => Recent(edgeCache, now)
    /\ reserveCache \in [Chain -> {None} \cup ReserveEntry]
    /\ \A c \in Chain : reserveCache[c] # None => Recent(reserveCache[c], now)

\* The clock of the session is set once; before that no work is counted.
WorkOK(s, w) ==
    /\ s \in SessionType /\ w \in WorkType
    /\ (s.first = None) <=> (w.anchor = None)
    /\ s.first = None => s.sum = 0

\* The difficulty that submissions have yet to record, and that of the proof
\* that set the clock.
Owed(mn) == SumFunctionOnSet([m \in Miners |-> mn[m].difficulty], Miners)
AnchorOf(w) == IF w.anchor = None THEN 0 ELSE w.anchor

\* The sum, the proof that set the clock and the submissions under way share
\* what the accepted proofs offered.
ProofsOK(s, w, mn) ==
    /\ mn \in MinerType
    /\ s.sum + AnchorOf(w) + Owed(mn) <= w.offered
    /\ \A m \in Miners : mn[m].at = "count" => s.first # None

\* The clock t of a read under way, and what it has got so far.
EdgeRead(k, t) ==
    Len(k.got) = 2 /\ k.got[1] \in Edges /\ k.since <= k.got[2] /\ k.got[2] <= t

ReserveRead(k, t) ==
    /\ k.todo # <<>>
    /\ k.step = "start" => k.got = <<>>
    /\ k.step = "rpc" => Len(k.got) <= 4
    /\ k.step = "store" => Len(k.got) = 5
    /\ k.got # <<>> => k.since <= k.got[1] /\ k.got[1] <= t

FetchOK(k, t) ==
    /\ k.kind # None => k.at >= 1
    /\ k.step \in {"rpc", "store"} => k.since <= t /\ t <= k.since + MaxFetch
    /\ k.kind # "reserve" /\ k.step = "store" => EdgeRead(k, t)
    /\ k.kind = "reserve" /\ k.at = 1 => ReserveRead(k, t)

Young(age) == age < CACHE_TTL + MaxFetch

AgeOK(k) ==
    /\ Young(k.edgeAge)
    /\ \A c \in DOMAIN k.report : k.report[c] # None => Young(k.report[c].age)

\* A submission that was begun: what its status says of the transactions.
Settled(s) ==
    /\ s.own <= 1 + s.known
    /\ s.status \in {"open", "nonce"} => s.own <= s.known
    /\ s.status = "ok" => s.own >= 1 /\ s.stored
    /\ s.status = "nonce" => s.rivals > MAX_NONCE_RETRIES

\* The present submission has met a transaction of the key for each retry.
Present(k, ag) ==
    LET c == Head(k.todo)
        s == k.sent[c]
    IN  /\ k.step \in {"start", "send"}
        /\ s = None => k.step = "start" /\ k.tries = 0
        /\ s # None => s.status = "open" /\ s.begun + k.tries <= ag[c].txs
        /\ k.step = "send" => s.begun + k.tries <= k.nonce /\ k.nonce <= ag[c].txs

\* Each chain is there once, and the ones after the present are untouched.
ToCome(k) ==
    /\ \A i, j \in 1 .. Len(k.todo) : k.todo[i] = k.todo[j] => i = j
    /\ \A i \in 2 .. Len(k.todo) : k.sent[k.todo[i]] = None

Submitting(k) == k.kind = "settle" /\ k.at = 2

SubmitOK(k, ag) ==
    /\ \A c \in Chain : k.sent[c] # None => Settled(k.sent[c])
    /\ ~Submitting(k) => k.tries = 0
    /\ k.kind = "settle" /\ k.at = 1 => \A c \in Chain : k.sent[c] = None
    /\ Submitting(k) => k.todo # <<>> /\ Present(k, ag) /\ ToCome(k)

\* The price of a settlement is the average of samples that are complete.
PriceOK(k, s) ==
    k.kind = "settle" /\ (k.at \in 2 .. 6 \/ k.result.net # None) =>
        ~s.live /\ s.samples # <<>> /\ k.twap = calculate(s.samples)

\* Its rate is covered by work that was accepted before the sum was read.
Covered(k, w) ==
    /\ k.first \in Nat /\ k.last \in Nat /\ k.first < k.last /\ w.anchor \in Nat
    /\ k.rate * (k.last - k.first) <= w.offered - w.anchor

RateOK(k, w) ==
    k.kind = "settle" =>
        /\ k.rate <= MAX_HASHRATE
        /\ k.at <= 4 => k.rate = 0
        /\ k.rate > 0 => Covered(k, w)

BoostOK(k) ==
    /\ DOMAIN k.read = Chain => k.boost = build_summary(k.read)
    /\ "Polygon" \in DOMAIN k.read => k.read["Polygon"].lockPeriod = 0

\* What a session of the commodity pays for the rate, duration, boost, edge and price of k.
Pay(k, commodity) ==
    calculate_payout_from_gross(
        apply_staking_boost(calculate_gross_prm(k.rate, k.duration, commodity), k.boost),
        k.twap, commodity, k.edge)

Finished(k) == k.kind # None /\ k.at > Len(Route[k.kind])

ResultOK(k, commodity) == k.result.net # None => Finished(k) /\ k.result = Pay(k, commodity)

ReqInv(k, t, ag, s, w) ==
    /\ FetchOK(k, t) /\ AgeOK(k) /\ SubmitOK(k, ag) /\ PriceOK(k, s) /\ RateOK(k, w)
    /\ BoostOK(k) /\ ResultOK(k, s.commodity)

RequestsOK ==
    /\ req \in [Requests -> ReqType]
    /\ \A r \in Requests : ReqInv(req[r], now, aggregator, session, work)

EconomyInv ==
    /\ now \in 0 .. MaxTime /\ events \in 0 .. MaxEvents
    /\ ChainOK
    /\ CachesOK
    /\ WorkOK(session, work)
    /\ ProofsOK(session, work, miner)
    /\ RequestsOK
-----------------------------------------------------------------------------
(* Constants and arithmetic.                                                *)

LEMMA ChainIs == Chain = {"Ethereum", "Polygon"}
BY EconomyAssumption DEF Chain, Range

LEMMA Numbers ==
    /\ {MAX_NONCE_RETRIES, CACHE_TTL, MAX_HASHRATE, REF_HASHRATE, ESTIMATE_DURATION,
        TIMELOCK_DELAY, LOCK_DURATION, MaxTime, MaxFetch, MaxEvents} \subseteq Nat
    /\ CACHE_TTL > 0 /\ None \notin Nat /\ NoPrice \notin Nat
BY EconomyAssumption, PayoutAssumption

LEMMA MulType == ASSUME NEW a \in Nat, NEW b \in Nat PROVE a * b \in Nat
OBVIOUS

LEMMA DivType == ASSUME NEW a \in Nat, NEW d \in Nat, d # 0 PROVE a \div d \in Nat
OBVIOUS

LEMMA MulMono == ASSUME NEW a \in Nat, NEW b \in Nat, NEW c \in Nat, a <= b PROVE a * c <= b * c
<1>1. PICK d \in Nat : b = a + d
  <2>1. b - a \in Nat /\ b = a + (b - a)
    OBVIOUS
  <2> QED
    BY <2>1
<1>2. b * c = a * c + d * c
  BY <1>1
<1>3. a * c \in Nat /\ d * c \in Nat
  BY MulType
<1> QED
  BY <1>2, <1>3

LEMMA DivMul == ASSUME NEW a \in Nat, NEW d \in Nat, d # 0 PROVE (a \div d) * d <= a
<1> DEFINE q == a \div d
           m == a % d
<1>1. q \in Nat /\ m \in Nat /\ m < d /\ a = d * q + m
  OBVIOUS
<1> HIDE DEF q, m
<1>2. d * q = q * d /\ q * d \in Nat
  BY <1>1
<1>3. q * d <= a
  BY <1>1, <1>2
<1> QED
  BY <1>3 DEF q

\* A quotient lies between the factors a product of which bounds the dividend.
LEMMA DivBounds ==
    ASSUME NEW a \in Nat, NEW b \in Nat, NEW s \in Nat, NEW n \in Nat, n # 0,
           a * n <= s, s <= b * n
    PROVE  a <= s \div n /\ s \div n <= b
<1> DEFINE q == s \div n
           m == s % n
<1>1. q \in Nat /\ m \in Nat /\ m < n /\ s = n * q + m
  OBVIOUS
<1> HIDE DEF q, m
<1>2. n * q = q * n /\ q * n \in Nat /\ a * n \in Nat /\ b * n \in Nat
  BY <1>1
<1>3. (q + 1) * n = q * n + n /\ (b + 1) * n = b * n + n
  BY <1>1
<1>4. ASSUME a > q PROVE FALSE
  <2>1. (q + 1) * n <= a * n
    BY <1>1, <1>4, MulMono
  <2> QED
    BY <1>1, <1>2, <1>3, <2>1
<1>5. ASSUME q > b PROVE FALSE
  <2>1. (b + 1) * n <= q * n
    BY <1>1, <1>5, MulMono
  <2> QED
    BY <1>1, <1>2, <1>3, <2>1
<1>6. a <= q /\ q <= b
  BY <1>1, <1>4, <1>5
<1> QED
  BY <1>6 DEF q

LEMMA MinOfTwo ==
    ASSUME NEW a \in Nat, NEW b \in Nat
    PROVE  Min({a, b}) \in Nat /\ Min({a, b}) <= a /\ Min({a, b}) <= b
<1>1. \E x \in {a, b} : \A y \in {a, b} : x <= y
  OBVIOUS
<1> QED
  BY <1>1 DEF Min
-----------------------------------------------------------------------------
(* Prices.                                                                  *)

\* A power of ten is positive.
LEMMA Pow10Type == ASSUME NEW n \in Nat PROVE pow10(n) \in Nat /\ pow10(n) # 0
<1> DEFINE V == Nat \ {0}
           F == [p \in (1 .. n) \X V |-> 10 * p[2]]
           Solves(h) == h = [i \in 0 .. n |-> IF i = 0 THEN 1 ELSE 10 * h[i - 1]]
<1>1. StepWithin(F, n, V)
  BY DEF StepWithin
<1>2. PICK h : LeadsTo(F, n, V, 1, h)
  <2>1. 1 \in V
    OBVIOUS
  <2> HIDE DEF F, V
  <2> QED
    BY <1>1, <2>1, StepsExist
<1>3. Solves(h)
  <2>1. h \in [0 .. n -> V] /\ h[0] = 1 /\ \A i \in 1 .. n : h[i] = F[<<i, h[i - 1]>>]
    BY <1>2 DEF LeadsTo
  <2>2. ASSUME NEW i \in 1 .. n PROVE h[i] = 10 * h[i - 1]
    <3>1. i - 1 \in 0 .. n /\ h[i - 1] \in V
      BY <2>1
    <3>2. F[<<i, h[i - 1]>>] = 10 * h[i - 1]
      BY <3>1
    <3> QED
      BY <2>1, <3>2
  <2>3. \A i \in 0 .. n : h[i] = IF i = 0 THEN 1 ELSE 10 * h[i - 1]
    BY <2>1, <2>2
  <2> QED
    BY <2>1, <2>3
<1>4. PICK g : g = CHOOSE x : Solves(x)
  OBVIOUS
<1>5. Solves(g)
  BY <1>3, <1>4
<1>6. pow10(n) = g[n]
  BY <1>4 DEF pow10
<1>7. g[0] \in V
  BY <1>5
<1>8. \A i \in 1 .. n : g[i - 1] \in V => g[i] \in V
  BY <1>5
<1>9. g[n] \in V
  <2> HIDE DEF V, Solves
  <2> QED
    BY <1>7, <1>8, StepsStay
<1> QED
  BY <1>6, <1>9

LEMMA ReadPriceType ==
    ASSUME NEW commodity, NEW raw \in RawPrices
    PROVE  read_price(commodity, raw) \in Nat \cup {NoPrice}
<1>1. raw.price \in Int /\ raw.expo \in Int
  BY EconomyAssumption
<1>2. fetch_chainlink(raw.price) \in Nat \cup {NoPrice}
  BY <1>1 DEF fetch_chainlink
<1>3. convert_pyth_price(raw.price, raw.expo) \in Nat \cup {NoPrice}
  <2> DEFINE shift == TARGET_DECIMALS + raw.expo
             factor == pow10(IF shift < 0 THEN -shift ELSE shift)
  <2>1. shift \in Int
    BY <1>1, PayoutAssumption
  <2>2. factor \in Nat /\ factor # 0
    <3>1. (IF shift < 0 THEN -shift ELSE shift) \in Nat
      BY <2>1
    <3> QED
      BY <3>1, Pow10Type
  <2>3. raw.price > 0 => raw.price \in Nat /\ raw.price \div factor \in Nat /\ raw.price * factor \in Nat
    <3> HIDE DEF factor
    <3> QED
      BY <1>1, <2>2, DivType, MulType
  <2>4. convert_pyth_price(raw.price, raw.expo) =
          IF raw.price <= 0 \/ factor > MAX_AMOUNT THEN NoPrice
          ELSE IF shift < 0 THEN raw.price \div factor
          ELSE IF raw.price * factor > MAX_AMOUNT THEN NoPrice
          ELSE raw.price * factor
    BY DEF convert_pyth_price
  <2> HIDE DEF factor, shift
  <2> QED
    BY <1>1, <2>3, <2>4
<1> QED
  BY <1>2, <1>3 DEF read_price

\* Some element of a sequence of numbers is greatest.
LEMMA Greatest ==
    ASSUME NEW n \in Nat, n # 0, NEW f \in [1 .. n -> Nat]
    PROVE  \E i \in 1 .. n : \A j \in 1 .. n : f[j] <= f[i]
<1> DEFINE N == {m \in Nat : m + 1 <= n => \E i \in 1 .. m + 1 : \A j \in 1 .. m + 1 : f[j] <= f[i]}
<1>1. 0 \in N
  <2>1. 1 \in 1 .. 0 + 1 /\ \A j \in 1 .. 0 + 1 : f[j] <= f[1]
    OBVIOUS
  <2> QED
    BY <2>1
<1>2. ASSUME NEW m \in Nat, m \in N PROVE m + 1 \in N
  <2> SUFFICES ASSUME (m + 1) + 1 <= n
               PROVE  \E i \in 1 .. (m + 1) + 1 : \A j \in 1 .. (m + 1) + 1 : f[j] <= f[i]
    OBVIOUS
  <2>1. PICK i \in 1 .. m + 1 : \A j \in 1 .. m + 1 : f[j] <= f[i]
    BY <1>2
  <2>2. i \in 1 .. n /\ m + 2 \in 1 .. n /\ f[i] \in Nat /\ f[m + 2] \in Nat
    BY <2>1
  <2>3. \A j \in 1 .. (m + 1) + 1 : j \in 1 .. m + 1 \/ j = m + 2
    OBVIOUS
  <2>4. CASE f[m + 2] <= f[i]
    BY <2>1, <2>2, <2>3, <2>4
  <2>5. CASE f[i] <= f[m + 2]
    <3>1. \A j \in 1 .. m + 1 : f[j] \in Nat
      BY <2>2
    <3>2. \A j \in 1 .. (m + 1) + 1 : f[j] <= f[m + 2]
      BY <2>1, <2>2, <2>3, <2>5, <3>1
    <3> QED
      BY <3>2
  <2> QED
    BY <2>2, <2>4, <2>5
<1> HIDE DEF N
<1>3. n - 1 \in N
  <2>1. Nat \subseteq N
    BY <1>1, <1>2, CountUp
  <2> QED
    BY <2>1
<1> QED
  BY <1>3 DEF N

\* The average of some samples, rounded down, lies between the least and the greatest.
LEMMA AverageWithin ==
    ASSUME NEW samples \in Seq(Nat), samples # <<>>
    PROVE  /\ calculate(samples) \in Nat
           /\ Min(Range(samples)) <= calculate(samples)
           /\ calculate(samples) <= Max(Range(samples))
<1> DEFINE n == Len(samples)
           low == Min(Range(samples))
           high == Max(Range(samples))
           total == SumFunctionOnSet(samples, 1 .. n)
<1>1. n \in Nat /\ n # 0 /\ DOMAIN samples = 1 .. n /\ samples \in [1 .. n -> Nat]
  OBVIOUS
<1>2. Range(samples) \subseteq Nat /\ Range(samples) # {} /\ \A i \in 1 .. n : samples[i] \in Range(samples)
  BY <1>1 DEF Range
<1>3. low \in Nat /\ \A i \in 1 .. n : low <= samples[i]
  <2>1. \E x \in Range(samples) : \A y \in Range(samples) : x <= y
    BY <1>2, Least
  <2>2. low \in Range(samples) /\ \A y \in Range(samples) : low <= y
    BY <2>1 DEF Min
  <2> QED
    BY <1>2, <2>2
<1>4. high \in Nat /\ \A i \in 1 .. n : samples[i] <= high
  <2>1. PICK i \in 1 .. n : \A j \in 1 .. n : samples[j] <= samples[i]
    BY <1>1, Greatest
  <2>2. \A y \in Range(samples) : \E j \in 1 .. n : y = samples[j]
    BY <1>1 DEF Range
  <2>3. \A y \in Range(samples) : samples[i] >= y
    BY <1>1, <2>1, <2>2
  <2>4. high \in Range(samples) /\ \A y \in Range(samples) : high >= y
    BY <1>2, <2>3 DEF Max
  <2> QED
    BY <1>2, <2>4
<1>5. IsFiniteSet(1 .. n) /\ Cardinality(1 .. n) = n
  BY <1>1, UpTo
<1> HIDE DEF n, low, high
<1> DEFINE lows == [i \in 1 .. n |-> low]
           highs == [i \in 1 .. n |-> high]
<1>6. /\ \A i \in 1 .. n : lows[i] = IF i \in 1 .. n THEN low ELSE 0
      /\ \A i \in 1 .. n : highs[i] = IF i \in 1 .. n THEN high ELSE 0
      /\ \A i \in 1 .. n : samples[i] \in Nat /\ lows[i] \in Nat /\ highs[i] \in Nat
      /\ \A i \in 1 .. n : lows[i] <= samples[i] /\ samples[i] <= highs[i]
  BY <1>1, <1>3, <1>4
<1> HIDE DEF lows, highs
<1>7. SumFunctionOnSet(lows, 1 .. n) = low * n
  BY <1>3, <1>5, <1>6, SumUniform
<1>8. SumFunctionOnSet(highs, 1 .. n) = high * n
  BY <1>4, <1>5, <1>6, SumUniform
<1>9. SumFunctionOnSet(lows, 1 .. n) <= total
  BY <1>5, <1>6, SumLess
<1>10. total <= SumFunctionOnSet(highs, 1 .. n)
  BY <1>5, <1>6, SumLess
<1>11. total \in Nat
  <2>1. \A i \in 1 .. n : samples[i] \in Int
    BY <1>6
  <2>2. total \in Int
    BY <1>5, <2>1, SumType
  <2>3. low * n \in Nat
    BY <1>1, <1>3, MulType
  <2> QED
    BY <1>7, <1>9, <2>2, <2>3
<1>12. calculate(samples) = total \div n
  BY <1>1 DEF calculate, n
<1> HIDE DEF total
<1>13. low <= total \div n /\ total \div n <= high
  BY <1>1, <1>3, <1>4, <1>7, <1>8, <1>9, <1>10, <1>11, DivBounds
<1>14. total \div n \in Nat
  BY <1>1, <1>11, DivType
<1> QED
  BY <1>12, <1>13, <1>14 DEF low, high
-----------------------------------------------------------------------------
(* Money.                                                                   *)

LEMMA CommodityScales ==
    ASSUME NEW commodity \in Commodities
    PROVE  /\ commodity_difficulty[commodity] \in Nat /\ commodity_difficulty[commodity] # 0
           /\ commodity_multiplier[commodity] \in Nat
<1>1. commodity \in {"Gold", "Platinum", "Silver", "CrudeOil"}
  BY EconomyAssumption DEF Commodity
<1> QED
  BY <1>1 DEF commodity_difficulty, commodity_multiplier

LEMMA GrossType ==
    ASSUME NEW rate \in Nat, NEW duration \in Nat, NEW commodity \in Commodities
    PROVE  calculate_gross_prm(rate, duration, commodity) \in Nat
<1>1. rate * duration \in Nat
  BY MulType
<1>2. (rate * duration) * BASE_COEFFICIENT \in Nat
  BY <1>1, MulType, PayoutAssumption
<1> QED
  BY <1>2, CommodityScales, DivType DEF calculate_gross_prm

LEMMA BoostedType ==
    ASSUME NEW gross \in Nat, NEW boost \in 0 .. MAX_BOOST_BPS
    PROVE  apply_staking_boost(gross, boost) \in Nat
<1>1. 10000 + boost \in Nat
  BY DEF MAX_BOOST_BPS
<1>2. gross * (10000 + boost) \in Nat
  BY <1>1, MulType
<1> QED
  BY <1>2, DivType DEF apply_staking_boost, BPS_DENOMINATOR

LEMMA RedemptionType ==
    ASSUME NEW gross \in Nat, NEW twap \in Nat, NEW commodity \in Commodities
    PROVE  calculate_redemption_usd(gross, twap, commodity) \in Nat
<1> DEFINE m == commodity_multiplier[commodity]
<1>1. m \in Nat
  BY CommodityScales
<1> HIDE DEF m
<1>2. gross * twap \in Nat
  BY MulType
<1>3. (gross * twap) * m \in Nat
  BY <1>1, <1>2, MulType
<1>4. ((gross * twap) * m) * PRICE_COEFFICIENT \in Nat
  BY <1>3, MulType, PayoutAssumption
<1>5. (((gross * twap) * m) * PRICE_COEFFICIENT) * USDC_SCALE \in Nat
  BY <1>4, MulType, PayoutAssumption
<1> DEFINE p == gross * twap * m * PRICE_COEFFICIENT * USDC_SCALE
<1>6. p \in Nat
  BY <1>5
<1>7. calculate_redemption_usd(gross, twap, commodity) = (p \div 10) \div PRICE_SCALE
  BY DEF calculate_redemption_usd, m
<1> HIDE DEF p
<1>8. p \div 10 \in Nat
  BY <1>6, DivType
<1> QED
  BY <1>7, <1>8, DivType, PayoutAssumption

\* The house takes its edge, and cents are rounded down.
LEMMA NetWithin ==
    ASSUME NEW redemption \in Nat, NEW edge \in 0 .. BPS_DENOMINATOR
    PROVE  /\ apply_house_edge(redemption, edge) \div CENTS_SCALE \in Nat
           /\ (apply_house_edge(redemption, edge) \div CENTS_SCALE) * CENTS_SCALE <= redemption
<1> DEFINE share == IF edge < BPS_DENOMINATOR THEN BPS_DENOMINATOR - edge ELSE 0
           net == apply_house_edge(redemption, edge)
<1>1. share \in Nat /\ share <= 10000
  BY DEF BPS_DENOMINATOR
<1>2. net = (redemption * share) \div 10000
  BY DEF apply_house_edge, BPS_DENOMINATOR
<1> HIDE DEF share, net
<1>3. redemption * share \in Nat
  BY <1>1, MulType
<1>4. net \in Nat
  BY <1>2, <1>3, DivType
<1>5. net <= redemption
  <2>1. share * redemption <= 10000 * redemption
    BY <1>1, MulMono
  <2>2. redemption * share <= redemption * 10000 /\ 0 * 10000 <= redemption * share
    BY <1>1, <1>3, <2>1
  <2> QED
    BY <1>2, <1>3, <2>2, DivBounds
<1>6. CENTS_SCALE \in Nat /\ CENTS_SCALE # 0
  BY PayoutAssumption
<1>7. net \div CENTS_SCALE \in Nat /\ (net \div CENTS_SCALE) * CENTS_SCALE <= net
  BY <1>4, <1>6, DivType, DivMul
<1>8. (net \div CENTS_SCALE) * CENTS_SCALE \in Nat
  BY <1>6, <1>7, MulType
<1>9. (net \div CENTS_SCALE) * CENTS_SCALE <= redemption
  BY <1>4, <1>5, <1>7, <1>8
<1> QED
  BY <1>7, <1>9 DEF net

LEMMA PayType ==
    ASSUME NEW k \in ReqType, NEW commodity \in Commodities
    PROVE  /\ Pay(k, commodity) \in Money
           /\ Pay(k, commodity).net \in Nat
           /\ Pay(k, commodity).net * CENTS_SCALE <= Pay(k, commodity).redemption
<1> DEFINE base == calculate_gross_prm(k.rate, k.duration, commodity)
           boosted == apply_staking_boost(base, k.boost)
           redemption == calculate_redemption_usd(boosted, k.twap, commodity)
           net == apply_house_edge(redemption, k.edge) \div CENTS_SCALE
<1>1. /\ k.rate \in Nat /\ k.duration \in Nat /\ k.twap \in Nat
      /\ k.boost \in 0 .. MAX_BOOST_BPS /\ k.edge \in 0 .. BPS_DENOMINATOR
  BY DEF ReqType
<1>2. boosted \in Nat
  BY <1>1, GrossType, BoostedType
<1>3. redemption \in Nat
  BY <1>1, <1>2, RedemptionType
<1>4. net \in Nat /\ net * CENTS_SCALE <= redemption
  BY <1>1, <1>3, NetWithin
<1>5. Pay(k, commodity) = [gross |-> boosted, redemption |-> redemption, net |-> net]
  BY DEF Pay, calculate_payout_from_gross
<1> HIDE DEF boosted, redemption, net
<1> QED
  BY <1>2, <1>3, <1>4, <1>5 DEF Money
-----------------------------------------------------------------------------
(* Boost.                                                                   *)

Bases == {0, 500, 1000, 1800, 2500}

Capped(base, lock) ==
    LET effective == (base * lock) \div 100
    IN  IF effective > MAX_BOOST_BPS THEN MAX_BOOST_BPS ELSE effective

\* The tiers of the service are those of the contract, and grow with the stake.
LEMMA Tiers ==
    ASSUME NEW amount \in Nat
    PROVE  base_boost_bps(amount) = baseBoostBps(amount) /\ base_boost_bps(amount) \in Bases
BY DEF base_boost_bps, baseBoostBps, Bases

LEMMA TiersGrow ==
    ASSUME NEW a \in Nat, NEW b \in Nat, a <= b
    PROVE  baseBoostBps(a) <= baseBoostBps(b)
BY DEF baseBoostBps

LEMMA Locks ==
    ASSUME NEW p \in 0 .. 2
    PROVE  lock_multiplier_scaled(p) = lockMultiplier(p) /\ lockMultiplier(p) \in {100, 130, 160}
<1>1. p = 0 \/ p = 1 \/ p = 2
  OBVIOUS
<1> QED
  BY <1>1 DEF lock_multiplier_scaled, lockMultiplier

\* The capped boost, in range and monotone.
LEMMA CappedRange ==
    ASSUME NEW base \in Bases, NEW lock \in {100, 130, 160}
    PROVE  Capped(base, lock) \in 0 .. MAX_BOOST_BPS
BY DEF Bases, Capped, MAX_BOOST_BPS

LEMMA CappedGrows ==
    ASSUME NEW a \in Bases, NEW b \in Bases, a <= b, NEW l \in {100, 130, 160}, NEW m \in {100, 130, 160},
           l <= m
    PROVE  Capped(a, l) <= Capped(b, m)
BY DEF Bases, Capped, MAX_BOOST_BPS

LEMMA BoostSound ==
    ASSUME NEW e \in StakeRead, NEW p \in StakeRead
    PROVE  /\ combined_boost_bps(e, p) \in 0 .. MAX_BOOST_BPS
           /\ p.lockPeriod = 0 =>
                 /\ ~p.active => combined_boost_bps(e, p) = effectiveBoostBps(e)
                 /\ ~e.active => combined_boost_bps(e, p) = effectiveBoostBps(p)
                 /\ combined_boost_bps(e, p) >= effectiveBoostBps(e)
                 /\ combined_boost_bps(e, p) >= effectiveBoostBps(p)
<1> DEFINE x == IF e.active THEN e.amount ELSE 0
           y == IF p.active THEN p.amount ELSE 0
           lock == IF e.active THEN lockMultiplier(e.lockPeriod) ELSE 100
<1>1. /\ e.amount \in Nat /\ p.amount \in Nat /\ e.lockPeriod \in 0 .. 2 /\ p.lockPeriod \in 0 .. 2
      /\ e.active \in BOOLEAN /\ p.active \in BOOLEAN
  BY DEF StakeRead
<1>2. x \in Nat /\ y \in Nat /\ x + y \in Nat /\ x <= x + y /\ y <= x + y
  BY <1>1
<1>3. lock \in {100, 130, 160}
  BY <1>1, Locks
<1>4. combined_boost_bps(e, p) = Capped(baseBoostBps(x + y), lock)
  <2>1. (IF e.active THEN lock_multiplier_scaled(e.lockPeriod) ELSE 100) = lock
    BY <1>1, Locks
  <2>2. base_boost_bps(x + y) = baseBoostBps(x + y)
    BY <1>2, Tiers
  <2> HIDE DEF lock
  <2> QED
    BY <2>1, <2>2 DEF combined_boost_bps, Capped
<1>5. /\ effectiveBoostBps(e) = IF e.active THEN Capped(baseBoostBps(x), lock) ELSE 0
      /\ p.lockPeriod = 0 => effectiveBoostBps(p) = IF p.active THEN Capped(baseBoostBps(y), 100) ELSE 0
  <2>1. p.lockPeriod = 0 => lockMultiplier(p.lockPeriod) = 100
    BY DEF lockMultiplier
  <2>2. effectiveBoostBps(e) = IF e.active THEN Capped(baseBoostBps(e.amount), lockMultiplier(e.lockPeriod)) ELSE 0
    BY <1>1 DEF effectiveBoostBps, Capped
  <2>3. effectiveBoostBps(p) = IF p.active THEN Capped(baseBoostBps(p.amount), lockMultiplier(p.lockPeriod)) ELSE 0
    BY <1>1 DEF effectiveBoostBps, Capped
  <2> QED
    BY <2>1, <2>2, <2>3
<1>6. e.active \/ lock = 100
  OBVIOUS
<1>7. (~e.active => x = 0) /\ (~p.active => y = 0)
  OBVIOUS
<1> HIDE DEF x, y, lock
<1>8. baseBoostBps(x) \in Bases /\ baseBoostBps(y) \in Bases /\ baseBoostBps(x + y) \in Bases
  BY <1>2, Tiers
<1>9. baseBoostBps(x) <= baseBoostBps(x + y) /\ baseBoostBps(y) <= baseBoostBps(x + y)
  BY <1>2, TiersGrow
<1>10. Capped(baseBoostBps(x + y), lock) \in 0 .. MAX_BOOST_BPS
  BY <1>3, <1>8, CappedRange
<1>11. Capped(baseBoostBps(x), lock) <= Capped(baseBoostBps(x + y), lock)
  <2>1. lock <= lock
    BY <1>3
  <2> QED
    BY <1>3, <1>8, <1>9, <2>1, CappedGrows
<1>12. Capped(baseBoostBps(y), 100) <= Capped(baseBoostBps(x + y), lock)
  <2>1. 100 <= lock /\ 100 \in {100, 130, 160}
    BY <1>3
  <2> QED
    BY <1>3, <1>8, <1>9, <2>1, CappedGrows
<1>13. Capped(baseBoostBps(0), lock) = 0
  <2>1. baseBoostBps(0) = 0
    BY DEF baseBoostBps
  <2>2. Capped(0, lock) = 0
    BY <1>3 DEF Capped, MAX_BOOST_BPS
  <2> QED
    BY <2>1, <2>2
<1>14. ~p.active => x + y = x
  BY <1>2, <1>7
<1>15. ~e.active => x + y = y
  BY <1>2, <1>7
<1>16. x + y = 0 => Capped(baseBoostBps(x + y), lock) = 0
  BY <1>13
<1>17. ~p.active => combined_boost_bps(e, p) = effectiveBoostBps(e)
  <2>1. CASE e.active
    BY <1>4, <1>5, <1>14, <2>1
  <2>2. CASE ~e.active
    BY <1>2, <1>4, <1>5, <1>7, <1>16, <2>2
  <2> QED
    BY <2>1, <2>2
<1>18. p.lockPeriod = 0 /\ ~e.active => combined_boost_bps(e, p) = effectiveBoostBps(p)
  <2>1. CASE p.active
    BY <1>4, <1>5, <1>6, <1>15, <2>1
  <2>2. CASE ~p.active
    BY <1>2, <1>4, <1>5, <1>7, <1>16, <2>2
  <2> QED
    BY <2>1, <2>2
<1>19. Capped(baseBoostBps(x + y), lock) >= 0
  BY <1>10
<1>20. combined_boost_bps(e, p) >= effectiveBoostBps(e)
  <2>1. Capped(baseBoostBps(x), lock) \in 0 .. MAX_BOOST_BPS
    BY <1>3, <1>8, CappedRange
  <2> QED
    BY <1>4, <1>5, <1>10, <1>11, <1>19, <2>1 DEF MAX_BOOST_BPS
<1>21. p.lockPeriod = 0 => combined_boost_bps(e, p) >= effectiveBoostBps(p)
  <2>1. Capped(baseBoostBps(y), 100) \in 0 .. MAX_BOOST_BPS
    BY <1>8, CappedRange
  <2> QED
    BY <1>4, <1>5, <1>10, <1>12, <1>19, <2>1 DEF MAX_BOOST_BPS
<1> QED
  BY <1>4, <1>10, <1>17, <1>18, <1>20, <1>21
-----------------------------------------------------------------------------
(* A request.                                                               *)

\* A request that goes on: to stage n, with nothing under way.
Onward(k, p, n) ==
    /\ p \in ReqType
    /\ p.kind = k.kind /\ p.at = n /\ p.step = "start" /\ p.todo = <<>> /\ p.since = 0 /\ p.nonce = 0
    /\ p.tries = k.tries /\ p.twap = k.twap /\ p.duration = k.duration /\ p.edge = k.edge
    /\ p.edgeAge = k.edgeAge /\ p.first = k.first /\ p.last = k.last /\ p.rate = k.rate
    /\ p.read = k.read /\ p.boost = k.boost /\ p.sent = k.sent /\ p.got = k.got
    /\ p.report = k.report /\ p.result = k.result

LEMMA ProceedIs == ASSUME NEW k \in ReqType PROVE Onward(k, Proceed(k), k.at + 1)
<1>1. <<>> \in Todos /\ "start" \in Steps /\ 0 \in Nat
  BY DEF Todos, Steps
<1>2. \A n \in Nat : n + 1 \in Nat
  OBVIOUS
<1>3. Proceed(k) \in ReqType
  BY <1>1, <1>2 DEF Proceed, ReqType
<1> QED
  BY <1>3 DEF Onward, Proceed, ReqType

LEMMA AnswerIs ==
    ASSUME NEW k \in ReqType, k.kind # None
    PROVE  Onward(k, Answer(k), Len(Route[k.kind]) + 1)
<1>1. Len(Route[k.kind]) \in Nat
  BY DEF ReqType, Handlers, Route
<1>2. PICK n : n = Len(Route[k.kind]) + 1
  OBVIOUS
<1>3. n \in Nat
  BY <1>1, <1>2
<1>4. Onward(k, Proceed(k), k.at + 1)
  BY ProceedIs
<1>5. PICK p : p = Proceed(k)
  OBVIOUS
<1>6. Answer(k) = [p EXCEPT !.at = n]
  BY <1>2, <1>5 DEF Answer
<1>7. Answer(k) \in ReqType
  BY <1>3, <1>4, <1>5, <1>6 DEF ReqType, Onward
<1>8. Onward(k, Answer(k), n)
  BY <1>4, <1>5, <1>6, <1>7 DEF Onward, ReqType
<1> QED
  BY <1>2, <1>8

\* The stages of the handlers, by their place.
LEMMA Stages ==
    ASSUME NEW r, NEW k \in ReqType, k = req[r], k.kind # None => k.at >= 1
    PROVE  /\ Stage(r) = "idle" <=> k.kind = None
           /\ Stage(r) = "done" <=> Finished(k)
           /\ Stage(r) = "twap" => k.kind = "settle" /\ k.at = 1
           /\ Stage(r) = "submit" => Submitting(k)
           /\ Stage(r) = "edge" => \/ k.kind = "settle" /\ k.at = 3
                                   \/ k.kind = "estimate" /\ k.at = 2
                                   \/ k.kind = "quote" /\ k.at = 1
                                   \/ k.kind = "sessions" /\ k.at = 3
           /\ Stage(r) = "rate" => \/ k.kind = "settle" /\ k.at = 4
                                   \/ k.kind = "estimate" /\ k.at = 1
                                   \/ k.kind = "sessions" /\ k.at = 1
           /\ Stage(r) = "stake" => \/ k.kind = "settle" /\ k.at = 5
                                    \/ k.kind = "estimate" /\ k.at = 3
                                    \/ k.kind = "sessions" /\ k.at = 2
                                    \/ k.kind = "staking" /\ k.at = 1
           /\ Stage(r) = "pay" => k.kind = "settle" /\ k.at = 6
           /\ Stage(r) = "spot" => \/ k.kind = "estimate" /\ k.at = 4
                                   \/ k.kind = "quote" /\ k.at = 2
           /\ Stage(r) = "list" => k.kind = "sessions" /\ k.at = 4
           /\ Stage(r) = "reserve" => k.kind = "reserve" /\ k.at = 1
           /\ Stage(r) \in Names
<1>1. CASE k.kind = None
  BY <1>1 DEF Stage, Finished, Names, Submitting
<1>2. k.kind \in Handlers => k.kind # None /\ k.at \in Nat /\ k.at >= 1
  BY AbsentAssumption DEF ReqType, Handlers, Route
<1>3. ASSUME NEW h \in DOMAIN Route, NEW i \in DOMAIN Route[h] PROVE Route[h][i] \in Names
  BY DEF Range, Names
<1>4. /\ Route["settle"] = <<"twap", "submit", "edge", "rate", "stake", "pay">>
      /\ Route["estimate"] = <<"rate", "edge", "stake", "spot">>
      /\ Route["quote"] = <<"edge", "spot">>
      /\ Route["sessions"] = <<"rate", "stake", "edge", "list">>
      /\ Route["staking"] = <<"stake">>
      /\ Route["reserve"] = <<"reserve">>
      /\ DOMAIN Route = Handlers
  BY DEF Route, Handlers
<1>5. k.kind # None => Stage(r) = IF k.at > Len(Route[k.kind]) THEN "done" ELSE Route[k.kind][k.at]
  BY DEF Stage
<1>6. k.kind \in Handlers => k.at > Len(Route[k.kind]) \/ k.at \in DOMAIN Route[k.kind]
  BY <1>2, <1>4 DEF Handlers
<1>7. k.kind # None => Stage(r) \in Names
  <2>1. {"idle", "done"} \subseteq Names
    BY DEF Names
  <2> QED
    BY <1>3, <1>4, <1>5, <1>6, <2>1 DEF ReqType
<1>8. CASE k.kind = "settle"
  BY <1>2, <1>4, <1>5, <1>7, <1>8 DEF Handlers, Finished, Submitting
<1>9. CASE k.kind = "estimate"
  BY <1>2, <1>4, <1>5, <1>7, <1>9 DEF Handlers, Finished
<1>10. CASE k.kind = "quote"
  BY <1>2, <1>4, <1>5, <1>7, <1>10 DEF Handlers, Finished
<1>11. CASE k.kind = "sessions"
  BY <1>2, <1>4, <1>5, <1>7, <1>11 DEF Handlers, Finished
<1>12. CASE k.kind = "staking"
  BY <1>2, <1>4, <1>5, <1>7, <1>12 DEF Handlers, Finished
<1>13. CASE k.kind = "reserve"
  BY <1>2, <1>4, <1>5, <1>7, <1>13 DEF Handlers, Finished
<1> QED
  BY <1>1, <1>8, <1>9, <1>10, <1>11, <1>12, <1>13 DEF ReqType, Handlers
-----------------------------------------------------------------------------
(* What the rest of the system does to a request that does not move.        *)

\* From t, ag, s, w to u, ah, z, x: time passes, transactions are sent, work is
\* accepted, and the samples of a calculator that is gone are fixed.
Drift(t, ag, s, w, u, ah, z, x) ==
    /\ t \in Nat /\ u \in Nat /\ t <= u
    /\ ag \in AggregatorType /\ ah \in AggregatorType /\ \A c \in Chain : ag[c].txs <= ah[c].txs
    /\ z.commodity = s.commodity
    /\ ~s.live => ~z.live /\ z.samples = s.samples
    /\ w \in WorkType /\ x \in WorkType /\ w.offered <= x.offered
    /\ w.anchor # None => x.anchor = w.anchor

LEMMA HeadIn ==
    ASSUME NEW k \in ReqType, k.todo # <<>>
    PROVE  /\ Head(k.todo) \in Chain /\ Tail(k.todo) \in Todos
           /\ k.sent[Head(k.todo)] \in Sent \cup {None}
<1>1. k.todo \in Seq(Chain) /\ k.sent \in [Chain -> Sent \cup {None}]
  BY DEF ReqType, Todos, Sents
<1> QED
  BY <1>1 DEF Todos

LEMMA ReqFrame ==
    ASSUME NEW k \in ReqType, NEW t, NEW ag, NEW s, NEW w, NEW u, NEW ah, NEW z, NEW x,
           ReqInv(k, t, ag, s, w), Drift(t, ag, s, w, u, ah, z, x),
           k.step \in {"rpc", "store"} => u <= k.since + MaxFetch
    PROVE  ReqInv(k, u, ah, z, x)
<1>1. /\ FetchOK(k, t) /\ AgeOK(k) /\ SubmitOK(k, ag) /\ PriceOK(k, s) /\ RateOK(k, w)
      /\ BoostOK(k) /\ ResultOK(k, s.commodity)
  BY DEF ReqInv
<1>2. k.since \in Nat /\ k.got \in Seq(Nat) /\ k.nonce \in Nat /\ k.tries \in Nat /\ k.rate \in Nat
  BY Numbers DEF ReqType, Gots
<1>3. FetchOK(k, u)
  <2>1. \A i \in 1 .. Len(k.got) : k.got[i] \in Nat
    BY <1>2
  <2>2. EdgeRead(k, t) => EdgeRead(k, u)
    BY <1>2, <2>1 DEF EdgeRead, Drift
  <2>3. ReserveRead(k, t) => ReserveRead(k, u)
    <3>1. k.got # <<>> => k.got[1] \in Nat
      BY <1>2
    <3> QED
      BY <3>1 DEF ReserveRead, Drift
  <2> QED
    BY <1>1, <1>2, <2>2, <2>3 DEF FetchOK, Drift
<1>4. SubmitOK(k, ah)
  <2>1. ASSUME k.todo # <<>>, Present(k, ag) PROVE Present(k, ah)
    <3> DEFINE c == Head(k.todo)
    <3>1. c \in Chain /\ k.sent[c] \in Sent \cup {None}
      BY <2>1, HeadIn
    <3>2. ag[c].txs \in Nat /\ ah[c].txs \in Nat /\ ag[c].txs <= ah[c].txs
      BY <3>1 DEF Drift, AggregatorType
    <3>3. k.sent[c] # None => k.sent[c].begun \in Nat
      BY <3>1 DEF Sent
    <3>4. k.step \in {"start", "send"} /\ (k.sent[c] = None => k.step = "start" /\ k.tries = 0)
      BY <2>1 DEF Present
    <3>5. k.sent[c] # None => k.sent[c].status = "open" /\ k.sent[c].begun + k.tries <= ag[c].txs
      BY <2>1 DEF Present
    <3>6. k.step = "send" => k.sent[c].begun + k.tries <= k.nonce /\ k.nonce <= ag[c].txs
      BY <2>1 DEF Present
    <3> QED
      BY <1>2, <3>2, <3>3, <3>4, <3>5, <3>6 DEF Present
  <2> QED
    BY <1>1, <2>1 DEF SubmitOK
<1>5. PriceOK(k, z)
  BY <1>1 DEF PriceOK, Drift
<1>6. RateOK(k, x)
  <2>1. Covered(k, w) => Covered(k, x)
    <3> SUFFICES ASSUME Covered(k, w) PROVE Covered(k, x)
      OBVIOUS
    <3>1. k.first \in Nat /\ k.last \in Nat
      BY DEF Covered
    <3>2. k.rate * (k.last - k.first) \in Int
      BY <1>2, <3>1
    <3>3. w.anchor \in Nat /\ x.anchor = w.anchor /\ w.offered \in Nat /\ x.offered \in Nat /\ w.offered <= x.offered
      BY Numbers DEF Covered, Drift, WorkType
    <3> QED
      BY <3>2, <3>3 DEF Covered
  <2> QED
    BY <1>1, <2>1 DEF RateOK
<1> QED
  BY <1>1, <1>3, <1>4, <1>5, <1>6 DEF ReqInv, Drift

\* Nobody moves.
LEMMA NoRequest ==
    ASSUME RequestsOK, UNCHANGED req,
           Drift(now, aggregator, session, work, now', aggregator', session', work'),
           \A r \in Requests : Fetching(r) => now' <= req[r].since + MaxFetch
    PROVE  RequestsOK'
<1>1. ASSUME NEW r \in Requests PROVE ReqInv(req[r], now', aggregator', session', work')
  <2>1. req[r] \in ReqType /\ ReqInv(req[r], now, aggregator, session, work)
    BY DEF RequestsOK
  <2>2. req[r].step \in {"rpc", "store"} => now' <= req[r].since + MaxFetch
    BY DEF Fetching
  <2> QED
    BY <2>1, <2>2, ReqFrame
<1> QED
  BY <1>1 DEF RequestsOK

\* Request r moves to k.
LEMMA OneRequest ==
    ASSUME RequestsOK, NEW r \in Requests, NEW k \in ReqType, req' = [req EXCEPT ![r] = k],
           now' = now, Drift(now, aggregator, session, work, now, aggregator', session', work'),
           ReqInv(k, now, aggregator', session', work')
    PROVE  RequestsOK'
<1>1. req \in [Requests -> ReqType]
  BY DEF RequestsOK
<1>2. req' \in [Requests -> ReqType]
  BY <1>1
<1>3. ASSUME NEW q \in Requests PROVE ReqInv(req'[q], now', aggregator', session', work')
  <2>1. CASE q = r
    BY <1>1, <2>1
  <2>2. CASE q # r
    <3>1. req'[q] = req[q]
      BY <1>1, <2>2
    <3>2. req[q] \in ReqType /\ ReqInv(req[q], now, aggregator, session, work)
      BY DEF RequestsOK
    <3>3. now \in Nat /\ req[q].since \in Nat /\ MaxFetch \in Nat
      BY <3>2, Numbers DEF Drift, ReqType
    <3>4. req[q].step \in {"rpc", "store"} => now <= req[q].since + MaxFetch
      BY <3>2 DEF ReqInv, FetchOK
    <3>5. ReqInv(req[q], now, aggregator', session', work')
      BY <3>2, <3>4, ReqFrame
    <3> QED
      BY <3>1, <3>5
  <2> QED
    BY <2>1, <2>2
<1> QED
  BY <1>2, <1>3 DEF RequestsOK

\* Nothing else moves.
LEMMA OnlyRequest ==
    ASSUME EconomyInv, NEW r \in Requests, NEW k \in ReqType, req' = [req EXCEPT ![r] = k],
           UNCHANGED <<now, aggregator, session, work>>, ReqInv(k, now, aggregator, session, work)
    PROVE  RequestsOK'
<1>1. Drift(now, aggregator, session, work, now, aggregator', session', work')
  <2>1. now \in Nat /\ work.offered \in Nat /\ work \in WorkType
    BY Numbers DEF EconomyInv, WorkOK, WorkType
  <2>2. aggregator \in AggregatorType /\ \A c \in Chain : aggregator[c].txs <= aggregator[c].txs
    BY DEF EconomyInv, ChainOK, AggregatorType
  <2> QED
    BY <2>1, <2>2 DEF Drift
<1> QED
  BY <1>1, OneRequest DEF EconomyInv
-----------------------------------------------------------------------------
(* A request that moves.                                                    *)

LEMMA Locals ==
    ASSUME EconomyInv, NEW r \in Requests
    PROVE  /\ req[r] \in ReqType /\ ReqInv(req[r], now, aggregator, session, work)
           /\ now \in Nat /\ session \in SessionType /\ work \in WorkType
           /\ aggregator \in AggregatorType
           /\ req[r].kind # None => req[r].at >= 1
BY Numbers DEF EconomyInv, RequestsOK, ChainOK, WorkOK, ReqInv, FetchOK

LEMMA EventsStay == ASSUME EconomyInv, Happens \/ Quiet PROVE events' \in 0 .. MaxEvents
<1>1. events \in 0 .. MaxEvents /\ MaxEvents \in Nat
  BY Numbers DEF EconomyInv
<1> QED
  BY <1>1 DEF Happens, Quiet

LEMMA OthersStay ==
    ASSUME EconomyInv, UNCHANGED <<now, chainVars, feed, session, miner, cacheVars, work>>,
           events' \in 0 .. MaxEvents, RequestsOK'
    PROVE  EconomyInv'
<1>1. ChainOK' /\ CachesOK'
  BY DEF EconomyInv, ChainOK, CachesOK, chainVars, cacheVars
<1> QED
  BY <1>1 DEF EconomyInv

\* Between the first submission and the end of a handler that is not the report
\* of the reserves nothing is computed and no submission is under way.
LEMMA Underway ==
    ASSUME EconomyInv, NEW r \in Requests, NEW k, k = req[r],
           Stage(r) \in {"edge", "rate", "stake", "pay", "spot", "list"}
    PROVE  /\ k \in ReqType /\ ReqInv(k, now, aggregator, session, work)
           /\ k.kind # None /\ k.kind # "reserve" /\ k.at \in Nat /\ k.at >= 1 /\ ~Finished(k)
           /\ k.kind = "settle" => k.at \in 3 .. 6
           /\ k.tries = 0 /\ k.result.net = None
<1>1. k \in ReqType /\ ReqInv(k, now, aggregator, session, work) /\ (k.kind # None => k.at >= 1)
  BY Locals
<1>2. k.kind # None /\ k.kind # "reserve" /\ ~Finished(k) /\ (k.kind = "settle" => k.at \in 3 .. 6)
  BY <1>1, Stages
<1>3. ~Submitting(k)
  BY <1>2 DEF Submitting
<1> QED
  BY <1>1, <1>2, <1>3 DEF ReqInv, SubmitOK, ResultOK, ReqType

\* The request of such a stage goes on, to p.
LEMMA Onwards ==
    ASSUME NEW k \in ReqType, NEW p \in ReqType, NEW t, NEW ag, NEW s, NEW w,
           ReqInv(k, t, ag, s, w), k.kind # None, k.at >= 1,
           k.kind = "settle" => k.at \in 3 .. 6 /\ p.twap = k.twap,
           p.kind = k.kind, p.at > k.at, p.step = "start", p.tries = 0, p.sent = k.sent,
           AgeOK(p), RateOK(p, w), BoostOK(p), ResultOK(p, s.commodity)
    PROVE  ReqInv(p, t, ag, s, w)
<1>1. k.at \in Nat /\ p.at \in Nat
  BY DEF ReqType
<1>2. FetchOK(p, t)
  BY <1>1 DEF FetchOK
<1>3. SubmitOK(p, ag)
  BY <1>1 DEF SubmitOK, Submitting, ReqInv
<1>4. PriceOK(p, s)
  BY <1>1 DEF PriceOK, ReqInv
<1> QED
  BY <1>2, <1>3, <1>4 DEF ReqInv

\* ... or stays where it is, with the same price, submissions, reports and result.
LEMMA Stays ==
    ASSUME NEW k \in ReqType, NEW p \in ReqType, NEW t, NEW ag, NEW s, NEW w,
           ReqInv(k, t, ag, s, w), k.kind # None, k.kind # "reserve",
           k.kind = "settle" => k.at \in 3 .. 6, k.tries = 0, k.result.net = None,
           p.kind = k.kind, p.at = k.at, p.twap = k.twap, p.tries = k.tries, p.sent = k.sent,
           p.report = k.report, p.edgeAge = k.edgeAge, p.result = k.result,
           FetchOK(p, t), RateOK(p, w), BoostOK(p)
    PROVE  ReqInv(p, t, ag, s, w)
<1>1. AgeOK(p)
  BY DEF AgeOK, ReqInv
<1>2. SubmitOK(p, ag)
  BY DEF SubmitOK, Submitting, ReqInv
<1>3. PriceOK(p, s)
  BY DEF PriceOK, ReqInv
<1>4. ResultOK(p, s.commodity)
  BY DEF ResultOK
<1> QED
  BY <1>1, <1>2, <1>3, <1>4 DEF ReqInv

\* The rate of a settlement does not change outside its stage.
LEMMA SameRate ==
    ASSUME NEW k \in ReqType, NEW p \in ReqType, NEW w, RateOK(k, w), p.kind = k.kind, p.at >= k.at,
           p.rate = k.rate, p.first = k.first, p.last = k.last
    PROVE  RateOK(p, w)
<1>1. k.at \in Nat /\ p.at \in Nat
  BY DEF ReqType
<1>2. p.at <= 4 => k.at <= 4
  BY <1>1
<1>3. Covered(k, w) => Covered(p, w)
  BY DEF Covered
<1> QED
  BY <1>2, <1>3 DEF RateOK

\* A cached or fetched edge is taken over.
WithEdge(k, value, age, got) == [Proceed(k) EXCEPT !.edge = value, !.edgeAge = age, !.got = got]

LEMMA TakeEdge ==
    ASSUME NEW k \in ReqType, NEW value \in Edges, NEW age \in Nat, NEW got \in Gots,
           NEW p, p = WithEdge(k, value, age, got)
    PROVE  /\ p \in ReqType
           /\ p.edge = value /\ p.edgeAge = age /\ p.at = k.at + 1 /\ p.step = "start"
           /\ p.kind = k.kind /\ p.tries = k.tries /\ p.sent = k.sent /\ p.twap = k.twap
           /\ p.report = k.report /\ p.result = k.result /\ p.read = k.read /\ p.boost = k.boost
           /\ p.rate = k.rate /\ p.first = k.first /\ p.last = k.last
<1>1. value \in 0 .. BPS_DENOMINATOR
  BY DEF Edges, BPS_DENOMINATOR
<1>2. PICK o : o = Proceed(k)
  OBVIOUS
<1>3. Onward(k, o, k.at + 1) /\ o \in ReqType
  BY <1>2, ProceedIs DEF Onward
<1>4. [o EXCEPT !.edge = value, !.edgeAge = age, !.got = got] \in ReqType
  BY <1>1, <1>3 DEF ReqType
<1> QED
  BY <1>2, <1>3, <1>4 DEF ReqType, Onward, WithEdge

LEMMA EdgeTaken ==
    ASSUME EconomyInv, NEW r \in Requests, Stage(r) = "edge", NEW value \in Edges, NEW age \in Nat,
           Young(age), NEW got \in Gots,
           NEW p, p = WithEdge(req[r], value, age, got)
    PROVE  p \in ReqType /\ ReqInv(p, now, aggregator, session, work)
<1>1. PICK k : k = req[r]
  OBVIOUS
<1>2. /\ k \in ReqType /\ ReqInv(k, now, aggregator, session, work)
      /\ k.kind # None /\ k.at \in Nat /\ k.at >= 1
      /\ k.kind = "settle" => k.at \in 3 .. 6
      /\ k.tries = 0 /\ k.result.net = None
  BY <1>1, Underway
<1>3. p = WithEdge(k, value, age, got)
  BY <1>1
<1>4. /\ p \in ReqType
      /\ p.edge = value /\ p.edgeAge = age /\ p.at = k.at + 1 /\ p.step = "start"
      /\ p.kind = k.kind /\ p.tries = k.tries /\ p.sent = k.sent /\ p.twap = k.twap
      /\ p.report = k.report /\ p.result = k.result /\ p.read = k.read /\ p.boost = k.boost
      /\ p.rate = k.rate /\ p.first = k.first /\ p.last = k.last
  BY <1>2, <1>3, TakeEdge
<1>5. AgeOK(p) /\ BoostOK(p) /\ ResultOK(p, session.commodity)
  BY <1>2, <1>4 DEF ReqInv, AgeOK, BoostOK, ResultOK
<1>6. p.at > k.at /\ p.at >= k.at
  BY <1>2, <1>4
<1>7. RateOK(p, work)
  BY <1>2, <1>4, <1>6, SameRate DEF ReqInv
<1>8. ReqInv(p, now, aggregator, session, work)
  BY <1>2, <1>4, <1>5, <1>6, <1>7, Onwards
<1> QED
  BY <1>4, <1>8

\* The call failed, or nothing is taken over: the handler goes on as it is.
LEMMA GoesOn ==
    ASSUME EconomyInv, NEW r \in Requests, Stage(r) \in {"edge", "rate", "stake", "pay", "spot", "list"},
           NEW p, NEW n \in Nat, Onward(req[r], p, n), n > req[r].at
    PROVE  p \in ReqType /\ ReqInv(p, now, aggregator, session, work)
<1>1. PICK k : k = req[r]
  OBVIOUS
<1>2. /\ k \in ReqType /\ ReqInv(k, now, aggregator, session, work)
      /\ k.kind # None /\ k.at \in Nat /\ k.at >= 1
      /\ k.kind = "settle" => k.at \in 3 .. 6
      /\ k.tries = 0 /\ k.result.net = None
  BY <1>1, Underway
<1>3. p \in ReqType
  BY DEF Onward
<1>4. /\ p.at = n /\ p.step = "start"
      /\ p.kind = k.kind /\ p.tries = k.tries /\ p.sent = k.sent /\ p.twap = k.twap
      /\ p.edgeAge = k.edgeAge
      /\ p.report = k.report /\ p.result = k.result /\ p.read = k.read /\ p.boost = k.boost
      /\ p.rate = k.rate /\ p.first = k.first /\ p.last = k.last
  BY <1>1 DEF Onward
<1>5. AgeOK(p) /\ BoostOK(p) /\ ResultOK(p, session.commodity)
  BY <1>2, <1>4 DEF ReqInv, AgeOK, BoostOK, ResultOK
<1>6. p.at > k.at /\ p.at >= k.at
  BY <1>1, <1>2, <1>4
<1>7. RateOK(p, work)
  BY <1>2, <1>3, <1>4, <1>6, SameRate DEF ReqInv
<1>8. ReqInv(p, now, aggregator, session, work)
  BY <1>2, <1>3, <1>4, <1>5, <1>6, <1>7, Onwards
<1> QED
  BY <1>3, <1>8
-----------------------------------------------------------------------------
(* The house edge.                                                          *)

LEMMA EdgesNat == ASSUME NEW e \in Edges PROVE e \in Nat
BY DEF Edges

\* What a cached value that is current says of its age.
LEMMA CachedAge ==
    ASSUME NEW entry, entry.fetched_at \in Nat, entry.read_at \in Nat, now \in Nat,
           Recent(entry, now), Current(entry)
    PROVE  now - entry.read_at \in Nat /\ Young(now - entry.read_at)
BY Numbers DEF Recent, Current, Young

LEMMA CachedEdgeInv ==
    ASSUME EconomyInv, NEW r \in Requests, CachedEdge(r)
    PROVE  EconomyInv'
<1>1. PICK k : k = req[r]
  OBVIOUS
<1>2. Stage(r) = "edge" /\ k.step = "start"
  BY <1>1 DEF CachedEdge, At
<1>3. /\ k \in ReqType /\ ReqInv(k, now, aggregator, session, work)
      /\ k.kind # None /\ k.kind # "reserve" /\ k.at \in Nat /\ k.at >= 1
      /\ k.kind = "settle" => k.at \in 3 .. 6
      /\ k.tries = 0 /\ k.result.net = None
  BY <1>1, <1>2, Underway
<1>4. now \in Nat
  BY Locals
<1>5. UNCHANGED <<now, chainVars, feed, session, miner, cacheVars, events, work>>
  BY DEF CachedEdge
<1>6. PICK p : req' = [req EXCEPT ![r] = p] /\ p = IF Current(edgeCache)
                 THEN [Proceed(k) EXCEPT !.edge = edgeCache.value, !.edgeAge = now - edgeCache.read_at]
                 ELSE [k EXCEPT !.step = "rpc", !.since = now]
  BY <1>1 DEF CachedEdge
<1>7. p \in ReqType /\ ReqInv(p, now, aggregator, session, work)
  <2>1. CASE Current(edgeCache)
    <3>1. edgeCache \in EdgeEntry /\ Recent(edgeCache, now)
      BY <2>1 DEF EconomyInv, CachesOK, Current
    <3>2. PICK age : age = now - edgeCache.read_at
      OBVIOUS
    <3>3. edgeCache.value \in Edges /\ age \in Nat /\ Young(age)
      BY <1>4, <2>1, <3>1, <3>2, CachedAge DEF EdgeEntry
    <3>4. PICK o : o = Proceed(k)
      OBVIOUS
    <3>5. o \in ReqType /\ o.got \in Gots
      BY <1>3, <3>4, ProceedIs DEF Onward, ReqType
    <3>6. p = [o EXCEPT !.edge = edgeCache.value, !.edgeAge = age]
      BY <1>6, <2>1, <3>2, <3>4
    <3>7. p = [o EXCEPT !.edge = edgeCache.value, !.edgeAge = age, !.got = o.got]
      BY <3>5, <3>6 DEF ReqType
    <3>8. p = WithEdge(req[r], edgeCache.value, age, o.got)
      BY <1>1, <3>4, <3>7 DEF WithEdge
    <3> QED
      BY <1>2, <3>3, <3>5, <3>8, EdgeTaken
  <2>2. CASE ~Current(edgeCache)
    <3>1. p = [k EXCEPT !.step = "rpc", !.since = now]
      BY <1>6, <2>2
    <3>2. p \in ReqType
      BY <1>3, <1>4, <3>1 DEF ReqType, Steps
    <3>3. /\ p.step = "rpc" /\ p.since = now /\ p.at = k.at
          /\ p.kind = k.kind /\ p.tries = k.tries /\ p.sent = k.sent /\ p.twap = k.twap
          /\ p.edgeAge = k.edgeAge
          /\ p.report = k.report /\ p.result = k.result /\ p.read = k.read /\ p.boost = k.boost
          /\ p.rate = k.rate /\ p.first = k.first /\ p.last = k.last
      BY <1>3, <3>1 DEF ReqType
    <3>4. FetchOK(p, now)
      BY <1>3, <1>4, <3>3, Numbers DEF FetchOK
    <3>5. BoostOK(p)
      BY <1>3, <3>3 DEF BoostOK, ReqInv
    <3>6. RateOK(p, work)
      BY <1>3, <3>2, <3>3, SameRate DEF ReqInv
    <3> QED
      BY <1>3, <3>2, <3>3, <3>4, <3>5, <3>6, Stays
  <2> QED
    BY <2>1, <2>2
<1>8. RequestsOK'
  BY <1>5, <1>6, <1>7, OnlyRequest DEF chainVars
<1>9. events' \in 0 .. MaxEvents
  BY <1>5 DEF EconomyInv
<1> QED
  BY <1>5, <1>8, <1>9, OthersStay

LEMMA ReadEdgeInv ==
    ASSUME EconomyInv, NEW r \in Requests, read_edge(r)
    PROVE  EconomyInv'
<1>1. PICK k : k = req[r]
  OBVIOUS
<1>2. Stage(r) = "edge" /\ k.step = "rpc"
  BY <1>1 DEF read_edge, At
<1>3. /\ k \in ReqType /\ ReqInv(k, now, aggregator, session, work)
      /\ k.kind # None /\ k.kind # "reserve" /\ k.at \in Nat /\ k.at >= 1
      /\ k.kind = "settle" => k.at \in 3 .. 6
      /\ k.tries = 0 /\ k.result.net = None
  BY <1>1, <1>2, Underway
<1>4. now \in Nat
  BY Locals
<1>5. UNCHANGED <<now, chainVars, feed, session, miner, cacheVars, work>>
  BY DEF read_edge
<1>6. Happens \/ Quiet
  BY DEF read_edge
<1>7. PICK p : /\ req' = [req EXCEPT ![r] = p]
               /\ p \in {[k EXCEPT !.step = "store", !.got = <<houseEdge.current, now>>], Proceed(k)}
  BY <1>1 DEF read_edge
<1>8. p \in ReqType /\ ReqInv(p, now, aggregator, session, work)
  <2>1. CASE p = Proceed(k)
    <3>1. Onward(req[r], p, k.at + 1)
      BY <1>1, <1>3, <2>1, ProceedIs
    <3>2. k.at + 1 \in Nat /\ k.at + 1 > req[r].at
      BY <1>1, <1>3
    <3> QED
      BY <1>2, <3>1, <3>2, GoesOn
  <2>2. CASE p = [k EXCEPT !.step = "store", !.got = <<houseEdge.current, now>>]
    <3>1. PICK got : got = <<houseEdge.current, now>>
      OBVIOUS
    <3>2. houseEdge.current \in Edges
      BY DEF EconomyInv, ChainOK
    <3>3. got \in Gots /\ Len(got) = 2 /\ got[1] \in Edges /\ got[2] = now
      <4>1. houseEdge.current \in Nat
        BY <3>2, EdgesNat
      <4>2. got \in Seq(Nat)
        BY <1>4, <3>1, <4>1
      <4> QED
        BY <3>1, <3>2, <4>2 DEF Gots
    <3>4. p = [k EXCEPT !.step = "store", !.got = got]
      BY <2>2, <3>1
    <3>5. p \in ReqType
      BY <1>3, <3>3, <3>4 DEF ReqType, Steps
    <3>6. /\ p.step = "store" /\ p.since = k.since /\ p.at = k.at /\ p.got = got
          /\ p.kind = k.kind /\ p.tries = k.tries /\ p.sent = k.sent /\ p.twap = k.twap
          /\ p.edgeAge = k.edgeAge
          /\ p.report = k.report /\ p.result = k.result /\ p.read = k.read /\ p.boost = k.boost
          /\ p.rate = k.rate /\ p.first = k.first /\ p.last = k.last
      BY <1>3, <3>4 DEF ReqType
    <3>7. k.since <= now /\ now <= k.since + MaxFetch
      BY <1>2, <1>3 DEF ReqInv, FetchOK
    <3>8. EdgeRead(p, now)
      BY <1>4, <3>3, <3>6, <3>7 DEF EdgeRead
    <3>9. FetchOK(p, now)
      BY <1>3, <3>6, <3>7, <3>8 DEF FetchOK
    <3>10. BoostOK(p)
      BY <1>3, <3>6 DEF BoostOK, ReqInv
    <3>11. RateOK(p, work)
      BY <1>3, <3>5, <3>6, SameRate DEF ReqInv
    <3> QED
      BY <1>3, <3>5, <3>6, <3>9, <3>10, <3>11, Stays
  <2> QED
    BY <1>7, <2>1, <2>2
<1>9. RequestsOK'
  BY <1>5, <1>7, <1>8, OnlyRequest DEF chainVars
<1>10. events' \in 0 .. MaxEvents
  BY <1>6, EventsStay
<1> QED
  BY <1>5, <1>9, <1>10, OthersStay

LEMMA CurrentEdgeInv ==
    ASSUME EconomyInv, NEW r \in Requests, current_edge_bps(r)
    PROVE  EconomyInv'
<1>1. PICK k : k = req[r]
  OBVIOUS
<1>2. Stage(r) = "edge" /\ k.step = "store"
  BY <1>1 DEF current_edge_bps, At
<1>3. k \in ReqType /\ ReqInv(k, now, aggregator, session, work) /\ k.kind # "reserve"
  BY <1>1, <1>2, Underway
<1>4. now \in Nat
  BY Locals
<1>5. UNCHANGED <<now, chainVars, feed, session, miner, reserveCache, events, work>>
  BY DEF current_edge_bps
<1>6. PICK value, read_at : value = k.got[1] /\ read_at = k.got[2]
  OBVIOUS
<1>7. /\ k.since \in Nat /\ read_at \in Nat /\ value \in Edges
      /\ k.since <= read_at /\ read_at <= now /\ now <= k.since + MaxFetch
  <2>1. EdgeRead(k, now) /\ now <= k.since + MaxFetch
    BY <1>2, <1>3 DEF ReqInv, FetchOK
  <2>2. k.got \in Seq(Nat) /\ Len(k.got) = 2
    BY <1>3, <2>1 DEF ReqType, Gots, EdgeRead
  <2>3. k.got[2] \in Nat
    BY <2>2
  <2> QED
    BY <1>3, <1>6, <2>1, <2>3 DEF EdgeRead, ReqType
<1>8. PICK age : age = now - read_at
  OBVIOUS
<1>9. age \in Nat /\ Young(age)
  BY <1>4, <1>7, <1>8, Numbers DEF Young
<1>10. PICK p : p = WithEdge(req[r], value, age, <<>>)
  OBVIOUS
<1>11. req' = [req EXCEPT ![r] = p]
  BY <1>1, <1>6, <1>8, <1>10 DEF current_edge_bps, WithEdge
<1>12. p \in ReqType /\ ReqInv(p, now, aggregator, session, work)
  <2>1. <<>> \in Gots
    BY DEF Gots
  <2> QED
    BY <1>2, <1>7, <1>9, <1>10, <2>1, EdgeTaken
<1>13. RequestsOK'
  BY <1>5, <1>11, <1>12, OnlyRequest DEF chainVars
<1>14. CachesOK'
  <2>1. edgeCache' = [value |-> value, fetched_at |-> now, read_at |-> read_at]
    BY <1>1, <1>6 DEF current_edge_bps
  <2>2. edgeCache' \in EdgeEntry
    BY <1>4, <1>7, <2>1 DEF EdgeEntry
  <2>3. Recent(edgeCache', now)
    BY <1>4, <1>7, <2>1, Numbers DEF Recent
  <2> QED
    BY <1>5, <2>2, <2>3 DEF CachesOK, EconomyInv
<1>15. ChainOK' /\ events' \in 0 .. MaxEvents
  BY <1>5 DEF ChainOK, EconomyInv, chainVars
<1> QED
  BY <1>5, <1>13, <1>14, <1>15 DEF EconomyInv
-----------------------------------------------------------------------------
(* The session's rate.                                                      *)

\* Two times and a step put in a request's locals leave them well typed.
LEMMA KeyKept ==
    ASSUME NEW k \in ReqType, NEW first \in Time, NEW last \in Time, NEW step \in Steps
    PROVE  [k EXCEPT !.first = first, !.last = last, !.step = step] \in ReqType
BY DEF ReqType

\* A key was read: the first proof's time, or the last activity.
LEMMA KeyRead ==
    ASSUME EconomyInv, NEW r \in Requests, Stage(r) = "rate", NEW p, NEW first \in Time,
           NEW last \in Time, NEW step \in {"last", "sum"},
           p = [req[r] EXCEPT !.first = first, !.last = last, !.step = step]
    PROVE  p \in ReqType /\ ReqInv(p, now, aggregator, session, work)
<1>1. PICK k : k = req[r]
  OBVIOUS
<1>2. /\ k \in ReqType /\ ReqInv(k, now, aggregator, session, work)
      /\ k.kind # None /\ k.kind # "reserve" /\ k.at \in Nat /\ k.at >= 1
      /\ k.kind = "settle" => k.at \in 3 .. 6
      /\ k.tries = 0 /\ k.result.net = None
  BY <1>1, Underway
<1>3. k.kind = "settle" => k.at = 4
  BY <1>1, <1>2, Stages
<1>4. p \in ReqType
  <2>1. step \in Steps
    BY DEF Steps
  <2>2. p = [k EXCEPT !.first = first, !.last = last, !.step = step]
    BY <1>1
  <2>3. [k EXCEPT !.first = first, !.last = last, !.step = step] \in ReqType
    <3>1. k \in ReqType
      BY <1>2
    <3> QED
      BY <2>1, <3>1, KeyKept, Zenon
  <2> QED
    BY <2>2, <2>3
<1>5. /\ p.step = step /\ p.since = k.since /\ p.at = k.at
      /\ p.kind = k.kind /\ p.tries = k.tries /\ p.sent = k.sent /\ p.twap = k.twap
      /\ p.edgeAge = k.edgeAge
      /\ p.report = k.report /\ p.result = k.result /\ p.read = k.read /\ p.boost = k.boost
      /\ p.rate = k.rate
  BY <1>1, <1>2 DEF ReqType
<1>6. FetchOK(p, now)
  BY <1>2, <1>5 DEF FetchOK
<1>7. BoostOK(p)
  BY <1>2, <1>5 DEF BoostOK, ReqInv
<1>8. RateOK(p, work)
  BY <1>2, <1>3, <1>5 DEF RateOK, ReqInv
<1> QED
  BY <1>2, <1>4, <1>5, <1>6, <1>7, <1>8, Stays

LEMMA ReadFirstInv ==
    ASSUME EconomyInv, NEW r \in Requests, ReadFirst(r)
    PROVE  EconomyInv'
<1>1. PICK k : k = req[r]
  OBVIOUS
<1>2. Stage(r) = "rate" /\ k \in ReqType /\ session.first \in Time
  BY <1>1, Locals DEF ReadFirst, At, SessionType
<1>3. PICK p : p = [k EXCEPT !.first = session.first, !.step = "last"]
  OBVIOUS
<1>4. /\ req' = [req EXCEPT ![r] = p]
      /\ UNCHANGED <<now, chainVars, feed, session, miner, cacheVars, events, work>>
  BY <1>1, <1>3 DEF ReadFirst
<1>5. p = [k EXCEPT !.first = session.first, !.last = k.last, !.step = "last"] /\ k.last \in Time
  BY <1>2, <1>3 DEF ReqType
<1>6. p \in ReqType /\ ReqInv(p, now, aggregator, session, work)
  BY <1>1, <1>2, <1>5, KeyRead
<1>7. RequestsOK'
  BY <1>4, <1>6, OnlyRequest DEF chainVars
<1>8. events' \in 0 .. MaxEvents
  BY <1>4 DEF EconomyInv
<1> QED
  BY <1>4, <1>7, <1>8, OthersStay

LEMMA ReadLastInv ==
    ASSUME EconomyInv, NEW r \in Requests, ReadLast(r)
    PROVE  EconomyInv'
<1>1. PICK k : k = req[r]
  OBVIOUS
<1>2. Stage(r) = "rate" /\ k \in ReqType /\ session.last \in Time
  BY <1>1, Locals DEF ReadLast, At, SessionType
<1>3. PICK p : p = [k EXCEPT !.last = session.last, !.step = "sum"]
  OBVIOUS
<1>4. /\ req' = [req EXCEPT ![r] = p]
      /\ UNCHANGED <<now, chainVars, feed, session, miner, cacheVars, events, work>>
  BY <1>1, <1>3 DEF ReadLast
<1>5. p = [k EXCEPT !.first = k.first, !.last = session.last, !.step = "sum"] /\ k.first \in Time
  BY <1>2, <1>3 DEF ReqType
<1>6. p \in ReqType /\ ReqInv(p, now, aggregator, session, work)
  BY <1>1, <1>2, <1>5, KeyRead
<1>7. RequestsOK'
  BY <1>4, <1>6, OnlyRequest DEF chainVars
<1>8. events' \in 0 .. MaxEvents
  BY <1>4 DEF EconomyInv
<1> QED
  BY <1>4, <1>7, <1>8, OthersStay

LEMMA OwedType == ASSUME NEW mn \in MinerType PROVE Owed(mn) \in Nat
<1>1. \A m \in Miners : [x \in Miners |-> mn[x].difficulty][m] \in Nat
  BY DEF MinerType, ProofType
<1>2. IsFiniteSet(Miners)
  BY EconomyAssumption
<1> QED
  BY <1>1, <1>2, SumNat DEF Owed

\* A positive rate is covered by the work that was accepted.
LEMMA HashrateCovered ==
    ASSUME EconomyInv, NEW k \in ReqType, NEW rate, rate = get_session_hashrate(k)
    PROVE  /\ rate \in Nat /\ rate <= MAX_HASHRATE
           /\ rate > 0 => /\ k.first \in Nat /\ k.last \in Nat /\ k.first < k.last /\ work.anchor \in Nat
                          /\ rate * (k.last - k.first) <= work.offered - work.anchor
<1>1. k.first \in Nat \cup {None} /\ k.last \in Nat \cup {None} /\ MAX_HASHRATE \in Nat
  BY Numbers DEF ReqType, Time
<1>2. /\ session.sum \in Nat /\ work.offered \in Nat
      /\ session.sum # 0 => work.anchor \in Nat /\ session.sum <= work.offered - work.anchor
  <2>1. session.sum \in Nat /\ work.offered \in Nat /\ work.anchor \in Nat \cup {None}
    BY DEF EconomyInv, WorkOK, SessionType, WorkType, Time
  <2>2. session.sum # 0 => work.anchor # None
    BY DEF EconomyInv, WorkOK
  <2>3. session.sum + AnchorOf(work) + Owed(miner) <= work.offered /\ Owed(miner) \in Nat
    BY OwedType DEF EconomyInv, ProofsOK
  <2> QED
    BY <2>1, <2>2, <2>3 DEF AnchorOf
<1>3. CASE rate = 0
  BY <1>1, <1>3
<1>4. CASE rate # 0
  <2>1. k.first # None /\ k.last # None /\ session.sum # 0 /\ ~(k.last <= k.first)
    BY <1>4 DEF get_session_hashrate
  <2>2. k.first \in Nat /\ k.last \in Nat
    BY <1>1, <2>1
  <2>3. PICK d : d = k.last - k.first
    OBVIOUS
  <2>4. d \in Nat /\ d # 0
    BY <2>1, <2>2, <2>3
  <2>5. rate = Min({session.sum \div d, MAX_HASHRATE})
    BY <1>4, <2>1, <2>3 DEF get_session_hashrate
  <2>6. session.sum \div d \in Nat /\ (session.sum \div d) * d <= session.sum
    BY <1>2, <2>4, DivType, DivMul
  <2>7. rate \in Nat /\ rate <= session.sum \div d /\ rate <= MAX_HASHRATE
    BY <1>1, <2>5, <2>6, MinOfTwo
  <2>8. rate * d <= (session.sum \div d) * d
    BY <2>4, <2>6, <2>7, MulMono
  <2>9. rate * d \in Nat /\ (session.sum \div d) * d \in Nat
    BY <2>4, <2>6, <2>7, MulType
  <2>10. rate * d <= work.offered - work.anchor /\ work.anchor \in Nat
    BY <1>2, <2>1, <2>6, <2>8, <2>9
  <2>11. k.first < k.last
    BY <2>1, <2>2
  <2> QED
    BY <2>2, <2>3, <2>7, <2>10, <2>11
<1> QED
  BY <1>3, <1>4

\* Request r goes on with a rate.
LEMMA RateTaken ==
    ASSUME EconomyInv, NEW r \in Requests, Stage(r) = "rate", NEW rate \in Nat,
           req[r].kind = "settle" =>
               /\ rate <= MAX_HASHRATE
               /\ rate > 0 => /\ req[r].first \in Nat /\ req[r].last \in Nat
                              /\ req[r].first < req[r].last /\ work.anchor \in Nat
                              /\ rate * (req[r].last - req[r].first) <= work.offered - work.anchor,
           NEW p, p = [Proceed(req[r]) EXCEPT !.rate = rate]
    PROVE  p \in ReqType /\ ReqInv(p, now, aggregator, session, work)
<1>1. PICK k : k = req[r]
  OBVIOUS
<1>2. /\ k \in ReqType /\ ReqInv(k, now, aggregator, session, work)
      /\ k.kind # None /\ k.at \in Nat /\ k.at >= 1
      /\ k.kind = "settle" => k.at \in 3 .. 6
      /\ k.tries = 0 /\ k.result.net = None
  BY <1>1, Underway
<1>3. k.kind = "settle" => k.at = 4
  BY <1>1, <1>2, Stages
<1>4. PICK o : o = Proceed(k)
  OBVIOUS
<1>5. Onward(k, o, k.at + 1) /\ o \in ReqType
  BY <1>2, <1>4, ProceedIs DEF Onward
<1>6. p = [o EXCEPT !.rate = rate]
  BY <1>1, <1>4
<1>7. p \in ReqType
  BY <1>5, <1>6 DEF ReqType
<1>8. /\ p.at = k.at + 1 /\ p.step = "start" /\ p.kind = k.kind /\ p.tries = k.tries
      /\ p.sent = k.sent /\ p.twap = k.twap /\ p.edgeAge = k.edgeAge /\ p.report = k.report
      /\ p.result = k.result /\ p.read = k.read /\ p.boost = k.boost /\ p.rate = rate
      /\ p.first = k.first /\ p.last = k.last
  BY <1>5, <1>6 DEF ReqType, Onward
<1>9. AgeOK(p) /\ BoostOK(p) /\ ResultOK(p, session.commodity)
  BY <1>2, <1>8 DEF ReqInv, AgeOK, BoostOK, ResultOK
<1>10. p.at > k.at
  BY <1>2, <1>8
<1>11. RateOK(p, work)
  <2>1. k.kind = "settle" => p.at = 5
    BY <1>3, <1>8
  <2> QED
    BY <1>1, <1>8, <2>1 DEF RateOK, Covered
<1>12. ReqInv(p, now, aggregator, session, work)
  BY <1>2, <1>7, <1>8, <1>9, <1>10, <1>11, Onwards
<1> QED
  BY <1>7, <1>12

LEMMA ReadSumInv ==
    ASSUME EconomyInv, NEW r \in Requests, ReadSum(r)
    PROVE  EconomyInv'
<1>1. PICK k : k = req[r]
  OBVIOUS
<1>2. Stage(r) = "rate" /\ k \in ReqType /\ k.kind # None /\ k.at \in Nat /\ k.at >= 1
  BY <1>1, Underway DEF ReadSum, At
<1>3. /\ UNCHANGED <<now, chainVars, feed, session, miner, cacheVars, work>>
      /\ Happens \/ Quiet
  BY DEF ReadSum
<1>4. PICK found : found = get_session_hashrate(k)
  OBVIOUS
<1>5. /\ found \in Nat /\ found <= MAX_HASHRATE
      /\ found > 0 => /\ k.first \in Nat /\ k.last \in Nat /\ k.first < k.last /\ work.anchor \in Nat
                      /\ found * (k.last - k.first) <= work.offered - work.anchor
  BY <1>2, <1>4, HashrateCovered
<1>6. PICK p : /\ req' = [req EXCEPT ![r] = p]
               /\ \/ p = [Proceed(k) EXCEPT !.rate = estimate_hashrate(k, found)]
                  \/ p = [Proceed(k) EXCEPT !.rate = estimate_hashrate(k, 0)]
                  \/ k.kind = "sessions" /\ p = Answer(k)
  <2>1. CASE Quiet /\ req' = [req EXCEPT ![r] =
                [Proceed(@) EXCEPT !.rate = estimate_hashrate(req[r], get_session_hashrate(req[r]))]]
    BY <1>1, <1>4, <2>1
  <2>2. CASE Happens /\ req' = [req EXCEPT ![r] = IF @.kind = "sessions" THEN Answer(@)
                                 ELSE [Proceed(@) EXCEPT !.rate = estimate_hashrate(req[r], 0)]]
    BY <1>1, <2>2
  <2> QED
    BY <2>1, <2>2 DEF ReadSum
<1>7. ASSUME NEW rate \in {found, 0}, p = [Proceed(k) EXCEPT !.rate = estimate_hashrate(k, rate)]
      PROVE  p \in ReqType /\ ReqInv(p, now, aggregator, session, work)
  <2>1. PICK e : e = estimate_hashrate(k, rate)
    OBVIOUS
  <2>2. e \in Nat /\ (k.kind = "settle" => e = rate)
    BY <1>5, <2>1, Numbers DEF estimate_hashrate
  <2>3. k.kind = "settle" =>
          /\ e <= MAX_HASHRATE
          /\ e > 0 => /\ k.first \in Nat /\ k.last \in Nat /\ k.first < k.last /\ work.anchor \in Nat
                      /\ e * (k.last - k.first) <= work.offered - work.anchor
    BY <1>5, <2>2, Numbers
  <2>4. p = [Proceed(req[r]) EXCEPT !.rate = e]
    BY <1>1, <1>7, <2>1
  <2> QED
    BY <1>1, <1>2, <2>2, <2>3, <2>4, RateTaken
<1>8. ASSUME k.kind = "sessions", p = Answer(k)
      PROVE  p \in ReqType /\ ReqInv(p, now, aggregator, session, work)
  <2>1. Onward(k, p, Len(Route[k.kind]) + 1)
    BY <1>2, <1>8, AnswerIs
  <2>2. Len(Route[k.kind]) + 1 = 5 /\ k.at = 1
    BY <1>1, <1>2, <1>8, Stages DEF Route
  <2>3. Onward(req[r], p, 5) /\ 5 > req[r].at /\ 5 \in Nat
    BY <1>1, <2>1, <2>2
  <2> QED
    BY <1>2, <2>3, GoesOn
<1>9. p \in ReqType /\ ReqInv(p, now, aggregator, session, work)
  BY <1>6, <1>7, <1>8
<1>10. RequestsOK'
  BY <1>3, <1>6, <1>9, OnlyRequest DEF chainVars
<1>11. events' \in 0 .. MaxEvents
  BY <1>3, EventsStay
<1> QED
  BY <1>3, <1>10, <1>11, OthersStay
-----------------------------------------------------------------------------
(* The stakes.                                                              *)

\* The stakes read so far, with that of chain c.
WithStake(read, c, got) == [x \in DOMAIN read \cup {c} |-> IF x = c THEN got ELSE read[x]]

LEMMA StakesRead ==
    ASSUME NEW k \in ReqType, BoostOK(k), NEW c \in Chain, NEW got \in StakeRead,
           c = "Polygon" => got.lockPeriod = 0, NEW read, read = WithStake(k.read, c, got)
    PROVE  /\ read \in Reads
           /\ "Polygon" \in DOMAIN read => read["Polygon"].lockPeriod = 0
           /\ DOMAIN read = Chain => build_summary(read) \in 0 .. MAX_BOOST_BPS
<1>1. PICK D \in SUBSET Chain : k.read \in [D -> StakeRead]
  BY DEF ReqType, Reads
<1>2. D \cup {c} \in SUBSET Chain /\ read \in [D \cup {c} -> StakeRead]
  BY <1>1 DEF WithStake
<1>3. read \in Reads
  BY <1>2 DEF Reads
<1>4. "Polygon" \in DOMAIN read => read["Polygon"].lockPeriod = 0
  BY <1>1 DEF BoostOK, WithStake
<1>5. DOMAIN read = Chain => build_summary(read) \in 0 .. MAX_BOOST_BPS
  <2> SUFFICES ASSUME DOMAIN read = Chain PROVE build_summary(read) \in 0 .. MAX_BOOST_BPS
    OBVIOUS
  <2>1. read["Ethereum"] \in StakeRead /\ read["Polygon"] \in StakeRead
    BY <1>2, ChainIs
  <2> QED
    BY <2>1, BoostSound DEF build_summary
<1> QED
  BY <1>3, <1>4, <1>5

LEMMA StakingSummaryInv ==
    ASSUME EconomyInv, NEW r \in Requests, NEW c \in Chain, staking_summary(r, c)
    PROVE  EconomyInv'
<1>1. PICK k : k = req[r]
  OBVIOUS
<1>2. Stage(r) = "stake"
  BY DEF staking_summary
<1>3. /\ k \in ReqType /\ ReqInv(k, now, aggregator, session, work)
      /\ k.kind # None /\ k.kind # "reserve" /\ k.at \in Nat /\ k.at >= 1
      /\ k.kind = "settle" => k.at \in 3 .. 6
      /\ k.tries = 0 /\ k.result.net = None
  BY <1>1, <1>2, Underway
<1>4. PICK failed \in BOOLEAN :
        LET got == IF failed THEN NoStake ELSE resolve_chain_stake(stakes[c])
            read == [x \in DOMAIN req[r].read \cup {c} |-> IF x = c THEN got ELSE req[r].read[x]]
        IN  /\ req' = [req EXCEPT ![r] =
                         IF DOMAIN read = Chain
                         THEN [Proceed(@) EXCEPT !.read = read, !.boost = build_summary(read)]
                         ELSE [@ EXCEPT !.read = read]]
            /\ IF failed THEN Happens ELSE Quiet
  BY DEF staking_summary
<1>5. UNCHANGED <<now, chainVars, feed, session, miner, cacheVars, work>>
  BY DEF staking_summary
<1>6. Happens \/ Quiet
  BY <1>4
<1>7. PICK got : got = IF failed THEN NoStake ELSE resolve_chain_stake(stakes[c])
  OBVIOUS
<1>8. got \in StakeRead /\ (c = "Polygon" => got.lockPeriod = 0)
  <2>1. NoStake \in StakeRead /\ NoStake.lockPeriod = 0
    BY DEF NoStake, StakeRead
  <2>2. /\ stakes[c] \in [amount : Nat, lockPeriod : 0 .. 2, unlockAt : Nat, active : BOOLEAN]
        /\ c = "Polygon" => stakes[c].lockPeriod = 0
    BY DEF EconomyInv, ChainOK
  <2>3. resolve_chain_stake(stakes[c]) \in StakeRead
        /\ resolve_chain_stake(stakes[c]).lockPeriod = stakes[c].lockPeriod
    BY <2>2 DEF resolve_chain_stake, StakeRead
  <2> QED
    BY <1>7, <2>1, <2>2, <2>3
<1>9. PICK read : read = WithStake(k.read, c, got)
  OBVIOUS
<1>10. PICK boost : boost = build_summary(read)
  OBVIOUS
<1>11. /\ read \in Reads
       /\ "Polygon" \in DOMAIN read => read["Polygon"].lockPeriod = 0
       /\ DOMAIN read = Chain => boost \in 0 .. MAX_BOOST_BPS
  BY <1>3, <1>8, <1>9, <1>10, StakesRead DEF ReqInv
<1>12. PICK p : /\ req' = [req EXCEPT ![r] = p]
                /\ p = IF DOMAIN read = Chain THEN [Proceed(k) EXCEPT !.read = read, !.boost = boost]
                       ELSE [k EXCEPT !.read = read]
  BY <1>1, <1>4, <1>7, <1>9, <1>10 DEF WithStake
<1>13. p \in ReqType /\ ReqInv(p, now, aggregator, session, work)
  <2>1. CASE DOMAIN read = Chain
    <3>1. PICK o : o = Proceed(k)
      OBVIOUS
    <3>2. Onward(k, o, k.at + 1) /\ o \in ReqType
      BY <1>3, <3>1, ProceedIs DEF Onward
    <3>3. p = [o EXCEPT !.read = read, !.boost = boost]
      BY <1>12, <2>1, <3>1
    <3>4. p \in ReqType
      BY <1>11, <2>1, <3>2, <3>3 DEF ReqType
    <3>5. /\ p.at = k.at + 1 /\ p.step = "start" /\ p.kind = k.kind /\ p.tries = k.tries
          /\ p.sent = k.sent /\ p.twap = k.twap /\ p.edgeAge = k.edgeAge /\ p.report = k.report
          /\ p.result = k.result /\ p.read = read /\ p.boost = boost /\ p.rate = k.rate
          /\ p.first = k.first /\ p.last = k.last
      BY <3>2, <3>3 DEF ReqType, Onward
    <3>6. AgeOK(p) /\ ResultOK(p, session.commodity)
      BY <1>3, <3>5 DEF ReqInv, AgeOK, ResultOK
    <3>7. BoostOK(p)
      BY <1>10, <1>11, <3>5 DEF BoostOK
    <3>8. p.at > k.at /\ p.at >= k.at
      BY <1>3, <3>5
    <3>9. RateOK(p, work)
      BY <1>3, <3>4, <3>5, <3>8, SameRate DEF ReqInv
    <3> QED
      BY <1>3, <3>4, <3>5, <3>6, <3>7, <3>8, <3>9, Onwards
  <2>2. CASE DOMAIN read # Chain
    <3>1. p = [k EXCEPT !.read = read]
      BY <1>12, <2>2
    <3>2. p \in ReqType
      BY <1>3, <1>11, <3>1 DEF ReqType
    <3>3. /\ p.step = k.step /\ p.since = k.since /\ p.at = k.at /\ p.got = k.got
          /\ p.kind = k.kind /\ p.tries = k.tries /\ p.sent = k.sent /\ p.twap = k.twap
          /\ p.edgeAge = k.edgeAge /\ p.report = k.report /\ p.result = k.result
          /\ p.rate = k.rate /\ p.first = k.first /\ p.last = k.last /\ p.read = read
      BY <1>3, <3>1 DEF ReqType
    <3>4. FetchOK(p, now)
      BY <1>3, <3>3 DEF FetchOK, EdgeRead, ReqInv
    <3>5. BoostOK(p)
      BY <1>11, <2>2, <3>3 DEF BoostOK
    <3>6. p.at >= k.at
      BY <1>3, <3>3
    <3>7. RateOK(p, work)
      BY <1>3, <3>2, <3>3, <3>6, SameRate DEF ReqInv
    <3> QED
      BY <1>3, <3>2, <3>3, <3>4, <3>5, <3>7, Stays
  <2> QED
    BY <2>1, <2>2
<1>14. RequestsOK'
  BY <1>5, <1>12, <1>13, OnlyRequest DEF chainVars
<1>15. events' \in 0 .. MaxEvents
  BY <1>6, EventsStay
<1> QED
  BY <1>5, <1>14, <1>15, OthersStay
-----------------------------------------------------------------------------
(* The computations.                                                        *)

LEMMA LastStage ==
    ASSUME NEW p \in ReqType, p.kind # None,
           \/ p.kind = "settle" /\ p.at = 7
           \/ p.kind = "estimate" /\ p.at = 5
           \/ p.kind = "quote" /\ p.at = 3
           \/ p.kind = "sessions" /\ p.at = 5
    PROVE  Finished(p)
<1>1. PICK n : n = Len(Route[p.kind])
  OBVIOUS
<1>2. CASE p.kind = "settle"
  <2>1. n = 6
    BY <1>1, <1>2 DEF Route
  <2>2. p.at = 7
    BY <1>2
  <2> QED
    BY <1>1, <2>1, <2>2 DEF Finished
<1>3. CASE p.kind = "estimate"
  <2>1. n = 4
    BY <1>1, <1>3 DEF Route
  <2>2. p.at = 5
    BY <1>3
  <2> QED
    BY <1>1, <2>1, <2>2 DEF Finished
<1>4. CASE p.kind = "quote"
  <2>1. n = 2
    BY <1>1, <1>4 DEF Route
  <2>2. p.at = 3
    BY <1>4
  <2> QED
    BY <1>1, <2>1, <2>2 DEF Finished
<1>5. CASE p.kind = "sessions"
  <2>1. n = 4
    BY <1>1, <1>5 DEF Route
  <2>2. p.at = 5
    BY <1>5
  <2> QED
    BY <1>1, <2>1, <2>2 DEF Finished
<1> QED
  BY <1>2, <1>3, <1>4, <1>5

\* Request r, with the values of m, ends with a result.
LEMMA Computed ==
    ASSUME EconomyInv, NEW r \in Requests, Stage(r) \in {"pay", "spot", "list"}, NEW m \in ReqType,
           m.kind = req[r].kind, m.at = req[r].at, m.tries = req[r].tries, m.sent = req[r].sent,
           m.edgeAge = req[r].edgeAge, m.report = req[r].report, m.read = req[r].read,
           m.boost = req[r].boost, m.first = req[r].first, m.last = req[r].last,
           req[r].kind = "settle" => m.rate = req[r].rate /\ m.twap = req[r].twap,
           NEW result \in Money, result.net # None => result = Pay(m, session.commodity),
           NEW p, p = [Proceed(m) EXCEPT !.result = result]
    PROVE  p \in ReqType /\ ReqInv(p, now, aggregator, session, work)
<1>1. PICK k : k = req[r]
  OBVIOUS
<1>2. /\ k \in ReqType /\ ReqInv(k, now, aggregator, session, work)
      /\ k.kind # None /\ k.at \in Nat /\ k.at >= 1
      /\ k.kind = "settle" => k.at \in 3 .. 6
      /\ k.tries = 0
  BY <1>1, Underway
<1>3. PICK o : o = Proceed(m)
  OBVIOUS
<1>4. Onward(m, o, m.at + 1) /\ o \in ReqType
  BY <1>3, ProceedIs DEF Onward
<1>5. p = [o EXCEPT !.result = result]
  BY <1>3
<1>6. p \in ReqType
  BY <1>4, <1>5 DEF ReqType
<1>7. /\ p.at = m.at + 1 /\ p.step = "start" /\ p.kind = m.kind /\ p.tries = m.tries
      /\ p.sent = m.sent /\ p.twap = m.twap /\ p.edgeAge = m.edgeAge /\ p.report = m.report
      /\ p.read = m.read /\ p.boost = m.boost /\ p.rate = m.rate /\ p.duration = m.duration
      /\ p.first = m.first /\ p.last = m.last /\ p.edge = m.edge /\ p.result = result
  BY <1>4, <1>5 DEF ReqType, Onward
<1>8. Finished(p)
  <2>1. \/ k.kind = "settle" /\ k.at = 6
        \/ k.kind = "estimate" /\ k.at = 4
        \/ k.kind = "quote" /\ k.at = 2
        \/ k.kind = "sessions" /\ k.at = 4
    BY <1>1, <1>2, Stages
  <2>2. p.kind = k.kind /\ p.at = k.at + 1
    BY <1>1, <1>7
  <2>3. \/ p.kind = "settle" /\ p.at = 7
        \/ p.kind = "estimate" /\ p.at = 5
        \/ p.kind = "quote" /\ p.at = 3
        \/ p.kind = "sessions" /\ p.at = 5
    BY <2>1, <2>2
  <2> QED
    BY <1>2, <1>6, <2>2, <2>3, LastStage
<1>9. Pay(p, session.commodity) = Pay(m, session.commodity)
  BY <1>7 DEF Pay
<1>10. ResultOK(p, session.commodity)
  BY <1>7, <1>8, <1>9 DEF ResultOK
<1>11. AgeOK(p) /\ BoostOK(p)
  BY <1>1, <1>2, <1>7 DEF ReqInv, AgeOK, BoostOK
<1>12. p.at > k.at /\ p.at >= k.at
  BY <1>1, <1>2, <1>7
<1>13. /\ p.kind = k.kind /\ p.tries = 0 /\ p.sent = k.sent /\ p.first = k.first /\ p.last = k.last
       /\ k.kind = "settle" => p.rate = k.rate /\ p.twap = k.twap
  BY <1>1, <1>2, <1>7
<1>14. RateOK(p, work)
  <2>1. CASE k.kind = "settle"
    BY <1>2, <1>6, <1>12, <1>13, <2>1, SameRate DEF ReqInv
  <2>2. CASE k.kind # "settle"
    BY <1>13, <2>2 DEF RateOK
  <2> QED
    BY <2>1, <2>2
<1>15. ReqInv(p, now, aggregator, session, work)
  BY <1>2, <1>6, <1>7, <1>10, <1>11, <1>12, <1>13, <1>14, Onwards
<1> QED
  BY <1>6, <1>15

LEMMA SettledIsPay == ASSUME NEW k PROVE settled(k) = Pay(k, session.commodity)
BY DEF settled, Pay

LEMMA SettleInv ==
    ASSUME EconomyInv, NEW r \in Requests, settle(r)
    PROVE  EconomyInv'
<1>1. PICK k : k = req[r]
  OBVIOUS
<1>2. Stage(r) = "pay" /\ k \in ReqType /\ session.commodity \in Commodities
  BY <1>1, Locals DEF settle, At, SessionType
<1>3. PICK result : result = settled(k)
  OBVIOUS
<1>4. result \in Money /\ result = Pay(k, session.commodity)
  BY <1>2, <1>3, SettledIsPay, PayType
<1>5. PICK p : p = [Proceed(k) EXCEPT !.result = result]
  OBVIOUS
<1>6. /\ req' = [req EXCEPT ![r] = p]
      /\ UNCHANGED <<now, chainVars, feed, session, miner, cacheVars, events, work>>
  BY <1>1, <1>3, <1>5 DEF settle
<1>7. p \in ReqType /\ ReqInv(p, now, aggregator, session, work)
  BY <1>1, <1>2, <1>4, <1>5, Computed
<1>8. RequestsOK'
  BY <1>6, <1>7, OnlyRequest DEF chainVars
<1>9. events' \in 0 .. MaxEvents
  BY <1>6 DEF EconomyInv
<1> QED
  BY <1>6, <1>8, <1>9, OthersStay

LEMMA EstimateInv ==
    ASSUME EconomyInv, NEW r \in Requests, estimate(r)
    PROVE  EconomyInv'
<1>1. PICK k : k = req[r]
  OBVIOUS
<1>2. Stage(r) = "spot" /\ k \in ReqType /\ session.commodity \in Commodities /\ k.kind # "settle"
  BY <1>1, Locals, Stages DEF estimate, At, SessionType
<1>3. PICK failed \in BOOLEAN :
        LET price == IF failed THEN NoPrice ELSE read_price(session.commodity, feed)
            m == [req[r] EXCEPT !.duration = ESTIMATE_DURATION,
                                !.rate = IF req[r].kind = "quote" THEN REF_HASHRATE ELSE @,
                                !.twap = IF price = NoPrice THEN 0 ELSE price]
        IN  /\ req' = [req EXCEPT ![r] = [Proceed(m) EXCEPT !.result = estimated(m, price)]]
            /\ IF failed THEN Happens ELSE Quiet
  BY DEF estimate
<1>4. UNCHANGED <<now, chainVars, feed, session, miner, cacheVars, work>>
  BY DEF estimate
<1>5. Happens \/ Quiet
  BY <1>3
<1>6. PICK price : price = IF failed THEN NoPrice ELSE read_price(session.commodity, feed)
  OBVIOUS
<1>7. price \in Nat \cup {NoPrice}
  <2>1. feed \in RawPrices
    BY DEF EconomyInv, ChainOK
  <2> QED
    BY <1>6, <2>1, ReadPriceType
<1>8. PICK rate, twap : /\ rate = IF k.kind = "quote" THEN REF_HASHRATE ELSE k.rate
                        /\ twap = IF price = NoPrice THEN 0 ELSE price
  OBVIOUS
<1>9. rate \in Nat /\ twap \in Nat /\ ESTIMATE_DURATION \in Nat
  BY <1>2, <1>7, <1>8, Numbers DEF ReqType
<1>10. PICK m : m = [k EXCEPT !.duration = ESTIMATE_DURATION, !.rate = rate, !.twap = twap]
  OBVIOUS
<1>11. m \in ReqType
  BY <1>2, <1>9, <1>10 DEF ReqType
<1>12. /\ m.kind = k.kind /\ m.at = k.at /\ m.tries = k.tries /\ m.sent = k.sent
       /\ m.edgeAge = k.edgeAge /\ m.report = k.report /\ m.read = k.read /\ m.boost = k.boost
       /\ m.first = k.first /\ m.last = k.last /\ m.twap = twap
  BY <1>2, <1>10 DEF ReqType
<1>13. PICK result : result = estimated(m, price)
  OBVIOUS
<1>14. result \in Money /\ (result.net # None => result = Pay(m, session.commodity))
  <2>1. CASE price = NoPrice
    <3>1. PICK boosted : boosted = apply_staking_boost(
              calculate_gross_prm(m.rate, m.duration, session.commodity), m.boost)
      OBVIOUS
    <3>2. m.rate \in Nat /\ m.duration \in Nat /\ m.boost \in 0 .. MAX_BOOST_BPS
      BY <1>11 DEF ReqType
    <3>3. boosted \in Nat
      BY <1>2, <3>1, <3>2, GrossType, BoostedType
    <3>4. result = [gross |-> boosted, redemption |-> 0, net |-> None]
      BY <1>13, <2>1, <3>1 DEF estimated, NoResult
    <3> QED
      BY <3>3, <3>4 DEF Money
  <2>2. CASE price # NoPrice
    <3>1. result = Pay(m, session.commodity)
      BY <1>8, <1>12, <1>13, <2>2 DEF estimated, Pay
    <3> QED
      BY <1>2, <1>11, <3>1, PayType
  <2> QED
    BY <2>1, <2>2
<1>15. PICK p : p = [Proceed(m) EXCEPT !.result = result]
  OBVIOUS
<1>16. req' = [req EXCEPT ![r] = p]
  <2>1. m = [req[r] EXCEPT !.duration = ESTIMATE_DURATION,
                           !.rate = IF req[r].kind = "quote" THEN REF_HASHRATE ELSE @,
                           !.twap = IF price = NoPrice THEN 0 ELSE price]
    BY <1>1, <1>8, <1>10
  <2> QED
    BY <1>3, <1>6, <1>13, <1>15, <2>1
<1>17. p \in ReqType /\ ReqInv(p, now, aggregator, session, work)
  BY <1>1, <1>2, <1>11, <1>12, <1>14, <1>15, Computed
<1>18. RequestsOK'
  BY <1>4, <1>16, <1>17, OnlyRequest DEF chainVars
<1>19. events' \in 0 .. MaxEvents
  BY <1>5, EventsStay
<1> QED
  BY <1>4, <1>18, <1>19, OthersStay

LEMMA WalletSessionsInv ==
    ASSUME EconomyInv, NEW r \in Requests, wallet_sessions(r)
    PROVE  EconomyInv'
<1>1. PICK k : k = req[r]
  OBVIOUS
<1>2. /\ Stage(r) = "list" /\ k \in ReqType /\ session \in SessionType /\ now \in Nat
      /\ session.commodity \in Commodities /\ session.samples \in Seq(Nat)
      /\ k.kind = "sessions" /\ k.at = 4
  BY <1>1, Locals, Stages DEF wallet_sessions, At, SessionType
<1>3. PICK twap : twap = IF session.samples = <<>> THEN 0 ELSE calculate(session.samples)
  OBVIOUS
<1>4. twap \in Nat
  BY <1>2, <1>3, AverageWithin
<1>5. PICK m : m = [k EXCEPT !.duration = now, !.twap = twap]
  OBVIOUS
<1>6. m \in ReqType
  BY <1>2, <1>4, <1>5 DEF ReqType
<1>7. /\ m.kind = k.kind /\ m.at = k.at /\ m.tries = k.tries /\ m.sent = k.sent
      /\ m.edgeAge = k.edgeAge /\ m.report = k.report /\ m.read = k.read /\ m.boost = k.boost
      /\ m.first = k.first /\ m.last = k.last
  BY <1>2, <1>5 DEF ReqType
<1>8. PICK result : result = Pay(m, session.commodity)
  OBVIOUS
<1>9. result \in Money
  BY <1>2, <1>6, <1>8, PayType
<1>10. PICK p : /\ req' = [req EXCEPT ![r] = p]
                /\ p \in {Proceed(k), [Proceed(m) EXCEPT !.result = result]}
  <2>1. m = [req[r] EXCEPT !.duration = now,
                           !.twap = IF session.samples = <<>> THEN 0 ELSE calculate(session.samples)]
    BY <1>1, <1>3, <1>5
  <2>2. PICK priced : priced = (session.live /\ session.samples # <<>> /\ now > 0 /\ m.rate > 0)
    OBVIOUS
  <2>3. req' = [req EXCEPT ![r] = IF ~priced THEN Proceed(@) ELSE [Proceed(m) EXCEPT !.result = listed(m)]]
    BY <2>1, <2>2 DEF wallet_sessions
  <2>4. listed(m) = result
    BY <1>8 DEF listed, Pay
  <2> QED
    BY <1>1, <2>3, <2>4
<1>11. UNCHANGED <<now, chainVars, feed, session, miner, cacheVars, events, work>>
  BY DEF wallet_sessions
<1>12. p \in ReqType /\ ReqInv(p, now, aggregator, session, work)
  <2>1. CASE p = Proceed(k)
    <3>1. Onward(req[r], p, k.at + 1)
      BY <1>1, <1>2, <2>1, ProceedIs
    <3>2. k.at + 1 \in Nat /\ k.at + 1 > req[r].at
      BY <1>1, <1>2
    <3> QED
      BY <1>2, <3>1, <3>2, GoesOn
  <2>2. CASE p = [Proceed(m) EXCEPT !.result = result]
    BY <1>1, <1>2, <1>6, <1>7, <1>8, <1>9, <2>2, Computed
  <2> QED
    BY <1>10, <2>1, <2>2
<1>13. RequestsOK'
  BY <1>10, <1>11, <1>12, OnlyRequest DEF chainVars
<1>14. events' \in 0 .. MaxEvents
  BY <1>11 DEF EconomyInv
<1> QED
  BY <1>11, <1>13, <1>14, OthersStay
-----------------------------------------------------------------------------
(* The reserves.                                                            *)

LEMMA Reporting ==
    ASSUME EconomyInv, NEW r \in Requests, NEW k, k = req[r], Stage(r) = "reserve"
    PROVE  /\ k \in ReqType /\ ReqInv(k, now, aggregator, session, work) /\ now \in Nat
           /\ k.kind = "reserve" /\ k.kind # None /\ k.at = 1 /\ ReserveRead(k, now)
           /\ k.tries = 0 /\ k.result.net = None
           /\ Head(k.todo) \in Chain /\ Tail(k.todo) \in Todos
           /\ k.step \in {"rpc", "store"} => k.since <= now /\ now <= k.since + MaxFetch
<1>1. /\ k \in ReqType /\ ReqInv(k, now, aggregator, session, work) /\ now \in Nat
      /\ k.kind # None => k.at >= 1
  BY Locals
<1>2. k.kind = "reserve" /\ k.at = 1 /\ ~Finished(k) /\ k.kind # None
  BY <1>1, Stages
<1>3. ReserveRead(k, now) /\ (k.step \in {"rpc", "store"} => k.since <= now /\ now <= k.since + MaxFetch)
  BY <1>1, <1>2 DEF ReqInv, FetchOK
<1>4. k.tries = 0 /\ k.result.net = None
  BY <1>1, <1>2 DEF ReqInv, SubmitOK, Submitting, ResultOK
<1>5. Head(k.todo) \in Chain /\ Tail(k.todo) \in Todos
  BY <1>1, <1>3, HeadIn DEF ReserveRead
<1> QED
  BY <1>1, <1>2, <1>3, <1>4, <1>5

\* Nothing but the reports matters to the report of the reserves.
LEMMA ReportKept ==
    ASSUME NEW k \in ReqType, NEW p \in ReqType, NEW t, NEW ag, NEW s, NEW w,
           ReqInv(k, t, ag, s, w), k.kind = "reserve", k.tries = 0, k.result.net = None,
           p.kind = k.kind, p.tries = k.tries, p.sent = k.sent, p.result = k.result,
           p.read = k.read, p.boost = k.boost, AgeOK(p), FetchOK(p, t)
    PROVE  ReqInv(p, t, ag, s, w)
<1>1. SubmitOK(p, ag)
  BY DEF SubmitOK, Submitting, ReqInv
<1>2. PriceOK(p, s) /\ RateOK(p, w)
  BY DEF PriceOK, RateOK
<1>3. BoostOK(p) /\ ResultOK(p, s.commodity)
  BY DEF BoostOK, ResultOK, ReqInv
<1> QED
  BY <1>1, <1>2, <1>3 DEF ReqInv

\* The reports so far, with that of chain c.
WithReport(report, c, balances) ==
    [x \in DOMAIN report \cup {c} |-> IF x = c THEN balances ELSE report[x]]

LEMMA ReportedInv ==
    ASSUME EconomyInv, NEW r \in Requests, Stage(r) = "reserve", NEW b \in Balances \cup {None},
           b # None => Young(b.age), NEW p, p = Reported(req[r], b)
    PROVE  p \in ReqType /\ ReqInv(p, now, aggregator, session, work)
<1>1. PICK k : k = req[r]
  OBVIOUS
<1>2. /\ k \in ReqType /\ ReqInv(k, now, aggregator, session, work)
      /\ k.kind = "reserve" /\ k.kind # None /\ k.at = 1
      /\ k.tries = 0 /\ k.result.net = None
      /\ Head(k.todo) \in Chain /\ Tail(k.todo) \in Todos
  BY <1>1, Reporting
<1>3. PICK c, todo : c = Head(k.todo) /\ todo = Tail(k.todo)
  OBVIOUS
<1>4. PICK report : report = WithReport(k.report, c, b)
  OBVIOUS
<1>5. report \in Reports /\ \A x \in DOMAIN report : report[x] # None => Young(report[x].age)
  <2>1. PICK D \in SUBSET Chain : k.report \in [D -> Balances \cup {None}]
    BY <1>2 DEF ReqType, Reports
  <2>2. D \cup {c} \in SUBSET Chain /\ report \in [D \cup {c} -> Balances \cup {None}]
    BY <1>2, <1>3, <1>4, <2>1 DEF WithReport
  <2>3. \A x \in D : k.report[x] # None => Young(k.report[x].age)
    BY <1>2, <2>1 DEF ReqInv, AgeOK
  <2>4. \A x \in DOMAIN report : report[x] # None => Young(report[x].age)
    BY <1>4, <2>1, <2>3 DEF WithReport
  <2> QED
    BY <2>2, <2>4 DEF Reports
<1>6. PICK q : q = [k EXCEPT !.report = report, !.todo = todo, !.step = "start", !.got = <<>>, !.since = 0]
  OBVIOUS
<1>7. p = Loop(q)
  BY <1>1, <1>3, <1>4, <1>6 DEF Reported, WithReport
<1>8. q \in ReqType
  <2>1. <<>> \in Gots /\ "start" \in Steps /\ 0 \in Nat
    BY DEF Gots, Steps
  <2> QED
    BY <1>2, <1>3, <1>5, <1>6, <2>1 DEF ReqType
<1>9. /\ q.kind = k.kind /\ q.at = 1 /\ q.step = "start" /\ q.got = <<>> /\ q.report = report
      /\ q.tries = k.tries /\ q.sent = k.sent /\ q.result = k.result /\ q.read = k.read
      /\ q.boost = k.boost /\ q.edgeAge = k.edgeAge
  BY <1>2, <1>6 DEF ReqType
<1>10. CASE q.todo = <<>>
  <2>1. p = Proceed(q)
    BY <1>7, <1>10 DEF Loop
  <2>2. Onward(q, p, q.at + 1)
    BY <1>8, <2>1, ProceedIs
  <2>3. /\ p \in ReqType /\ p.kind = k.kind /\ p.at = 2 /\ p.step = "start" /\ p.report = report
        /\ p.tries = k.tries /\ p.sent = k.sent /\ p.result = k.result /\ p.read = k.read
        /\ p.boost = k.boost /\ p.edgeAge = k.edgeAge
    BY <1>9, <2>2 DEF Onward
  <2>4. AgeOK(p)
    BY <1>2, <1>5, <2>3 DEF AgeOK, ReqInv
  <2>5. FetchOK(p, now)
    BY <1>2, <2>3 DEF FetchOK
  <2> QED
    BY <1>2, <2>3, <2>4, <2>5, ReportKept
<1>11. CASE q.todo # <<>>
  <2>1. p = q
    BY <1>7, <1>11 DEF Loop
  <2>2. AgeOK(q)
    BY <1>2, <1>5, <1>9 DEF AgeOK, ReqInv
  <2>3. FetchOK(q, now)
    BY <1>2, <1>9, <1>11 DEF FetchOK, ReserveRead
  <2>4. ReqInv(q, now, aggregator, session, work)
    BY <1>2, <1>8, <1>9, <2>2, <2>3, ReportKept
  <2> QED
    BY <1>8, <2>1, <2>4
<1> QED
  BY <1>10, <1>11

LEMMA CachedReserveInv ==
    ASSUME EconomyInv, NEW r \in Requests, CachedReserve(r)
    PROVE  EconomyInv'
<1>1. PICK k : k = req[r]
  OBVIOUS
<1>2. Stage(r) = "reserve" /\ k.step = "start"
  BY <1>1 DEF CachedReserve, At
<1>3. /\ k \in ReqType /\ ReqInv(k, now, aggregator, session, work) /\ now \in Nat
      /\ k.kind = "reserve" /\ k.kind # None /\ k.at = 1 /\ ReserveRead(k, now)
      /\ k.tries = 0 /\ k.result.net = None
      /\ Head(k.todo) \in Chain
  BY <1>1, <1>2, Reporting
<1>4. PICK cached : cached = reserveCache[Head(k.todo)]
  OBVIOUS
<1>5. PICK p : /\ req' = [req EXCEPT ![r] = p]
               /\ p = IF Current(cached)
                      THEN Reported(k, [cached.balances EXCEPT !.age = now - cached.read_at])
                      ELSE [k EXCEPT !.step = "rpc", !.since = now]
  BY <1>1, <1>4 DEF CachedReserve
<1>6. UNCHANGED <<now, chainVars, feed, session, miner, cacheVars, events, work>>
  BY DEF CachedReserve
<1>7. p \in ReqType /\ ReqInv(p, now, aggregator, session, work)
  <2>1. CASE Current(cached)
    <3>1. cached \in ReserveEntry /\ Recent(cached, now)
      BY <1>3, <1>4, <2>1 DEF EconomyInv, CachesOK, Current
    <3>2. PICK age : age = now - cached.read_at
      OBVIOUS
    <3>3. cached.balances \in Balances /\ age \in Nat /\ Young(age)
      BY <1>3, <2>1, <3>1, <3>2, CachedAge DEF ReserveEntry
    <3>4. PICK b : b = [cached.balances EXCEPT !.age = age]
      OBVIOUS
    <3>5. b \in Balances /\ b.age = age
      BY <3>3, <3>4 DEF Balances
    <3>6. p = Reported(req[r], b)
      BY <1>1, <1>5, <2>1, <3>2, <3>4
    <3> QED
      BY <1>2, <3>3, <3>5, <3>6, ReportedInv
  <2>2. CASE ~Current(cached)
    <3>1. p = [k EXCEPT !.step = "rpc", !.since = now]
      BY <1>5, <2>2
    <3>2. p \in ReqType
      BY <1>3, <3>1 DEF ReqType, Steps
    <3>3. /\ p.step = "rpc" /\ p.since = now /\ p.at = k.at /\ p.got = k.got /\ p.todo = k.todo
          /\ p.kind = k.kind /\ p.tries = k.tries /\ p.sent = k.sent /\ p.edgeAge = k.edgeAge
          /\ p.report = k.report /\ p.result = k.result /\ p.read = k.read /\ p.boost = k.boost
      BY <1>3, <3>1 DEF ReqType
    <3>4. ReserveRead(p, now)
      <4>1. k.got = <<>> /\ k.todo # <<>>
        BY <1>2, <1>3 DEF ReserveRead
      <4> QED
        BY <3>3, <4>1 DEF ReserveRead
    <3>5. FetchOK(p, now)
      BY <1>3, <3>3, <3>4, Numbers DEF FetchOK
    <3>6. AgeOK(p)
      BY <1>3, <3>3 DEF AgeOK, ReqInv
    <3> QED
      BY <1>3, <3>2, <3>3, <3>5, <3>6, ReportKept
  <2> QED
    BY <2>1, <2>2
<1>8. RequestsOK'
  BY <1>5, <1>6, <1>7, OnlyRequest DEF chainVars
<1>9. events' \in 0 .. MaxEvents
  BY <1>6 DEF EconomyInv
<1> QED
  BY <1>6, <1>8, <1>9, OthersStay

LEMMA Elements ==
    ASSUME NEW s \in Seq(Nat)
    PROVE  /\ Len(s) \in Nat /\ (s = <<>> <=> Len(s) = 0)
           /\ \A i \in 1 .. Len(s) : s[i] \in Nat
OBVIOUS

LEMMA Appended ==
    ASSUME NEW s \in Seq(Nat), s # <<>>, NEW v \in Nat
    PROVE  /\ Append(s, v) \in Seq(Nat) /\ Append(s, v) # <<>>
           /\ Len(Append(s, v)) = Len(s) + 1 /\ Append(s, v)[1] = s[1]
<1>1. Len(s) \in Nat /\ Len(s) >= 1
  BY Elements
<1>2. Append(s, v) \in Seq(Nat) /\ Len(Append(s, v)) = Len(s) + 1
  OBVIOUS
<1>3. Append(s, v)[1] = s[1]
  BY <1>1
<1>4. Append(s, v) # <<>>
  BY <1>1, <1>2, Elements
<1> QED
  BY <1>2, <1>3, <1>4

LEMMA Four ==
    ASSUME NEW s \in Seq(Nat), Len(s) = 4
    PROVE  \A i \in 1 .. 4 : s[i] \in Nat
<1>1. \A i \in 1 .. Len(s) : s[i] \in Nat
  BY Elements
<1> QED
  BY <1>1, Zenon

LEMMA Five ==
    ASSUME NEW s \in Seq(Nat), Len(s) = 5
    PROVE  /\ s # <<>>
           /\ s[1] \in Nat /\ s[2] \in Nat /\ s[3] \in Nat /\ s[4] \in Nat /\ s[5] \in Nat
<1>1. \A i \in 1 .. Len(s) : s[i] \in Nat
  BY Elements
<1>2. \A i \in 1 .. 5 : s[i] \in Nat
  BY <1>1, Zenon
<1>3. 1 \in 1 .. 5 /\ 2 \in 1 .. 5 /\ 3 \in 1 .. 5 /\ 4 \in 1 .. 5 /\ 5 \in 1 .. 5 /\ 5 # 0
  OBVIOUS
<1>4. s # <<>>
  BY <1>3, Elements, Zenon
<1> QED
  BY <1>2, <1>3, <1>4, Zenon

LEMMA UpToFour ==
    ASSUME NEW s \in Seq(Nat), s # <<>>, Len(s) <= 4
    PROVE  Len(s) \in 1 .. 4
<1>1. Len(s) \in Nat /\ Len(s) # 0
  BY Elements
<1>2. \A n \in Nat : n # 0 /\ n <= 4 => n \in 1 .. 4
  OBVIOUS
<1> QED
  BY <1>1, <1>2, Zenon

LEMMA UpToFive ==
    ASSUME NEW s \in Seq(Nat), Len(s) <= 5, Len(s) # 5
    PROVE  Len(s) <= 4
<1>1. Len(s) \in Nat
  BY Elements
<1>2. \A n \in Nat : n <= 5 /\ n # 5 => n <= 4
  OBVIOUS
<1> QED
  BY <1>1, <1>2, Zenon

\* A value that was read within the time a fetch may take.
LEMMA Fetched ==
    ASSUME NEW since \in Nat, NEW g \in Nat, NEW t \in Nat, since <= g, g <= t, t <= since + MaxFetch
    PROVE  t - g \in Nat /\ Young(t - g) /\ t <= g + MaxFetch
BY Numbers DEF Young

\* The first value is read, with the time.
LEMMA FirstOne ==
    ASSUME NEW t \in Nat, NEW v \in Nat
    PROVE  <<t, v>> \in Gots /\ <<t, v>> # <<>> /\ Len(<<t, v>>) <= 5 /\ <<t, v>>[1] = t
BY DEF Gots

\* One more value is read.
LEMMA OneMore ==
    ASSUME NEW got \in Gots, got # <<>>, Len(got) <= 4, NEW v \in Nat
    PROVE  /\ Append(got, v) \in Gots /\ Append(got, v) # <<>> /\ Len(Append(got, v)) <= 5
           /\ Append(got, v)[1] = got[1]
<1>1. got \in Seq(Nat)
  BY DEF Gots
<1>2. /\ Append(got, v) \in Seq(Nat) /\ Append(got, v) # <<>>
      /\ Len(Append(got, v)) = Len(got) + 1 /\ Append(got, v)[1] = got[1]
  BY <1>1, Appended
<1>3. Len(got) \in Nat
  BY <1>1, Elements
<1> QED
  BY <1>2, <1>3 DEF Gots

LEMMA ReadBalancesInv ==
    ASSUME EconomyInv, NEW r \in Requests, read_balances(r)
    PROVE  EconomyInv'
<1>1. PICK k : k = req[r]
  OBVIOUS
<1>2. Stage(r) = "reserve" /\ k.step = "rpc"
  BY <1>1 DEF read_balances, At
<1>3. /\ k \in ReqType /\ ReqInv(k, now, aggregator, session, work) /\ now \in Nat
      /\ k.kind = "reserve" /\ k.kind # None /\ k.at = 1 /\ ReserveRead(k, now)
      /\ k.tries = 0 /\ k.result.net = None
      /\ Head(k.todo) \in Chain
      /\ k.since <= now /\ now <= k.since + MaxFetch
  BY <1>1, <1>2, Reporting
<1>4. PICK t : t = treasury[Head(k.todo)]
  OBVIOUS
<1>5. PICK values : values = <<t.usdc, t.usdt, t.usdc + t.usdt, t.redeemed>>
  OBVIOUS
<1>6. values \in Seq(Nat) /\ Len(values) = 4
  <2>1. t \in [usdc : Nat, usdt : Nat, redeemed : Nat]
    BY <1>3, <1>4 DEF EconomyInv, ChainOK
  <2>2. t.usdc \in Nat /\ t.usdt \in Nat /\ t.usdc + t.usdt \in Nat /\ t.redeemed \in Nat
    BY <2>1
  <2> QED
    BY <1>5, <2>2
<1>7. PICK got : got = IF k.got = <<>> THEN <<now, values[1]>> ELSE Append(k.got, values[Len(k.got)])
  OBVIOUS
<1>8. got \in Gots /\ got # <<>> /\ Len(got) <= 5 /\ k.since <= got[1] /\ got[1] <= now
  <2>1. PICK had : had = k.got
    OBVIOUS
  <2>2. /\ had \in Gots /\ k.since \in Nat /\ Len(had) <= 4
        /\ had # <<>> => k.since <= had[1] /\ had[1] <= now
    BY <1>2, <1>3, <2>1 DEF ReserveRead, ReqType
  <2>3. CASE had = <<>>
    <3>1. PICK v : v = values[1]
      OBVIOUS
    <3>2. v \in Nat
      BY <1>6, <3>1, Four
    <3>3. got = <<now, v>>
      BY <1>7, <2>1, <2>3, <3>1
    <3>4. <<now, v>> \in Gots /\ <<now, v>> # <<>> /\ Len(<<now, v>>) <= 5 /\ <<now, v>>[1] = now
      BY <1>3, <3>2, FirstOne
    <3>5. got \in Gots /\ got # <<>> /\ Len(got) <= 5 /\ got[1] = now
      BY <3>3, <3>4
    <3> QED
      BY <1>3, <3>5
  <2>4. CASE had # <<>>
    <3>1. PICK n : n = Len(had)
      OBVIOUS
    <3>2. had \in Seq(Nat)
      BY <2>2 DEF Gots
    <3>3. n \in 1 .. 4
      BY <2>2, <2>4, <3>1, <3>2, UpToFour
    <3>4. PICK v : v = values[n]
      OBVIOUS
    <3>5. v \in Nat
      BY <1>6, <3>3, <3>4, Four
    <3>6. got = Append(had, v)
      BY <1>7, <2>1, <2>4, <3>1, <3>4
    <3>7. /\ Append(had, v) \in Gots /\ Append(had, v) # <<>> /\ Len(Append(had, v)) <= 5
          /\ Append(had, v)[1] = had[1]
      BY <2>2, <2>4, <3>5, OneMore
    <3>8. got \in Gots /\ got # <<>> /\ Len(got) <= 5 /\ got[1] = had[1]
      BY <3>6, <3>7
    <3> QED
      BY <2>2, <2>4, <3>8
  <2> QED
    BY <2>3, <2>4
<1>9. PICK step : step = IF Len(got) = 5 THEN "store" ELSE "rpc"
  OBVIOUS
<1>10. PICK p : /\ req' = [req EXCEPT ![r] = p]
                /\ p \in {[k EXCEPT !.got = got, !.step = step], Reported(k, None)}
  <2>1. got = IF req[r].got = <<>> THEN <<now, values[1]>>
              ELSE Append(req[r].got, values[Len(req[r].got)])
    BY <1>1, <1>7
  <2>2. values = <<treasury[Head(req[r].todo)].usdc, treasury[Head(req[r].todo)].usdt,
                   treasury[Head(req[r].todo)].usdc + treasury[Head(req[r].todo)].usdt,
                   treasury[Head(req[r].todo)].redeemed>>
    BY <1>1, <1>4, <1>5
  <2>3. \/ req' = [req EXCEPT ![r] = [@ EXCEPT !.got = got, !.step = IF Len(got) = 5 THEN "store" ELSE "rpc"]]
        \/ req' = [req EXCEPT ![r] = Reported(@, None)]
    BY <2>1, <2>2 DEF read_balances
  <2> QED
    BY <1>1, <1>9, <2>3
<1>11. UNCHANGED <<now, chainVars, feed, session, miner, cacheVars, work>> /\ (Happens \/ Quiet)
  BY DEF read_balances
<1>12. p \in ReqType /\ ReqInv(p, now, aggregator, session, work)
  <2>1. CASE p = [k EXCEPT !.got = got, !.step = step]
    <3>1. step \in {"rpc", "store"} /\ step \in Steps
      BY <1>9 DEF Steps
    <3>2. p \in ReqType
      BY <1>3, <1>8, <2>1, <3>1 DEF ReqType
    <3>3. /\ p.step = step /\ p.since = k.since /\ p.at = k.at /\ p.got = got /\ p.todo = k.todo
          /\ p.kind = k.kind /\ p.tries = k.tries /\ p.sent = k.sent /\ p.edgeAge = k.edgeAge
          /\ p.report = k.report /\ p.result = k.result /\ p.read = k.read /\ p.boost = k.boost
      BY <1>3, <2>1 DEF ReqType
    <3>4. ReserveRead(p, now)
      <4>1. k.todo # <<>>
        BY <1>3 DEF ReserveRead
      <4>2. step = "store" => Len(got) = 5
        BY <1>9
      <4>3. step = "rpc" => Len(got) <= 4
        <5>1. step = "rpc" => Len(got) # 5
          BY <1>9
        <5>2. got \in Seq(Nat) /\ Len(got) <= 5
          BY <1>8 DEF Gots
        <5> QED
          BY <5>1, <5>2, UpToFive
      <4> QED
        BY <1>8, <3>1, <3>3, <4>1, <4>2, <4>3 DEF ReserveRead
    <3>5. FetchOK(p, now)
      BY <1>3, <3>3, <3>4 DEF FetchOK
    <3>6. AgeOK(p)
      BY <1>3, <3>3 DEF AgeOK, ReqInv
    <3> QED
      BY <1>3, <3>2, <3>3, <3>5, <3>6, ReportKept
  <2>2. CASE p = Reported(k, None)
    BY <1>1, <1>2, <2>2, ReportedInv
  <2> QED
    BY <1>10, <2>1, <2>2
<1>13. RequestsOK'
  BY <1>10, <1>11, <1>12, OnlyRequest DEF chainVars
<1>14. events' \in 0 .. MaxEvents
  BY <1>11, EventsStay
<1> QED
  BY <1>11, <1>13, <1>14, OthersStay

LEMMA ReserveBalancesInv ==
    ASSUME EconomyInv, NEW r \in Requests, reserve_balances(r)
    PROVE  EconomyInv'
<1>1. PICK k : k = req[r]
  OBVIOUS
<1>2. Stage(r) = "reserve" /\ k.step = "store"
  BY <1>1 DEF reserve_balances, At
<1>3. /\ k \in ReqType /\ now \in Nat /\ ReserveRead(k, now) /\ Head(k.todo) \in Chain
      /\ now <= k.since + MaxFetch
  BY <1>1, <1>2, Reporting
<1>4. PICK got : got = k.got
  OBVIOUS
<1>5. /\ got \in Seq(Nat) /\ Len(got) = 5 /\ k.since \in Nat
      /\ k.since <= got[1] /\ got[1] <= now
  <2>1. got \in Seq(Nat) /\ Len(got) = 5 /\ k.since \in Nat
    BY <1>2, <1>3, <1>4 DEF ReserveRead, ReqType, Gots
  <2>2. got # <<>>
    BY <2>1, Five
  <2> QED
    BY <1>3, <1>4, <2>1, <2>2 DEF ReserveRead
<1>6. got[1] \in Nat /\ got[2] \in Nat /\ got[3] \in Nat /\ got[4] \in Nat /\ got[5] \in Nat
  BY <1>5, Five
<1>7. PICK balances : balances = [usdc |-> got[2], usdt |-> got[3], total |-> got[4],
                                  redeemed |-> got[5], age |-> 0]
  OBVIOUS
<1>8. balances \in Balances
  BY <1>6, <1>7 DEF Balances
<1>9. PICK age, g : g = got[1] /\ age = now - g
  OBVIOUS
<1>10. g \in Nat /\ g <= now /\ age \in Nat /\ Young(age) /\ now <= g + MaxFetch
  <2>1. g \in Nat /\ k.since <= g /\ g <= now
    BY <1>5, <1>6, <1>9
  <2> QED
    BY <1>3, <1>5, <1>9, <2>1, Fetched
<1>11. PICK b : b = [balances EXCEPT !.age = age]
  OBVIOUS
<1>12. b \in Balances /\ b.age = age
  BY <1>8, <1>10, <1>11 DEF Balances
<1>13. PICK entry : entry = [balances |-> balances, fetched_at |-> now, read_at |-> g]
  OBVIOUS
<1>14. PICK p : p = Reported(k, b)
  OBVIOUS
<1>15. /\ reserveCache' = [reserveCache EXCEPT ![Head(k.todo)] = entry]
       /\ req' = [req EXCEPT ![r] = p]
       /\ UNCHANGED <<now, chainVars, feed, session, miner, edgeCache, events, work>>
  BY <1>1, <1>4, <1>7, <1>9, <1>11, <1>13, <1>14 DEF reserve_balances
<1>16. p \in ReqType /\ ReqInv(p, now, aggregator, session, work)
  BY <1>1, <1>2, <1>10, <1>12, <1>14, ReportedInv
<1>17. RequestsOK'
  BY <1>15, <1>16, OnlyRequest DEF chainVars
<1>18. CachesOK'
  <2>1. entry \in ReserveEntry
    BY <1>3, <1>8, <1>10, <1>13 DEF ReserveEntry
  <2>2. Recent(entry, now)
    BY <1>3, <1>10, <1>13 DEF Recent
  <2>3. /\ edgeCache \in {None} \cup EdgeEntry
        /\ edgeCache # None => Recent(edgeCache, now)
        /\ reserveCache \in [Chain -> {None} \cup ReserveEntry]
        /\ \A c \in Chain : reserveCache[c] # None => Recent(reserveCache[c], now)
    BY DEF EconomyInv, CachesOK
  <2>4. reserveCache' \in [Chain -> {None} \cup ReserveEntry]
    BY <1>15, <2>1, <2>3
  <2>5. \A c \in Chain : reserveCache'[c] # None => Recent(reserveCache'[c], now)
    BY <1>15, <2>2, <2>3
  <2> QED
    BY <1>15, <2>3, <2>4, <2>5 DEF CachesOK
<1>19. ChainOK' /\ events' \in 0 .. MaxEvents
  BY <1>15 DEF ChainOK, EconomyInv, chainVars
<1> QED
  BY <1>15, <1>17, <1>18, <1>19 DEF EconomyInv
-----------------------------------------------------------------------------
(* A request arrives; the session is finalized.                             *)

\* Nothing has been read, sent or computed.
Fresh(p) ==
    /\ p \in ReqType /\ p.edgeAge = 0 /\ DOMAIN p.report = {} /\ DOMAIN p.read = {}
    /\ \A c \in Chain : p.sent[c] = None
    /\ p.tries = 0 /\ p.rate = 0 /\ p.result.net = None
    /\ p.kind = "settle" => p.at = 1

LEMMA FreshInv ==
    ASSUME NEW p, NEW t, NEW ag, NEW s, NEW w, Fresh(p), FetchOK(p, t)
    PROVE  ReqInv(p, t, ag, s, w)
<1>1. AgeOK(p)
  BY Numbers DEF Fresh, AgeOK, Young
<1>2. SubmitOK(p, ag)
  BY DEF Fresh, SubmitOK, Submitting
<1>3. PriceOK(p, s)
  BY DEF Fresh, PriceOK
<1>4. RateOK(p, w)
  BY Numbers DEF Fresh, RateOK
<1>5. BoostOK(p) /\ ResultOK(p, s.commodity)
  BY ChainIs DEF Fresh, BoostOK, ResultOK
<1> QED
  BY <1>1, <1>2, <1>3, <1>4, <1>5 DEF ReqInv

LEMMA FreshIdle == Fresh(Idle) /\ Idle.step = "start" /\ Idle.got = <<>> /\ Idle.kind = None
<1>1. PICK read, report, sent : /\ read = [c \in {} |-> NoStake] /\ report = [c \in {} |-> None]
                                /\ sent = [c \in Chain |-> None]
  OBVIOUS
<1>2. read \in Reads /\ report \in Reports /\ sent \in Sents
  <2>1. {} \in SUBSET Chain
    OBVIOUS
  <2>2. read \in [{} -> StakeRead] /\ report \in [{} -> Balances \cup {None}]
    BY <1>1
  <2> QED
    BY <1>1, <2>1, <2>2 DEF Reads, Reports, Sents
<1>3. PICK result : result = NoResult
  OBVIOUS
<1>4. result \in Money /\ result.net = None
  BY <1>3 DEF NoResult, Money
<1>5. Idle = [kind |-> None, at |-> 0, step |-> "start", todo |-> <<>>, nonce |-> 0, tries |-> 0,
              since |-> 0, twap |-> 0, duration |-> 0, edge |-> DEFAULT_EDGE_BPS, edgeAge |-> 0,
              first |-> None, last |-> None, rate |-> 0, read |-> read, boost |-> 0,
              sent |-> sent, got |-> <<>>, report |-> report, result |-> result]
  BY <1>1, <1>3 DEF Idle
<1>6. <<>> \in Todos /\ <<>> \in Gots /\ "start" \in Steps /\ None \in Time
  BY DEF Todos, Gots, Steps, Time
<1>7. 0 \in 0 .. MAX_NONCE_RETRIES /\ 0 \in 0 .. MAX_BOOST_BPS /\ DEFAULT_EDGE_BPS \in 0 .. BPS_DENOMINATOR
  BY Numbers DEF MAX_BOOST_BPS, DEFAULT_EDGE_BPS, BPS_DENOMINATOR
<1>8. Idle \in ReqType
  BY <1>2, <1>4, <1>5, <1>6, <1>7 DEF ReqType
<1>9. /\ Idle.edgeAge = 0 /\ Idle.report = report /\ Idle.read = read /\ Idle.sent = sent
      /\ Idle.tries = 0 /\ Idle.rate = 0 /\ Idle.result = result /\ Idle.kind = None
      /\ Idle.step = "start" /\ Idle.got = <<>>
  BY <1>5
<1>10. None # "settle"
  BY AbsentAssumption DEF Route
<1>11. DOMAIN report = {} /\ DOMAIN read = {} /\ \A c \in Chain : sent[c] = None
  BY <1>1
<1> QED
  BY <1>4, <1>8, <1>9, <1>10, <1>11 DEF Fresh

\* A request of a kind as it starts.
Started(i, kind, todo) == [i EXCEPT !.kind = kind, !.at = 1, !.todo = todo]

LEMMA Starts ==
    ASSUME NEW i, Fresh(i), i.step = "start", i.got = <<>>, NEW kind \in Handlers,
           NEW todo \in Todos, NEW p, p = Started(i, kind, todo)
    PROVE  /\ Fresh(p) /\ p.kind = kind /\ p.at = 1 /\ p.step = "start" /\ p.got = <<>> /\ p.todo = todo
<1>1. i \in ReqType /\ kind \in Handlers \cup {None} /\ 1 \in Nat
  BY DEF Fresh
<1>2. p \in ReqType
  BY <1>1 DEF ReqType, Started
<1>3. /\ p.kind = kind /\ p.at = 1 /\ p.step = i.step /\ p.got = i.got /\ p.todo = todo
      /\ p.edgeAge = i.edgeAge /\ p.report = i.report /\ p.read = i.read /\ p.sent = i.sent
      /\ p.tries = i.tries /\ p.rate = i.rate /\ p.result = i.result
  BY <1>1 DEF ReqType, Started
<1> QED
  BY <1>2, <1>3 DEF Fresh

LEMMA ArriveInv ==
    ASSUME EconomyInv, NEW r \in Requests, Arrive(r)
    PROVE  EconomyInv'
<1>1. PICK kind \in DOMAIN Route :
        req' = [req EXCEPT ![r] =
                  IF kind # "reserve" THEN [Idle EXCEPT !.kind = kind, !.at = 1]
                  ELSE Loop([[Idle EXCEPT !.kind = kind, !.at = 1] EXCEPT !.todo = Treasuries])]
  BY DEF Arrive
<1>2. UNCHANGED <<now, chainVars, feed, session, miner, cacheVars, events, work>> /\ now \in Nat
  BY Locals DEF Arrive
<1>3. PICK i : i = Idle
  OBVIOUS
<1>4. /\ i \in ReqType /\ Fresh(i) /\ i.step = "start" /\ i.got = <<>>
      /\ kind \in Handlers /\ kind # None
  BY <1>3, FreshIdle, AbsentAssumption DEF Fresh, Route, Handlers
<1>5. PICK p : /\ req' = [req EXCEPT ![r] = p]
               /\ p = IF kind # "reserve" THEN [i EXCEPT !.kind = kind, !.at = 1]
                      ELSE Loop([i EXCEPT !.kind = kind, !.at = 1, !.todo = Treasuries])
  BY <1>1, <1>3
<1>6. p \in ReqType /\ ReqInv(p, now, aggregator, session, work)
  <2>1. CASE kind # "reserve"
    <3>1. PICK todo : todo = i.todo
      OBVIOUS
    <3>2. p = Started(i, kind, todo) /\ todo \in Todos
      BY <1>4, <1>5, <2>1, <3>1 DEF ReqType, Started
    <3>3. Fresh(p) /\ p.kind = kind /\ p.at = 1 /\ p.step = "start"
      BY <1>4, <3>2, Starts
    <3>4. FetchOK(p, now)
      BY <2>1, <3>3 DEF FetchOK
    <3> QED
      BY <3>3, <3>4, FreshInv DEF Fresh
  <2>2. CASE kind = "reserve"
    <3>1. PICK q : q = Started(i, kind, Treasuries)
      OBVIOUS
    <3>2. Treasuries \in Todos
      BY EconomyAssumption DEF Todos
    <3>3. /\ Fresh(q) /\ q.kind = kind /\ q.at = 1 /\ q.step = "start" /\ q.got = <<>>
          /\ q.kind # None
      BY <1>4, <3>1, <3>2, Starts
    <3>4. p = Loop(q)
      BY <1>5, <2>2, <3>1 DEF Started
    <3>5. CASE q.todo = <<>>
      <4>1. p = Proceed(q)
        BY <3>4, <3>5 DEF Loop
      <4>2. Onward(q, p, q.at + 1)
        BY <3>3, <4>1, ProceedIs DEF Fresh
      <4>3. Fresh(p) /\ p.at = 2 /\ p.step = "start"
        BY <2>2, <3>3, <4>2 DEF Fresh, Onward
      <4>4. FetchOK(p, now)
        BY <4>3 DEF FetchOK
      <4> QED
        BY <4>3, <4>4, FreshInv DEF Fresh
    <3>6. CASE q.todo # <<>>
      <4>1. p = q
        BY <3>4, <3>6 DEF Loop
      <4>2. FetchOK(q, now)
        BY <3>3, <3>6 DEF FetchOK, ReserveRead
      <4> QED
        BY <3>3, <4>1, <4>2, FreshInv DEF Fresh
    <3> QED
      BY <3>5, <3>6
  <2> QED
    BY <2>1, <2>2
<1>7. RequestsOK'
  BY <1>2, <1>5, <1>6, OnlyRequest DEF chainVars
<1>8. events' \in 0 .. MaxEvents
  BY <1>2 DEF EconomyInv
<1> QED
  BY <1>2, <1>7, <1>8, OthersStay

\* What finalize makes of a settlement, with the price it has.
LEMMA Finalized ==
    ASSUME NEW k \in ReqType, NEW t, NEW ag, NEW s, NEW w, ReqInv(k, t, ag, s, w),
           k.kind = "settle", k.at = 1, k.tries = 0, k.result.net = None,
           NEW z, NEW p \in ReqType, p.at >= 2, p.step = "start", p.kind = k.kind,
           p.tries = k.tries, p.sent = k.sent, p.rate = k.rate, p.report = k.report,
           p.edgeAge = k.edgeAge, p.read = k.read, p.boost = k.boost, p.result = k.result,
           p.at = 2 => p.todo = Submitters /\ Submitters # <<>>, PriceOK(p, z)
    PROVE  ReqInv(p, t, ag, z, w)
<1>1. k.rate = 0 /\ \A c \in Chain : k.sent[c] = None
  BY DEF ReqInv, RateOK, SubmitOK
<1>2. p.at \in Nat
  BY DEF ReqType
<1>3. FetchOK(p, t) /\ AgeOK(p)
  BY <1>2 DEF FetchOK, AgeOK, ReqInv
<1>4. RateOK(p, w)
  BY <1>1, Numbers DEF RateOK
<1>5. BoostOK(p) /\ ResultOK(p, z.commodity)
  BY DEF BoostOK, ResultOK, ReqInv
<1>6. SubmitOK(p, ag)
  <2>1. ASSUME p.at = 2 PROVE Present(p, ag) /\ ToCome(p)
    <3>1. Submitters \in Seq(Chain) /\ DOMAIN Submitters = 1 .. Len(Submitters)
      BY EconomyAssumption
    <3>2. p.todo = Submitters /\ Submitters # <<>>
      BY <2>1
    <3>3. Head(p.todo) \in Chain
      BY <3>1, <3>2
    <3>4. Present(p, ag)
      BY <1>1, <3>3 DEF Present
    <3>5. \A i \in 2 .. Len(Submitters) : Submitters[i] \in Chain
      BY <3>1
    <3>6. \A i, j \in 1 .. Len(Submitters) : Submitters[i] = Submitters[j] => i = j
      BY <3>1, EconomyAssumption
    <3>7. ToCome(p)
      BY <1>1, <3>2, <3>5, <3>6 DEF ToCome
    <3> QED
      BY <3>4, <3>7
  <2> QED
    BY <1>1, <1>2, <2>1 DEF SubmitOK, Submitting
<1> QED
  BY <1>3, <1>4, <1>5, <1>6 DEF ReqInv

LEMMA FinalizeInv ==
    ASSUME EconomyInv, NEW r \in Requests, finalize(r)
    PROVE  EconomyInv'
<1>1. PICK k : k = req[r]
  OBVIOUS
<1>2. /\ Stage(r) = "twap" /\ k \in ReqType /\ ReqInv(k, now, aggregator, session, work)
      /\ k.kind = "settle" /\ k.at = 1 /\ k.kind # None /\ ~Finished(k)
      /\ session \in SessionType /\ work \in WorkType /\ aggregator \in AggregatorType /\ now \in Nat
  BY <1>1, Locals, Stages DEF finalize, At
<1>3. k.tries = 0 /\ k.result.net = None
  BY <1>2 DEF ReqInv, SubmitOK, Submitting, ResultOK
<1>4. /\ session' = [session EXCEPT !.live = FALSE]
      /\ UNCHANGED <<now, chainVars, feed, miner, cacheVars, events, work>>
  BY DEF finalize
<1>5. /\ session' \in SessionType /\ ~session'.live /\ session'.samples = session.samples
      /\ session'.commodity = session.commodity /\ session'.sum = session.sum
      /\ session'.first = session.first
  BY <1>2, <1>4 DEF SessionType
<1>6. PICK p : /\ req' = [req EXCEPT ![r] = p]
               /\ p = IF session.live /\ session.samples # <<>>
                      THEN Loop([Proceed(k) EXCEPT !.twap = calculate(session.samples),
                                                   !.duration = now, !.todo = Submitters])
                      ELSE Answer(k)
  BY <1>1 DEF finalize
<1>7. p \in ReqType /\ ReqInv(p, now, aggregator, session', work)
  <2>1. CASE session.live /\ session.samples # <<>>
    <3>1. PICK o, twap : o = Proceed(k) /\ twap = calculate(session.samples)
      OBVIOUS
    <3>2. Onward(k, o, 2) /\ o \in ReqType
      <4>1. Onward(k, o, k.at + 1)
        BY <1>2, <3>1, ProceedIs
      <4>2. k.at + 1 = 2
        BY <1>2
      <4> QED
        BY <4>1, <4>2 DEF Onward
    <3>3. twap \in Nat /\ Submitters \in Todos
      <4>1. session.samples \in Seq(Nat)
        BY <1>2 DEF SessionType
      <4> QED
        BY <2>1, <3>1, <4>1, AverageWithin, EconomyAssumption DEF Todos
    <3>4. PICK q : q = [o EXCEPT !.twap = twap, !.duration = now, !.todo = Submitters]
      OBVIOUS
    <3>5. q \in ReqType
      BY <1>2, <3>2, <3>3, <3>4 DEF ReqType
    <3>6. /\ q.twap = twap /\ q.todo = Submitters /\ q.at = o.at /\ q.step = o.step /\ q.kind = o.kind
          /\ q.tries = o.tries /\ q.sent = o.sent /\ q.rate = o.rate /\ q.report = o.report
          /\ q.edgeAge = o.edgeAge /\ q.read = o.read /\ q.boost = o.boost /\ q.result = o.result
      BY <3>2, <3>4 DEF ReqType
    <3>7. /\ q.at = 2 /\ q.step = "start" /\ q.kind = k.kind
          /\ q.tries = k.tries /\ q.sent = k.sent /\ q.rate = k.rate /\ q.report = k.report
          /\ q.edgeAge = k.edgeAge /\ q.read = k.read /\ q.boost = k.boost /\ q.result = k.result
      BY <3>2, <3>6 DEF Onward
    <3>8. p = Loop(q)
      BY <1>6, <2>1, <3>1, <3>4
    <3>9. CASE Submitters # <<>>
      <4>1. p = q
        BY <3>6, <3>8, <3>9 DEF Loop
      <4>2. PriceOK(q, session')
        BY <1>5, <2>1, <3>1, <3>6 DEF PriceOK
      <4>3. ReqInv(q, now, aggregator, session', work)
        BY <1>2, <1>3, <3>5, <3>6, <3>7, <3>9, <4>2, Finalized
      <4> QED
        BY <3>5, <4>1, <4>3
    <3>10. CASE Submitters = <<>>
      <4>1. p = Proceed(q)
        BY <3>6, <3>8, <3>10 DEF Loop
      <4>2. Onward(q, p, q.at + 1)
        BY <3>5, <4>1, ProceedIs
      <4>3. /\ p \in ReqType /\ p.at = 3 /\ p.step = "start" /\ p.kind = k.kind /\ p.twap = twap
            /\ p.tries = k.tries /\ p.sent = k.sent /\ p.rate = k.rate /\ p.report = k.report
            /\ p.edgeAge = k.edgeAge /\ p.read = k.read /\ p.boost = k.boost /\ p.result = k.result
        BY <3>6, <3>7, <4>2 DEF Onward
      <4>4. PriceOK(p, session')
        BY <1>5, <2>1, <3>1, <4>3 DEF PriceOK
      <4> QED
        BY <1>2, <1>3, <4>3, <4>4, Finalized
    <3> QED
      BY <3>9, <3>10
  <2>2. CASE ~(session.live /\ session.samples # <<>>)
    <3>1. p = Answer(k)
      BY <1>6, <2>2
    <3>2. Onward(k, p, Len(Route[k.kind]) + 1)
      BY <1>2, <3>1, AnswerIs
    <3>3. Len(Route[k.kind]) + 1 = 7
      BY <1>2 DEF Route
    <3>4. /\ p \in ReqType /\ p.at = 7 /\ p.step = "start" /\ p.kind = k.kind
          /\ p.tries = k.tries /\ p.sent = k.sent /\ p.rate = k.rate /\ p.report = k.report
          /\ p.edgeAge = k.edgeAge /\ p.read = k.read /\ p.boost = k.boost /\ p.result = k.result
      BY <3>2, <3>3 DEF Onward
    <3>5. PriceOK(p, session')
      BY <1>3, <3>4 DEF PriceOK
    <3> QED
      BY <1>2, <1>3, <3>4, <3>5, Finalized
  <2> QED
    BY <2>1, <2>2
<1>8. Drift(now, aggregator, session, work, now, aggregator', session', work')
  <2>1. work.offered <= work.offered
    BY <1>2 DEF WorkType
  <2>2. \A c \in Chain : aggregator[c].txs <= aggregator[c].txs
    BY <1>2 DEF AggregatorType
  <2> QED
    BY <1>2, <1>4, <1>5, <2>1, <2>2 DEF Drift, chainVars
<1>9. RequestsOK'
  BY <1>4, <1>6, <1>7, <1>8, OneRequest DEF EconomyInv, chainVars
<1>10. WorkOK(session', work')
  BY <1>4, <1>5 DEF EconomyInv, WorkOK
<1>11. ChainOK' /\ CachesOK'
  BY <1>4 DEF EconomyInv, ChainOK, CachesOK, chainVars, cacheVars
<1>12. ProofsOK(session', work', miner')
  BY <1>4, <1>5 DEF EconomyInv, ProofsOK
<1> QED
  BY <1>4, <1>9, <1>10, <1>11, <1>12 DEF EconomyInv
-----------------------------------------------------------------------------
(* The submissions.                                                         *)

LEMMA TailOf ==
    ASSUME NEW s \in Seq(Chain), s # <<>>
    PROVE  /\ Len(s) \in Nat /\ Len(s) >= 1 /\ Tail(s) \in Seq(Chain) /\ Head(s) = s[1]
           /\ Len(Tail(s)) = Len(s) - 1
           /\ \A i \in 1 .. Len(Tail(s)) : Tail(s)[i] = s[i + 1] /\ i + 1 \in 2 .. Len(s)
           /\ Tail(s) # <<>> => /\ Head(Tail(s)) = s[2] /\ 2 \in 2 .. Len(s) /\ s[2] \in Chain
<1>1. Len(s) \in Nat /\ Len(s) # 0
  OBVIOUS
<1>2. Len(s) >= 1
  BY <1>1
<1>3. Tail(s) \in Seq(Chain) /\ Head(s) = s[1] /\ Len(Tail(s)) = Len(s) - 1
  BY <1>1
<1>4. ASSUME NEW i \in 1 .. Len(Tail(s)) PROVE Tail(s)[i] = s[i + 1] /\ i + 1 \in 2 .. Len(s)
  BY <1>1, <1>3
<1>5. ASSUME Tail(s) # <<>> PROVE Head(Tail(s)) = s[2] /\ 2 \in 2 .. Len(s) /\ s[2] \in Chain
  <2>1. Len(Tail(s)) \in Nat /\ Len(Tail(s)) # 0
    BY <1>3, <1>5
  <2>2. 1 \in 1 .. Len(Tail(s)) /\ Len(s) >= 2
    BY <1>1, <1>3, <2>1
  <2>3. Head(Tail(s)) = Tail(s)[1]
    BY <1>3, <1>5
  <2>4. Tail(s)[1] = s[1 + 1]
    BY <1>4, <2>2
  <2>5. s[2] \in Chain
    BY <2>2
  <2> QED
    BY <1>1, <2>2, <2>3, <2>4, <2>5
<1> QED
  BY <1>1, <1>2, <1>3, <1>4, <1>5

\* A settlement that submits, whatever it knows of its present chain.
AtSubmission(k, s, w) ==
    /\ k \in ReqType /\ k.kind = "settle" /\ k.at = 2 /\ k.todo # <<>> /\ ToCome(k)
    /\ AgeOK(k) /\ PriceOK(k, s) /\ RateOK(k, w) /\ BoostOK(k) /\ k.result.net = None
    /\ \A x \in Chain : x # Head(k.todo) /\ k.sent[x] # None => Settled(k.sent[x])

LEMMA Submits ==
    ASSUME EconomyInv, NEW r \in Requests, NEW k, k = req[r], Stage(r) = "submit"
    PROVE  /\ AtSubmission(k, session, work) /\ Present(k, aggregator) /\ Head(k.todo) \in Chain
           /\ k.sent[Head(k.todo)] \in Sent \cup {None}
           /\ k.sent[Head(k.todo)] # None => Settled(k.sent[Head(k.todo)])
<1>1. k \in ReqType /\ ReqInv(k, now, aggregator, session, work) /\ (k.kind # None => k.at >= 1)
  BY Locals
<1>2. k.kind = "settle" /\ k.at = 2 /\ Submitting(k) /\ ~Finished(k)
  BY <1>1, Stages DEF Submitting
<1>3. k.result.net = None
  BY <1>1, <1>2 DEF ReqInv, ResultOK
<1>4. /\ k.todo # <<>> /\ Present(k, aggregator) /\ ToCome(k)
      /\ \A x \in Chain : k.sent[x] # None => Settled(k.sent[x])
  BY <1>1, <1>2 DEF ReqInv, SubmitOK
<1>5. Head(k.todo) \in Chain /\ k.sent[Head(k.todo)] \in Sent \cup {None}
  BY <1>1, <1>4, HeadIn
<1> QED
  BY <1>1, <1>2, <1>3, <1>4, <1>5 DEF AtSubmission, ReqInv

\* p is k, but for its present submission.
Alike(k, p) ==
    /\ p.kind = k.kind /\ p.at = k.at /\ p.todo = k.todo /\ p.twap = k.twap
    /\ p.edgeAge = k.edgeAge /\ p.first = k.first /\ p.last = k.last /\ p.rate = k.rate
    /\ p.read = k.read /\ p.boost = k.boost /\ p.report = k.report /\ p.result = k.result
    /\ \A x \in Chain : x # Head(k.todo) => p.sent[x] = k.sent[x]

LEMMA AlikeStays ==
    ASSUME NEW s, NEW w, NEW k, NEW p \in ReqType, AtSubmission(k, s, w), Alike(k, p)
    PROVE  AtSubmission(p, s, w)
<1>1. k \in ReqType /\ k.at \in Nat /\ k.todo \in Seq(Chain) /\ k.todo # <<>>
  BY DEF AtSubmission, ReqType, Todos
<1>2. ToCome(p)
  <2>1. ASSUME NEW i \in 2 .. Len(k.todo) PROVE k.todo[i] \in Chain /\ k.todo[i] # Head(k.todo)
    <3>1. Len(k.todo) \in Nat /\ Head(k.todo) = k.todo[1] /\ Len(k.todo) >= 1
      BY <1>1, TailOf
    <3>2. i \in 1 .. Len(k.todo) /\ 1 \in 1 .. Len(k.todo) /\ i # 1
      BY <3>1
    <3>3. k.todo[i] = k.todo[1] => i = 1
      BY <3>2 DEF AtSubmission, ToCome
    <3>4. k.todo[i] \in Chain
      BY <1>1, <3>2
    <3> QED
      BY <3>1, <3>2, <3>3, <3>4
  <2> QED
    BY <2>1 DEF AtSubmission, ToCome, Alike
<1>3. AgeOK(p) /\ BoostOK(p) /\ PriceOK(p, s)
  BY DEF AtSubmission, Alike, AgeOK, BoostOK, PriceOK
<1>4. RateOK(p, w)
  BY <1>1, SameRate DEF AtSubmission, Alike
<1> QED
  BY <1>2, <1>3, <1>4 DEF AtSubmission, Alike

\* It goes on with the submission.
LEMMA StillSubmits ==
    ASSUME NEW t, NEW ag, NEW s, NEW w, NEW p, AtSubmission(p, s, w), Present(p, ag),
           p.sent[Head(p.todo)] # None => Settled(p.sent[Head(p.todo)])
    PROVE  ReqInv(p, t, ag, s, w)
<1>1. FetchOK(p, t)
  BY DEF AtSubmission, FetchOK, Present
<1>2. SubmitOK(p, ag)
  BY DEF AtSubmission, SubmitOK, Submitting
<1> QED
  BY <1>1, <1>2 DEF AtSubmission, ReqInv, ResultOK

\* The submission is over, and the next chain or stage begins.
LEMMA SubmittedInv ==
    ASSUME NEW t, NEW ag, NEW s, NEW w, NEW m, AtSubmission(m, s, w), NEW status \in Status,
           NEW e, e = [m.sent[Head(m.todo)] EXCEPT !.status = status], e \in Sent, Settled(e),
           NEW p, p = Submitted(m, status)
    PROVE  p \in ReqType /\ ReqInv(p, t, ag, s, w)
<1>1. PICK c, todo, sent : c = Head(m.todo) /\ todo = Tail(m.todo) /\ sent = [m.sent EXCEPT ![c] = e]
  OBVIOUS
<1>2. m \in ReqType /\ m.todo \in Seq(Chain) /\ m.todo # <<>> /\ m.sent \in Sents
  BY DEF AtSubmission, ReqType, Todos
<1>3. c \in Chain /\ todo \in Todos
  BY <1>1, <1>2, HeadIn
<1>4. /\ sent \in Sents /\ sent[c] = e
      /\ \A x \in Chain : x # c => sent[x] = m.sent[x]
      /\ \A x \in Chain : sent[x] # None => Settled(sent[x])
  BY <1>1, <1>2, <1>3 DEF Sents, AtSubmission
<1>5. PICK q : q = [m EXCEPT !.sent = sent, !.todo = todo, !.tries = 0, !.step = "start"]
  OBVIOUS
<1>6. p = Loop(q)
  <2>1. [m EXCEPT !.sent[c] = [@ EXCEPT !.status = status], !.todo = Tail(@), !.tries = 0, !.step = "start"]
        = [m EXCEPT !.sent = [m.sent EXCEPT ![c] = [m.sent[c] EXCEPT !.status = status]],
                    !.todo = Tail(m.todo), !.tries = 0, !.step = "start"]
    BY <1>2, <1>3 DEF ReqType, Sents
  <2> QED
    BY <1>1, <1>5, <2>1 DEF Submitted
<1>7. q \in ReqType
  <2>1. 0 \in 0 .. MAX_NONCE_RETRIES /\ "start" \in Steps
    BY Numbers DEF Steps
  <2> QED
    BY <1>2, <1>3, <1>4, <1>5, <2>1 DEF ReqType
<1>8. /\ q.kind = m.kind /\ q.at = m.at /\ q.todo = todo /\ q.sent = sent /\ q.tries = 0 /\ q.step = "start"
      /\ q.twap = m.twap /\ q.edgeAge = m.edgeAge /\ q.first = m.first /\ q.last = m.last
      /\ q.rate = m.rate /\ q.read = m.read /\ q.boost = m.boost /\ q.report = m.report
      /\ q.result = m.result
  BY <1>2, <1>5 DEF ReqType
<1>9. m.kind = "settle" /\ m.at = 2 /\ m.result.net = None
  BY DEF AtSubmission
<1>10. CASE todo = <<>>
  <2>1. p = Proceed(q)
    BY <1>6, <1>8, <1>10 DEF Loop
  <2>2. Onward(q, p, q.at + 1)
    BY <1>7, <2>1, ProceedIs
  <2>3. /\ p \in ReqType /\ p.kind = "settle" /\ p.at = 3 /\ p.sent = sent /\ p.tries = 0 /\ p.step = "start"
        /\ p.twap = m.twap /\ p.edgeAge = m.edgeAge /\ p.first = m.first /\ p.last = m.last
        /\ p.rate = m.rate /\ p.read = m.read /\ p.boost = m.boost /\ p.report = m.report
        /\ p.result = m.result
    BY <1>8, <1>9, <2>2 DEF Onward
  <2>4. FetchOK(p, t) /\ SubmitOK(p, ag)
    BY <1>4, <2>3 DEF FetchOK, SubmitOK, Submitting
  <2>5. AgeOK(p) /\ BoostOK(p) /\ ResultOK(p, s.commodity)
    BY <1>9, <2>3 DEF AtSubmission, AgeOK, BoostOK, ResultOK
  <2>6. PriceOK(p, s)
    BY <1>9, <2>3 DEF AtSubmission, PriceOK
  <2>7. RateOK(p, w)
    BY <1>2, <1>9, <2>3, SameRate DEF AtSubmission
  <2> QED
    BY <2>3, <2>4, <2>5, <2>6, <2>7 DEF ReqInv
<1>11. CASE todo # <<>>
  <2>1. p = q
    BY <1>6, <1>8, <1>11 DEF Loop
  <2>2. /\ Len(m.todo) \in Nat /\ Len(todo) = Len(m.todo) - 1 /\ c = m.todo[1] /\ Len(m.todo) >= 1
        /\ \A i \in 1 .. Len(todo) : todo[i] = m.todo[i + 1] /\ i + 1 \in 2 .. Len(m.todo)
        /\ Head(todo) = m.todo[2] /\ 2 \in 2 .. Len(m.todo) /\ m.todo[2] \in Chain
    BY <1>1, <1>2, <1>11, TailOf
  <2>3. /\ \A i, j \in 1 .. Len(m.todo) : m.todo[i] = m.todo[j] => i = j
        /\ \A i \in 2 .. Len(m.todo) : m.sent[m.todo[i]] = None
    BY DEF AtSubmission, ToCome
  <2>4. ASSUME NEW i \in 2 .. Len(m.todo) PROVE sent[m.todo[i]] = None
    <3>1. i \in 1 .. Len(m.todo) /\ 1 \in 1 .. Len(m.todo) /\ i # 1
      BY <2>2
    <3>2. m.todo[i] # c
      BY <2>2, <2>3, <3>1
    <3>3. m.todo[i] \in Chain
      BY <1>2, <3>1
    <3> QED
      BY <1>4, <2>3, <3>2, <3>3
  <2>5. ToCome(q)
    <3>1. ASSUME NEW i \in 1 .. Len(todo), NEW j \in 1 .. Len(todo), todo[i] = todo[j] PROVE i = j
      <4>1. m.todo[i + 1] = m.todo[j + 1] /\ i + 1 \in 2 .. Len(m.todo) /\ j + 1 \in 2 .. Len(m.todo)
        BY <2>2, <3>1
      <4>2. i + 1 \in 1 .. Len(m.todo) /\ j + 1 \in 1 .. Len(m.todo)
        BY <2>2, <4>1
      <4>3. i + 1 = j + 1
        BY <2>3, <4>1, <4>2
      <4> QED
        BY <4>3
    <3>2. ASSUME NEW i \in 2 .. Len(todo) PROVE sent[todo[i]] = None
      <4>1. i \in 1 .. Len(todo)
        BY <2>2
      <4> QED
        BY <2>2, <2>4, <4>1
    <3> QED
      BY <1>8, <3>1, <3>2 DEF ToCome
  <2>6. Present(q, ag)
    <3>1. Head(q.todo) = m.todo[2] /\ q.sent[m.todo[2]] = None
      BY <1>8, <2>2, <2>4
    <3> QED
      BY <1>8, <3>1 DEF Present
  <2>7. AgeOK(q) /\ BoostOK(q) /\ PriceOK(q, s)
    BY <1>8, <1>9 DEF AtSubmission, AgeOK, BoostOK, PriceOK
  <2>8. RateOK(q, w)
    BY <1>2, <1>7, <1>8, <1>9, SameRate DEF AtSubmission
  <2>9. AtSubmission(q, s, w)
    BY <1>4, <1>7, <1>8, <1>9, <1>11, <2>5, <2>7, <2>8 DEF AtSubmission
  <2>10. q.sent[Head(q.todo)] # None => Settled(q.sent[Head(q.todo)])
    BY <1>4, <1>8, <2>2
  <2>11. ReqInv(q, t, ag, s, w)
    BY <2>6, <2>9, <2>10, StillSubmits
  <2> QED
    BY <1>7, <2>1, <2>11
<1> QED
  BY <1>10, <1>11

\* The record of the present submission becomes e.
WithRecord(k, c, e, nonce, step) ==
    [k EXCEPT !.sent = [k.sent EXCEPT ![c] = e], !.nonce = nonce, !.step = step]

LEMMA Recorded ==
    ASSUME NEW s, NEW w, NEW k, AtSubmission(k, s, w), NEW c, c = Head(k.todo), NEW e \in Sent,
           NEW nonce \in Nat, NEW step \in Steps, NEW m, m = WithRecord(k, c, e, nonce, step)
    PROVE  /\ m \in ReqType /\ Alike(k, m) /\ m.sent[c] = e /\ m.nonce = nonce /\ m.step = step
           /\ m.tries = k.tries
<1>1. k \in ReqType /\ k.sent \in Sents /\ c \in Chain
  BY HeadIn DEF AtSubmission, ReqType
<1>2. PICK sent : sent = [k.sent EXCEPT ![c] = e]
  OBVIOUS
<1>3. sent \in Sents /\ sent[c] = e /\ \A x \in Chain : x # c => sent[x] = k.sent[x]
  BY <1>1, <1>2 DEF Sents
<1>4. m = [k EXCEPT !.sent = sent, !.nonce = nonce, !.step = step]
  BY <1>2 DEF WithRecord
<1>5. m \in ReqType
  BY <1>1, <1>3, <1>4 DEF ReqType
<1>6. /\ m.kind = k.kind /\ m.at = k.at /\ m.todo = k.todo /\ m.twap = k.twap
      /\ m.edgeAge = k.edgeAge /\ m.first = k.first /\ m.last = k.last /\ m.rate = k.rate
      /\ m.read = k.read /\ m.boost = k.boost /\ m.report = k.report /\ m.result = k.result
      /\ m.sent = sent /\ m.nonce = nonce /\ m.step = step /\ m.tries = k.tries
  BY <1>1, <1>4 DEF ReqType
<1> QED
  BY <1>3, <1>5, <1>6 DEF Alike

\* ... and nothing else changes.
Landing(k, c, f) == [k EXCEPT !.sent[c] = f]

LEMMA LandedIs ==
    ASSUME NEW s, NEW w, NEW k, AtSubmission(k, s, w), NEW c, c = Head(k.todo), NEW f \in Sent,
           NEW m, m = Landing(k, c, f)
    PROVE  AtSubmission(m, s, w) /\ m.todo = k.todo /\ m.sent[c] = f /\ m.tries = k.tries
<1>1. k \in ReqType
  BY DEF AtSubmission
<1>2. PICK nonce, step, n : nonce = k.nonce /\ step = k.step /\ n = WithRecord(k, c, f, nonce, step)
  OBVIOUS
<1>3. nonce \in Nat /\ step \in Steps
  BY <1>1, <1>2 DEF ReqType
<1>4. n \in ReqType /\ Alike(k, n) /\ n.sent[c] = f /\ n.tries = k.tries
  BY <1>2, <1>3, Recorded
<1>5. AtSubmission(n, s, w) /\ n.todo = k.todo
  BY <1>4, AlikeStays DEF Alike
<1>6. m = n
  BY <1>1, <1>2 DEF ReqType, WithRecord, Landing
<1> QED
  BY <1>4, <1>5, <1>6

LEMMA FetchNonceInv ==
    ASSUME EconomyInv, NEW r \in Requests, FetchNonce(r)
    PROVE  EconomyInv'
<1>1. PICK k : k = req[r]
  OBVIOUS
<1>2. PICK c, txs, e : /\ c = Head(k.todo) /\ txs = aggregator[c].txs
                       /\ e = IF k.sent[c] = None
                              THEN [status |-> "open", own |-> 0, known |-> 0, stored |-> FALSE,
                                    begun |-> txs, rivals |-> 0]
                              ELSE k.sent[c]
  OBVIOUS
<1>3. Stage(r) = "submit" /\ k.step = "start"
  BY <1>1 DEF FetchNonce, At
<1>4. /\ AtSubmission(k, session, work) /\ Present(k, aggregator) /\ c \in Chain
      /\ k.sent[c] \in Sent \cup {None}
      /\ k.sent[c] # None => Settled(k.sent[c])
  BY <1>1, <1>2, <1>3, Submits
<1>5. k \in ReqType /\ k.sent \in Sents /\ k.tries \in Nat /\ txs \in Nat
  <2>1. k \in ReqType /\ aggregator \in AggregatorType
    BY <1>4, Locals DEF AtSubmission
  <2> QED
    BY <1>2, <1>4, <2>1, Numbers DEF ReqType, AggregatorType
<1>6. e \in Sent /\ Settled(e) /\ e.status = "open" /\ e.begun + k.tries <= txs /\ e.begun \in Nat
  <2>1. CASE k.sent[c] = None
    <3>1. e = [status |-> "open", own |-> 0, known |-> 0, stored |-> FALSE,
                                    begun |-> txs, rivals |-> 0]
      BY <1>2, <2>1
    <3>2. e \in Sent
      BY <1>5, <3>1 DEF Sent, Status
    <3>3. Settled(e) /\ e.status = "open" /\ e.begun = txs
      BY <3>1 DEF Settled
    <3>4. k.tries = 0
      BY <1>2, <1>4, <2>1 DEF Present
    <3> QED
      BY <1>5, <3>2, <3>3, <3>4
  <2>2. CASE k.sent[c] # None
    <3>1. e = k.sent[c]
      BY <1>2, <2>2
    <3>2. e \in Sent /\ Settled(e)
      BY <1>4, <2>2, <3>1
    <3>3. e.status = "open" /\ e.begun + k.tries <= txs
      BY <1>2, <1>4, <2>2, <3>1 DEF Present
    <3> QED
      BY <3>2, <3>3 DEF Sent
  <2> QED
    BY <2>1, <2>2
<1>7. PICK m : m = WithRecord(k, c, e, txs, "send")
  OBVIOUS
<1>8. PICK p : /\ req' = [req EXCEPT ![r] = p] /\ p \in {m, Submitted(m, "error")}
  <2>1. m = [k EXCEPT !.sent[c] = e, !.nonce = txs, !.step = "send"]
    BY <1>4, <1>5, <1>7 DEF ReqType, Sents, WithRecord
  <2>2. m = [req[r] EXCEPT !.sent[Head(req[r].todo)] =
                             IF req[r].sent[Head(req[r].todo)] = None
                             THEN [status |-> "open", own |-> 0, known |-> 0, stored |-> FALSE,
                                   begun |-> aggregator[Head(req[r].todo)].txs, rivals |-> 0]
                             ELSE req[r].sent[Head(req[r].todo)],
                           !.nonce = aggregator[Head(req[r].todo)].txs, !.step = "send"]
    BY <1>1, <1>2, <2>1
  <2>3. req' = [req EXCEPT ![r] = m] \/ req' = [req EXCEPT ![r] = Submitted(m, "error")]
    BY <2>2 DEF FetchNonce
  <2> QED
    BY <2>3
<1>9. UNCHANGED <<now, chainVars, feed, session, miner, cacheVars, work>> /\ (Happens \/ Quiet)
  BY DEF FetchNonce
<1>10. /\ m \in ReqType /\ Alike(k, m) /\ m.sent[c] = e /\ m.nonce = txs /\ m.step = "send"
       /\ m.tries = k.tries
  <2>1. "send" \in Steps
    BY DEF Steps
  <2>2. c = Head(k.todo)
    BY <1>2
  <2> QED
    BY <1>4, <1>5, <1>6, <1>7, <2>1, <2>2, Recorded
<1>11. AtSubmission(m, session, work) /\ m.todo = k.todo
  BY <1>4, <1>10, AlikeStays DEF Alike
<1>12. p \in ReqType /\ ReqInv(p, now, aggregator, session, work)
  <2>1. CASE p = m
    <3>1. e # None
      BY <1>6, AbsentAssumption DEF Sent, Status
    <3>2. txs <= txs
      BY <1>5
    <3>3. Present(m, aggregator)
      BY <1>2, <1>6, <1>10, <1>11, <3>1, <3>2 DEF Present
    <3>4. Settled(m.sent[Head(m.todo)])
      BY <1>2, <1>6, <1>10, <1>11
    <3>5. ReqInv(m, now, aggregator, session, work)
      BY <1>11, <3>3, <3>4, StillSubmits
    <3> QED
      BY <1>10, <2>1, <3>5
  <2>2. CASE p = Submitted(m, "error")
    <3>1. PICK f : f = [e EXCEPT !.status = "error"]
      OBVIOUS
    <3>2. f \in Sent /\ Settled(f)
      BY <1>6, <3>1 DEF Sent, Status, Settled
    <3>3. f = [m.sent[Head(m.todo)] EXCEPT !.status = "error"]
      BY <1>2, <1>10, <1>11, <3>1
    <3>4. "error" \in Status
      BY DEF Status
    <3> QED
      BY <1>11, <2>2, <3>2, <3>3, <3>4, SubmittedInv
  <2> QED
    BY <1>8, <2>1, <2>2
<1>13. RequestsOK'
  BY <1>8, <1>9, <1>12, OnlyRequest DEF chainVars
<1>14. events' \in 0 .. MaxEvents
  BY <1>9, EventsStay
<1> QED
  BY <1>9, <1>13, <1>14, OthersStay

\* The nonce was taken, or the transaction known: a transaction of the key for
\* each retry and one more.
LEMMA ConflictInv ==
    ASSUME NEW t, NEW ag, NEW s, NEW w, NEW k, AtSubmission(k, s, w), NEW c, c = Head(k.todo),
           NEW e, e = k.sent[c], e \in Sent, Settled(e), e.status = "open",
           NEW txs \in Nat, ag[c].txs = txs, e.begun + (k.tries + 1) <= txs,
           NEW p, p = Conflict(k, txs - e.begun)
    PROVE  p \in ReqType /\ ReqInv(p, t, ag, s, w)
<1>1. /\ k \in ReqType /\ k.sent \in Sents /\ k.nonce \in Nat /\ k.tries \in 0 .. MAX_NONCE_RETRIES
      /\ c \in Chain /\ e # None
  <2>1. k \in ReqType /\ c \in Chain
    BY HeadIn DEF AtSubmission
  <2>2. e # None
    BY AbsentAssumption DEF Sent, Status
  <2> QED
    BY <2>1, <2>2 DEF ReqType
<1>2. MAX_NONCE_RETRIES \in Nat /\ e.begun \in Nat /\ k.tries \in Nat
  BY <1>1, Numbers DEF Sent
<1>3. CASE k.tries < MAX_NONCE_RETRIES
  <2>1. PICK n : n = k.tries + 1
    OBVIOUS
  <2>2. n \in 0 .. MAX_NONCE_RETRIES
    BY <1>2, <1>3, <2>1
  <2>3. p = [k EXCEPT !.tries = n, !.step = "start"]
    BY <1>3, <2>1 DEF Conflict
  <2>4. p \in ReqType
    BY <1>1, <2>2, <2>3 DEF ReqType, Steps
  <2>5. /\ p.kind = k.kind /\ p.at = k.at /\ p.todo = k.todo /\ p.twap = k.twap
        /\ p.edgeAge = k.edgeAge /\ p.first = k.first /\ p.last = k.last /\ p.rate = k.rate
        /\ p.read = k.read /\ p.boost = k.boost /\ p.report = k.report /\ p.result = k.result
        /\ p.sent = k.sent /\ p.step = "start" /\ p.tries = n
    BY <1>1, <2>3 DEF ReqType
  <2>6. AtSubmission(p, s, w)
    BY <2>4, <2>5, AlikeStays DEF Alike
  <2>7. Present(p, ag)
    <3>1. Head(p.todo) = c /\ p.sent[c] = e /\ p.step = "start" /\ p.tries = n
      BY <2>5
    <3>2. e.begun + n <= ag[c].txs
      BY <2>1
    <3> QED
      BY <1>1, <3>1, <3>2 DEF Present
  <2>8. ReqInv(p, t, ag, s, w)
    BY <2>5, <2>6, <2>7, StillSubmits
  <2> QED
    BY <2>4, <2>8
<1>4. CASE ~(k.tries < MAX_NONCE_RETRIES)
  <2>1. PICK rivals, f : rivals = txs - e.begun /\ f = [e EXCEPT !.rivals = rivals]
    OBVIOUS
  <2>2. rivals \in Int /\ rivals > MAX_NONCE_RETRIES
    BY <1>1, <1>2, <1>4, <2>1
  <2>3. /\ f \in Sent /\ f.own = e.own /\ f.known = e.known /\ f.stored = e.stored
        /\ f.status = e.status /\ f.rivals = rivals
    BY <2>1, <2>2 DEF Sent
  <2>4. PICK m : m = [k EXCEPT !.sent[c] = f]
    OBVIOUS
  <2>5. AtSubmission(m, s, w) /\ m.todo = k.todo /\ m.sent[c] = f
    <3>1. m = Landing(k, c, f)
      BY <2>4 DEF Landing
    <3> QED
      BY <2>3, <3>1, LandedIs
  <2>6. m = [k EXCEPT !.sent[c].rivals = rivals]
    BY <1>1, <2>1, <2>4 DEF ReqType, Sents
  <2>7. p = Submitted(m, "nonce")
    BY <1>4, <2>1, <2>6 DEF Conflict
  <2>8. PICK g : g = [f EXCEPT !.status = "nonce"]
    OBVIOUS
  <2>9. g \in Sent /\ Settled(g)
    <3>1. e.own <= e.known /\ e.own \in Nat /\ e.known \in Nat
      BY DEF Settled, Sent
    <3>2. g \in Sent /\ g.own = e.own /\ g.known = e.known /\ g.status = "nonce" /\ g.rivals = rivals
      BY <2>3, <2>8 DEF Sent, Status
    <3>3. g.own <= g.known /\ g.own <= 1 + g.known
      BY <3>1, <3>2
    <3> QED
      BY <2>2, <3>2, <3>3 DEF Settled
  <2>10. g = [m.sent[Head(m.todo)] EXCEPT !.status = "nonce"]
    BY <2>5, <2>8
  <2>11. "nonce" \in Status
    BY DEF Status
  <2> QED
    BY <2>5, <2>7, <2>9, <2>10, <2>11, SubmittedInv
<1> QED
  BY <1>3, <1>4

\* The submission of k is over with a status that its record e bears out.
LEMMA OverInv ==
    ASSUME NEW t, NEW ag, NEW s, NEW w, NEW k, AtSubmission(k, s, w), NEW e, e = k.sent[Head(k.todo)],
           e \in Sent, NEW status \in {"ok", "error"}, e.own <= 1 + e.known,
           status = "ok" => e.own >= 1 /\ e.stored,
           NEW p, p = Submitted(k, status)
    PROVE  p \in ReqType /\ ReqInv(p, t, ag, s, w)
<1>1. PICK g : g = [e EXCEPT !.status = status]
  OBVIOUS
<1>2. /\ g \in Sent /\ g.own = e.own /\ g.known = e.known /\ g.stored = e.stored /\ g.status = status
      /\ status \in Status
  BY <1>1 DEF Sent, Status
<1>3. Settled(g)
  BY <1>2 DEF Settled
<1> QED
  BY <1>1, <1>2, <1>3, SubmittedInv

LEMMA SubmitPriceInv ==
    ASSUME EconomyInv, NEW r \in Requests, submit_price(r)
    PROVE  EconomyInv'
<1>1. PICK k, c, e : k = req[r] /\ c = Head(k.todo) /\ e = k.sent[c]
  OBVIOUS
<1>2. Stage(r) = "submit" /\ k.step = "send"
  BY <1>1 DEF submit_price, At
<1>3. /\ AtSubmission(k, session, work) /\ Present(k, aggregator) /\ c \in Chain
      /\ e \in Sent \cup {None} /\ (e # None => Settled(e))
  BY <1>1, <1>2, Submits
<1>4. /\ k \in ReqType /\ k.twap \in Nat /\ k.tries \in Nat /\ k.nonce \in Nat
  BY <1>3, Numbers DEF AtSubmission, ReqType
<1>5. PICK txs, stored, stores : /\ txs = aggregator[c].txs /\ stored = aggregator[c].price
                                 /\ stores = submitPrice(stored, k.twap)
  OBVIOUS
<1>6. /\ aggregator \in AggregatorType /\ now \in Nat /\ work \in WorkType
      /\ txs \in Nat /\ stored \in Nat
  BY <1>3, <1>5, Locals DEF AggregatorType
<1>7. /\ e # None /\ e \in Sent /\ Settled(e) /\ e.status = "open" /\ e.begun \in Nat
      /\ e.own \in Nat /\ e.known \in Nat /\ e.own <= e.known
      /\ e.begun + k.tries <= k.nonce /\ k.nonce <= txs
  <2>1. e # None
    BY <1>1, <1>2, <1>3 DEF Present
  <2>2. e \in Sent /\ Settled(e)
    BY <1>3, <2>1
  <2>3. e.status = "open" /\ e.begun + k.tries <= k.nonce /\ k.nonce <= txs
    BY <1>1, <1>2, <1>3, <1>5, <2>1 DEF Present
  <2> QED
    BY <2>1, <2>2, <2>3 DEF Settled, Sent
<1>8. stores \in BOOLEAN
  BY <1>5 DEF submitPrice
<1>9. PICK f0, f1, m0, m1 :
        /\ f0 = [status |-> "open", own |-> e.own + 1, known |-> e.known + 0, stored |-> stores,
                 begun |-> e.begun, rivals |-> 0]
        /\ f1 = [status |-> "open", own |-> e.own + 1, known |-> e.known + 1, stored |-> stores,
                 begun |-> e.begun, rivals |-> 0]
        /\ m0 = [k EXCEPT !.sent[c] = f0]
        /\ m1 = [k EXCEPT !.sent[c] = f1]
  OBVIOUS
<1>10. PICK mined : mined = [aggregator EXCEPT ![c] = [price |-> IF stores THEN k.twap ELSE @.price,
                                                       txs |-> txs + 1]]
  OBVIOUS
<1>11. PICK p : /\ req' = [req EXCEPT ![r] = p]
                /\ \/ k.nonce # txs /\ aggregator' = aggregator /\ p = Conflict(k, txs - e.begun)
                   \/ k.nonce = txs /\ aggregator' = aggregator /\ p = Submitted(k, "error")
                   \/ k.nonce = txs /\ aggregator' = mined /\ p = Submitted(m0, Receipt(stores))
                   \/ k.nonce = txs /\ aggregator' = mined /\ p = Submitted(m0, "error")
                   \/ k.nonce = txs /\ aggregator' = mined /\ p = Conflict(m1, txs + 1 - e.begun)
  <2>1. \/ k.nonce # txs /\ aggregator' = aggregator /\ req' = [req EXCEPT ![r] = Conflict(k, txs - e.begun)]
        \/ k.nonce = txs /\ aggregator' = aggregator /\ req' = [req EXCEPT ![r] = Submitted(k, "error")]
        \/ /\ k.nonce = txs /\ aggregator' = mined
           /\ \/ req' = [req EXCEPT ![r] = Submitted(m0, Receipt(stores))]
              \/ req' = [req EXCEPT ![r] = Submitted(m0, "error")]
              \/ req' = [req EXCEPT ![r] = Conflict(m1, txs + 1 - e.begun)]
    BY <1>1, <1>5, <1>9, <1>10 DEF submit_price
  <2> QED
    BY <2>1
<1>12. UNCHANGED <<now, houseEdge, stakes, treasury, feed, session, miner, cacheVars, work>> /\ (Happens \/ Quiet)
  BY DEF submit_price
<1>13. /\ f0 \in Sent /\ f0.own = e.own + 1 /\ f0.known = e.known /\ f0.stored = stores
       /\ f1 \in Sent /\ f1.own = e.own + 1 /\ f1.known = e.known + 1
       /\ f1.status = "open" /\ f1.begun = e.begun
  BY <1>7, <1>8, <1>9 DEF Sent, Status
<1>14. f0.own <= 1 + f0.known /\ f0.own >= 1 /\ Settled(f1)
  <2>1. f0.own <= 1 + f0.known /\ f0.own >= 1 /\ f1.own <= f1.known /\ f1.own <= 1 + f1.known
    BY <1>7, <1>13
  <2> QED
    BY <1>13, <2>1 DEF Settled
<1>15. AtSubmission(m0, session, work) /\ m0.todo = k.todo /\ m0.sent[c] = f0
  <2>1. m0 = Landing(k, c, f0)
    BY <1>9 DEF Landing
  <2>2. c = Head(k.todo) /\ f0 \in Sent
    BY <1>1, <1>13
  <2> QED
    BY <1>3, <2>1, <2>2, LandedIs
<1>16. AtSubmission(m1, session, work) /\ m1.todo = k.todo /\ m1.sent[c] = f1 /\ m1.tries = k.tries
  <2>1. m1 = Landing(k, c, f1)
    BY <1>9 DEF Landing
  <2>2. c = Head(k.todo) /\ f1 \in Sent
    BY <1>1, <1>13
  <2> QED
    BY <1>3, <2>1, <2>2, LandedIs
<1>17. mined[c].txs = txs + 1 /\ mined \in AggregatorType /\ \A x \in Chain : aggregator[x].txs <= mined[x].txs
  <2>1. PICK price : price = IF stores THEN k.twap ELSE stored
    OBVIOUS
  <2>2. price \in Nat
    BY <1>4, <1>6, <2>1
  <2>3. mined = [aggregator EXCEPT ![c] = [price |-> price, txs |-> txs + 1]]
    BY <1>5, <1>10, <2>1
  <2> QED
    BY <1>3, <1>5, <1>6, <2>2, <2>3 DEF AggregatorType
<1>18. p \in ReqType /\ ReqInv(p, now, aggregator', session, work)
  <2>1. CASE k.nonce # txs /\ aggregator' = aggregator /\ p = Conflict(k, txs - e.begun)
    <3>1. e.begun + (k.tries + 1) <= txs
      BY <1>4, <1>6, <1>7, <2>1
    <3> QED
      BY <1>1, <1>3, <1>5, <1>6, <1>7, <2>1, <3>1, ConflictInv
  <2>2. CASE aggregator' = aggregator /\ p = Submitted(k, "error")
    <3>1. e.own <= 1 + e.known
      BY <1>7
    <3> QED
      BY <1>1, <1>3, <1>7, <2>2, <3>1, OverInv
  <2>3. CASE p = Submitted(m0, Receipt(stores))
    <3>1. Receipt(stores) \in {"ok", "error"} /\ (Receipt(stores) = "ok" => stores)
      BY DEF Receipt
    <3>2. m0.sent[Head(m0.todo)] = f0
      BY <1>1, <1>15
    <3> QED
      BY <1>13, <1>14, <1>15, <2>3, <3>1, <3>2, OverInv
  <2>4. CASE p = Submitted(m0, "error")
    <3>1. m0.sent[Head(m0.todo)] = f0
      BY <1>1, <1>15
    <3> QED
      BY <1>13, <1>14, <1>15, <2>4, <3>1, OverInv
  <2>5. CASE k.nonce = txs /\ aggregator' = mined /\ p = Conflict(m1, txs + 1 - e.begun)
    <3>1. PICK n : n = txs + 1
      OBVIOUS
    <3>2. n \in Nat /\ aggregator'[c].txs = n /\ f1.begun + (m1.tries + 1) <= n
      <4>1. n \in Nat /\ e.begun + (k.tries + 1) <= n
        BY <1>4, <1>6, <1>7, <2>5, <3>1
      <4>2. aggregator'[c].txs = n
        BY <1>17, <2>5, <3>1
      <4> QED
        BY <1>13, <1>16, <4>1, <4>2
    <3>3. p = Conflict(m1, n - f1.begun) /\ c = Head(m1.todo)
      <4>1. f1.begun = e.begun
        BY <1>13
      <4>2. txs + 1 - e.begun = n - f1.begun
        BY <3>1, <4>1, <1>6, <1>7
      <4>3. p = Conflict(m1, txs + 1 - e.begun)
        BY <2>5
      <4>4. c = Head(m1.todo)
        BY <1>1, <1>16
      <4> QED
        BY <4>2, <4>3, <4>4, Zenon
    <3> QED
      BY <1>13, <1>14, <1>16, <3>2, <3>3, ConflictInv
  <2> QED
    BY <1>11, <2>1, <2>2, <2>3, <2>4, <2>5
<1>19. /\ aggregator' \in AggregatorType /\ \A x \in Chain : aggregator[x].txs <= aggregator'[x].txs
  <2>1. \A x \in Chain : aggregator[x].txs <= aggregator[x].txs
    BY <1>6 DEF AggregatorType
  <2>2. aggregator' = aggregator \/ aggregator' = mined
    BY <1>11
  <2> QED
    BY <1>6, <1>17, <2>1, <2>2
<1>20. Drift(now, aggregator, session, work, now, aggregator', session', work')
  <2>1. work.offered <= work.offered /\ now <= now
    BY <1>6 DEF WorkType
  <2> QED
    BY <1>6, <1>12, <1>19, <2>1 DEF Drift
<1>21. RequestsOK'
  BY <1>11, <1>12, <1>18, <1>20, OneRequest DEF EconomyInv
<1>22. ChainOK' /\ CachesOK' /\ events' \in 0 .. MaxEvents
  BY <1>12, <1>19, EventsStay DEF EconomyInv, ChainOK, CachesOK, cacheVars
<1> QED
  BY <1>12, <1>21, <1>22 DEF EconomyInv
-----------------------------------------------------------------------------
(* The rest of the system.                                                  *)

LEMMA NobodyMoves ==
    ASSUME EconomyInv, UNCHANGED <<req, now>>,
           Drift(now, aggregator, session, work, now, aggregator', session', work')
    PROVE  RequestsOK'
<1>1. ASSUME NEW r \in Requests, Fetching(r) PROVE now' <= req[r].since + MaxFetch
  BY <1>1, Locals DEF ReqInv, FetchOK, Fetching
<1> QED
  BY <1>1, NoRequest DEF EconomyInv

\* The contracts or the feed change.
LEMMA ChainMoves ==
    ASSUME EconomyInv, UNCHANGED <<now, session, miner, cacheVars, req, work>>, Happens \/ Quiet,
           ChainOK', \A c \in Chain : aggregator[c].txs <= aggregator'[c].txs
    PROVE  EconomyInv'
<1>1. now \in Nat /\ work \in WorkType /\ aggregator \in AggregatorType /\ aggregator' \in AggregatorType
  BY Numbers DEF EconomyInv, WorkOK, ChainOK
<1>2. work.offered <= work.offered /\ now <= now
  BY <1>1 DEF WorkType
<1>3. Drift(now, aggregator, session, work, now, aggregator', session', work')
  BY <1>1, <1>2 DEF Drift
<1>4. RequestsOK'
  BY <1>3, NobodyMoves
<1>5. CachesOK' /\ events' \in 0 .. MaxEvents
  BY EventsStay DEF EconomyInv, CachesOK, cacheVars
<1> QED
  BY <1>4, <1>5 DEF EconomyInv

\* ... but no transaction of the key.
LEMMA ContractMoves ==
    ASSUME EconomyInv, UNCHANGED <<now, aggregator, session, miner, cacheVars, req, work>>,
           Happens \/ Quiet, ChainOK'
    PROVE  EconomyInv'
<1>1. \A c \in Chain : aggregator[c].txs <= aggregator'[c].txs
  BY DEF EconomyInv, ChainOK, AggregatorType
<1> QED
  BY <1>1, ChainMoves

LEMMA EdgeMoves ==
    ASSUME EconomyInv,
           \/ \E new \in EdgeChoices : proposeEdgeChange(new)
           \/ executeEdgeChange \/ cancelEdgeChange
           \/ \E ratio \in ReserveRatios : adjustForReserve(ratio)
    PROVE  EconomyInv'
<1>1. /\ houseEdge \in [current : Edges, operator : Edges, proposal : {None} \cup [new : Edges, at : Nat]]
      /\ now \in Nat
  BY Numbers DEF EconomyInv, ChainOK
<1>2. ASSUME houseEdge' \in [current : Edges, operator : Edges, proposal : {None} \cup [new : Edges, at : Nat]],
             UNCHANGED <<now, stakes, treasury, aggregator, feed, session, miner, cacheVars, req, work>>,
             Happens \/ Quiet
      PROVE  EconomyInv'
  <2>1. ChainOK'
    BY <1>2 DEF EconomyInv, ChainOK
  <2> QED
    BY <1>2, <2>1, ContractMoves
<1>3. ASSUME NEW new \in EdgeChoices, proposeEdgeChange(new) PROVE EconomyInv'
  <2>1. [new |-> new, at |-> now] \in [new : Edges, at : Nat]
    BY <1>1, <1>3 DEF proposeEdgeChange, Edges
  <2> QED
    BY <1>1, <1>2, <1>3, <2>1 DEF proposeEdgeChange
<1>4. ASSUME executeEdgeChange PROVE EconomyInv'
  <2>1. houseEdge.proposal \in [new : Edges, at : Nat]
    BY <1>1, <1>4 DEF executeEdgeChange
  <2> QED
    BY <1>1, <1>2, <1>4, <2>1 DEF executeEdgeChange
<1>5. ASSUME cancelEdgeChange PROVE EconomyInv'
  BY <1>1, <1>2, <1>5 DEF cancelEdgeChange
<1>6. ASSUME NEW ratio \in ReserveRatios, adjustForReserve(ratio) PROVE EconomyInv'
  <2>1. 2400 \in Edges /\ 2200 \in Edges
    BY DEF Edges
  <2> QED
    BY <1>1, <1>2, <1>6, <2>1 DEF adjustForReserve
<1> QED
  BY <1>3, <1>4, <1>5, <1>6

LEMMA StakeMoves ==
    ASSUME EconomyInv, NEW c \in Chain,
           \/ \E amount \in StakeAmounts, p \in 0 .. 2 : stake(c, amount, p)
           \/ unstake(c)
    PROVE  EconomyInv'
<1> DEFINE Stake == [amount : Nat, lockPeriod : 0 .. 2, unlockAt : Nat, active : BOOLEAN]
<1>1. stakes \in [Chain -> Stake] /\ stakes["Polygon"].lockPeriod = 0 /\ now \in Nat
  BY Numbers DEF EconomyInv, ChainOK
<1>2. ASSUME NEW s \in Stake, stakes' = [stakes EXCEPT ![c] = s], c = "Polygon" => s.lockPeriod = 0,
             UNCHANGED <<now, houseEdge, treasury, aggregator, feed, session, miner, cacheVars, req, work>>,
             Happens \/ Quiet
      PROVE  EconomyInv'
  <2>1. stakes' \in [Chain -> Stake] /\ stakes'["Polygon"].lockPeriod = 0
    BY <1>1, <1>2, ChainIs
  <2>2. ChainOK'
    BY <1>2, <2>1 DEF EconomyInv, ChainOK
  <2> QED
    BY <1>2, <2>2, ContractMoves
<1>3. ASSUME NEW amount \in StakeAmounts, NEW p \in 0 .. 2, stake(c, amount, p) PROVE EconomyInv'
  <2>1. PICK s : s = [amount |-> amount, active |-> TRUE,
                      lockPeriod |-> IF c = "Ethereum" THEN p ELSE 0,
                      unlockAt |-> IF c = "Ethereum" THEN now + LOCK_DURATION ELSE now]
    OBVIOUS
  <2>2. amount \in Nat /\ now + LOCK_DURATION \in Nat /\ 0 \in 0 .. 2
    <3>1. amount \in Nat
      BY EconomyAssumption
    <3>2. LOCK_DURATION \in Nat
      BY Numbers
    <3> QED
      BY <1>1, <3>1, <3>2
  <2>3. s \in Stake /\ (c = "Polygon" => s.lockPeriod = 0)
    BY <1>1, <2>1, <2>2
  <2> QED
    BY <1>2, <1>3, <2>1, <2>3 DEF stake
<1>4. ASSUME unstake(c) PROVE EconomyInv'
  <2>1. PICK s : s = [stakes[c] EXCEPT !.active = FALSE, !.amount = 0]
    OBVIOUS
  <2>2. s \in Stake /\ (c = "Polygon" => s.lockPeriod = 0)
    BY <1>1, <2>1
  <2> QED
    BY <1>2, <1>4, <2>1, <2>2 DEF unstake
<1> QED
  BY <1>3, <1>4

\* What a sequence of chains holds is a chain.
LEMMA ElementOfSeq ==
    ASSUME NEW s \in Seq(Chain), NEW c \in Range(s)
    PROVE  c \in Chain
<1>1. PICK i \in DOMAIN s : c = s[i]
  BY DEF Range
<1> QED
  BY <1>1

LEMMA TreasuryMoves ==
    ASSUME EconomyInv, NEW c \in Range(Treasuries), NEW token \in {"usdc", "usdt"}, NEW amount \in Deposits,
           \/ depositReserve(c, token, amount)
           \/ withdrawReserve(c, token, amount) \/ payRedemption(c, token, amount)
    PROVE  EconomyInv'
<1> DEFINE Held == [usdc : Nat, usdt : Nat, redeemed : Nat]
<1>1. treasury \in [Chain -> Held] /\ amount \in Nat
  BY EconomyAssumption DEF EconomyInv, ChainOK
<1>2. c \in Chain
  BY EconomyAssumption, ElementOfSeq
<1>3. PICK t : t = treasury[c]
  OBVIOUS
<1>4. t \in Held
  BY <1>1, <1>2, <1>3
<1>5. ASSUME NEW s \in Held, treasury' = [treasury EXCEPT ![c] = s],
             UNCHANGED <<now, houseEdge, stakes, aggregator, feed, session, miner, cacheVars, req, work>>,
             Happens \/ Quiet
      PROVE  EconomyInv'
  <2>1. treasury' \in [Chain -> Held]
    BY <1>1, <1>5
  <2>2. ChainOK'
    BY <1>5, <2>1 DEF EconomyInv, ChainOK
  <2> QED
    BY <1>5, <2>2, ContractMoves
<1>6. CASE depositReserve(c, token, amount)
  <2>1. PICK s : s = [t EXCEPT ![token] = @ + amount]
    OBVIOUS
  <2>2. s \in Held
    BY <1>1, <1>4, <2>1
  <2>3. treasury' = [treasury EXCEPT ![c] = s]
    BY <1>1, <1>2, <1>3, <1>6, <2>1 DEF depositReserve
  <2> QED
    BY <1>5, <1>6, <2>2, <2>3 DEF depositReserve
<1>7. CASE withdrawReserve(c, token, amount)
  <2>1. PICK s : s = [t EXCEPT ![token] = @ - amount]
    OBVIOUS
  <2>2. t[token] \in Nat /\ amount <= t[token]
    BY <1>3, <1>4, <1>7 DEF withdrawReserve
  <2>3. t[token] - amount \in Nat
    BY <1>1, <2>2
  <2>4. s \in Held
    BY <1>4, <2>1, <2>3
  <2>5. treasury' = [treasury EXCEPT ![c] = s]
    BY <1>1, <1>2, <1>3, <1>7, <2>1 DEF withdrawReserve
  <2> QED
    BY <1>5, <1>7, <2>4, <2>5 DEF withdrawReserve
<1>8. CASE payRedemption(c, token, amount)
  <2>1. PICK s : s = [t EXCEPT ![token] = @ - amount, !.redeemed = @ + amount]
    OBVIOUS
  <2>2. t[token] \in Nat /\ amount <= t[token]
    BY <1>3, <1>4, <1>8 DEF payRedemption
  <2>3. PICK rest, paid : rest = t[token] - amount /\ paid = t.redeemed + amount
    OBVIOUS
  <2>4. rest \in Nat /\ paid \in Nat
    BY <1>1, <1>4, <2>2, <2>3
  <2>5. s \in Held
    <3>1. CASE token = "usdc"
      <4>1. s = [usdc |-> rest, usdt |-> t.usdt, redeemed |-> paid]
        BY <1>4, <2>1, <2>3, <3>1
      <4> QED
        BY <1>4, <2>4, <4>1
    <3>2. CASE token = "usdt"
      <4>1. s = [usdc |-> t.usdc, usdt |-> rest, redeemed |-> paid]
        BY <1>4, <2>1, <2>3, <3>2
      <4> QED
        BY <1>4, <2>4, <4>1
    <3> QED
      BY <3>1, <3>2
  <2>6. treasury' = [treasury EXCEPT ![c] = s]
    BY <1>3, <1>8, <2>1 DEF payRedemption
  <2> QED
    BY <1>5, <1>8, <2>5, <2>6 DEF payRedemption
<1> QED
  BY <1>6, <1>7, <1>8

LEMMA AggregatorMoves ==
    ASSUME EconomyInv, NEW c \in Range(Submitters),
           \/ OtherSubmission(c)
           \/ \E raw \in RawPrices : forceSubmitPrice(c, read_price(session.commodity, raw))
    PROVE  EconomyInv'
<1>1. aggregator \in [Chain -> [price : Nat, txs : Nat]]
  BY DEF EconomyInv, ChainOK, AggregatorType
<1>2. c \in Chain
  BY EconomyAssumption, ElementOfSeq
<1>3. ASSUME NEW price \in Nat, NEW txs \in Nat, aggregator[c].txs <= txs,
             aggregator' = [aggregator EXCEPT ![c] = [price |-> price, txs |-> txs]],
             UNCHANGED <<now, houseEdge, stakes, treasury, feed, session, miner, cacheVars, req, work>>,
             Happens \/ Quiet
      PROVE  EconomyInv'
  <2>1. aggregator' \in AggregatorType /\ \A x \in Chain : aggregator[x].txs <= aggregator'[x].txs
    BY <1>1, <1>2, <1>3 DEF AggregatorType
  <2>2. ChainOK'
    BY <1>3, <2>1 DEF EconomyInv, ChainOK
  <2> QED
    BY <1>3, <2>1, <2>2, ChainMoves
<1>4. PICK a : a = aggregator[c]
  OBVIOUS
<1>5. a \in [price : Nat, txs : Nat] /\ a.txs <= a.txs /\ a.txs <= a.txs + 1
  BY <1>1, <1>2, <1>4
<1>6. CASE OtherSubmission(c)
  <2>1. PICK txs : txs = a.txs + 1
    OBVIOUS
  <2>2. aggregator' = [aggregator EXCEPT ![c] = [a EXCEPT !.txs = txs]]
    BY <1>4, <1>6, <2>1 DEF OtherSubmission
  <2>3. [a EXCEPT !.txs = txs] = [price |-> a.price, txs |-> txs]
    BY <1>5
  <2>4. txs \in Nat /\ a.price \in Nat /\ aggregator[c].txs <= txs
    BY <1>4, <1>5, <2>1
  <2> QED
    BY <1>3, <1>6, <2>2, <2>3, <2>4 DEF OtherSubmission
<1>7. ASSUME NEW raw \in RawPrices, forceSubmitPrice(c, read_price(session.commodity, raw)) PROVE EconomyInv'
  <2>1. PICK new : new = read_price(session.commodity, raw)
    OBVIOUS
  <2>2. new \in Nat
    BY <1>7, <2>1, ReadPriceType DEF forceSubmitPrice
  <2>3. aggregator' = [aggregator EXCEPT ![c] = [a EXCEPT !.price = new]]
    BY <1>4, <1>7, <2>1 DEF forceSubmitPrice
  <2>4. [a EXCEPT !.price = new] = [price |-> new, txs |-> a.txs]
    BY <1>5
  <2>5. a.txs \in Nat /\ aggregator[c].txs <= a.txs
    BY <1>4, <1>5
  <2> QED
    BY <1>3, <1>7, <2>2, <2>3, <2>4, <2>5 DEF forceSubmitPrice
<1> QED
  BY <1>6, <1>7

LEMMA FeedMovesInv ==
    ASSUME EconomyInv, NEW raw \in RawPrices, FeedMoves(raw)
    PROVE  EconomyInv'
<1>1. ChainOK'
  BY DEF EconomyInv, ChainOK, FeedMoves, chainVars
<1> QED
  BY <1>1, ContractMoves DEF FeedMoves, chainVars

\* One submission moves on.
LEMMA OwedChange ==
    ASSUME NEW mn \in MinerType, NEW m \in Miners, NEW v \in ProofType, NEW nn, nn = [mn EXCEPT ![m] = v]
    PROVE  /\ nn \in MinerType /\ Owed(mn) \in Nat /\ mn[m].difficulty \in Nat
           /\ Owed(nn) = Owed(mn) - mn[m].difficulty + v.difficulty
<1>1. PICK f, g : /\ f = [x \in Miners |-> mn[x].difficulty]
                  /\ g = [x \in Miners |-> nn[x].difficulty]
  OBVIOUS
<1>2. nn \in MinerType
  BY DEF MinerType
<1>3. /\ \A x \in Miners : f[x] \in Nat /\ f[x] \in Int
      /\ g[m] = v.difficulty /\ g[m] \in Int /\ f[m] = mn[m].difficulty
      /\ \A x \in Miners : x # m => g[x] = f[x]
  BY <1>1, <1>2 DEF MinerType, ProofType
<1>4. IsFiniteSet(Miners)
  BY EconomyAssumption
<1>5. SumFunctionOnSet(g, Miners) = SumFunctionOnSet(f, Miners) - f[m] + g[m]
  BY <1>3, <1>4, SumChange
<1> QED
  BY <1>1, <1>2, <1>3, <1>5, OwedType DEF Owed

\* A submission changes the session's keys or samples, the work and itself.
LEMMA MinerMoves ==
    ASSUME EconomyInv, UNCHANGED <<now, chainVars, feed, cacheVars, req>>, Happens \/ Quiet,
           WorkOK(session', work'), ProofsOK(session', work', miner'),
           session'.commodity = session.commodity, session'.live = session.live,
           ~session.live => session'.samples = session.samples,
           work.offered <= work'.offered, work.anchor # None => work'.anchor = work.anchor
    PROVE  EconomyInv'
<1>1. now \in Nat /\ work \in WorkType /\ work' \in WorkType /\ aggregator \in AggregatorType
  BY Numbers DEF EconomyInv, WorkOK, ChainOK
<1>2. now <= now /\ \A c \in Chain : aggregator[c].txs <= aggregator[c].txs
  BY <1>1 DEF AggregatorType
<1>3. Drift(now, aggregator, session, work, now, aggregator', session', work')
  BY <1>1, <1>2 DEF Drift, chainVars
<1>4. RequestsOK'
  BY <1>3, NobodyMoves
<1>5. ChainOK' /\ CachesOK' /\ events' \in 0 .. MaxEvents
  BY EventsStay DEF EconomyInv, ChainOK, CachesOK, chainVars, cacheVars
<1> QED
  BY <1>4, <1>5 DEF EconomyInv

\* Before the move.
LEMMA MinerLocals ==
    ASSUME EconomyInv, NEW m \in Miners
    PROVE  /\ now \in Nat /\ session \in SessionType /\ work \in WorkType /\ miner \in MinerType
           /\ WorkOK(session, work) /\ ProofsOK(session, work, miner)
           /\ miner[m].stamp \in Nat /\ miner[m].difficulty \in Nat
           /\ session.sum \in Nat /\ work.offered \in Nat /\ AnchorOf(work) \in Nat
           /\ Owed(miner) \in Nat /\ work.offered <= work.offered
<1>1. /\ now \in Nat /\ session \in SessionType /\ work \in WorkType /\ miner \in MinerType
      /\ WorkOK(session, work) /\ ProofsOK(session, work, miner)
  BY Numbers DEF EconomyInv, WorkOK, ProofsOK
<1>2. session.sum \in Nat /\ work.offered \in Nat /\ AnchorOf(work) \in Nat
  BY <1>1, Numbers DEF SessionType, WorkType, Time, AnchorOf
<1>3. miner[m].stamp \in Nat /\ miner[m].difficulty \in Nat
  BY <1>1 DEF MinerType, ProofType
<1> QED
  BY <1>1, <1>2, <1>3, OwedType

\* Only a key or the samples change, and the submission owes nothing more.
LEMMA MinerLater ==
    ASSUME EconomyInv, NEW m \in Miners, NEW v \in ProofType, miner' = [miner EXCEPT ![m] = v],
           v.difficulty = 0, v.at # "count", UNCHANGED <<now, chainVars, feed, cacheVars, req, work>>, Happens \/ Quiet,
           session' \in SessionType, session'.commodity = session.commodity,
           session'.first = session.first, session'.sum = session.sum, session'.live = session.live,
           ~session.live => session'.samples = session.samples
    PROVE  EconomyInv'
<1>1. /\ WorkOK(session, work) /\ ProofsOK(session, work, miner) /\ miner \in MinerType
      /\ session.sum \in Nat /\ work.offered \in Nat /\ AnchorOf(work) \in Nat
      /\ miner[m].difficulty \in Nat /\ Owed(miner) \in Nat /\ work.offered <= work.offered
  BY MinerLocals
<1>2. miner' \in MinerType /\ Owed(miner') = Owed(miner) - miner[m].difficulty + v.difficulty
  BY <1>1, OwedChange
<1>3. session.sum + AnchorOf(work) + Owed(miner) <= work.offered
  BY <1>1 DEF ProofsOK
<1>4. Owed(miner') <= Owed(miner) /\ Owed(miner') \in Int
  BY <1>1, <1>2
<1>5. session.sum + AnchorOf(work) + Owed(miner') <= work.offered
  BY <1>1, <1>3, <1>4
<1>6. ProofsOK(session', work', miner')
  <2>1. \A x \in Miners : miner'[x].at = "count" => session'.first # None
    BY <1>1 DEF ProofsOK, MinerType
  <2> QED
    BY <1>2, <1>5, <2>1 DEF ProofsOK
<1>7. WorkOK(session', work')
  BY <1>1 DEF WorkOK
<1> QED
  BY <1>1, <1>6, <1>7, MinerMoves

LEMMA SubmitProofInv ==
    ASSUME EconomyInv, NEW m \in Miners, NEW d \in Difficulties, submit_proof(m, d)
    PROVE  EconomyInv'
<1>1. /\ now \in Nat /\ session \in SessionType /\ work \in WorkType /\ miner \in MinerType
      /\ WorkOK(session, work) /\ ProofsOK(session, work, miner)
      /\ session.sum \in Nat /\ work.offered \in Nat /\ AnchorOf(work) \in Nat
      /\ Owed(miner) \in Nat /\ miner[m].difficulty \in Nat
  BY MinerLocals
<1>2. d \in Nat
  BY EconomyAssumption
<1>3. PICK v : v = [at |-> "anchor", stamp |-> now, difficulty |-> d]
  OBVIOUS
<1>4. v \in ProofType /\ v.difficulty = d /\ v.at = "anchor"
  BY <1>1, <1>2, <1>3 DEF ProofType
<1>5. /\ miner' = [miner EXCEPT ![m] = v]
      /\ work' = [work EXCEPT !.proofs = @ + 1, !.offered = @ + d]
      /\ UNCHANGED <<now, chainVars, feed, session, cacheVars, req, events>>
  BY <1>3 DEF submit_proof
<1>6. miner' \in MinerType /\ Owed(miner') = Owed(miner) - miner[m].difficulty + d
  BY <1>1, <1>2, <1>4, <1>5, OwedChange
<1>7. work' \in WorkType /\ work'.offered = work.offered + d /\ work'.anchor = work.anchor
  <2>1. PICK n, o : n = work.proofs + 1 /\ o = work.offered + d
    OBVIOUS
  <2>2. n \in Nat /\ o \in Nat
    BY <1>1, <1>2, <2>1 DEF WorkType
  <2>3. work' = [work EXCEPT !.proofs = n, !.offered = o]
    BY <1>5, <2>1
  <2> QED
    BY <1>1, <2>1, <2>2, <2>3 DEF WorkType
<1>8. AnchorOf(work') = AnchorOf(work)
  BY <1>7 DEF AnchorOf
<1>9. session.sum + AnchorOf(work) + Owed(miner) <= work.offered
  BY <1>1 DEF ProofsOK
<1>10. session'.sum + AnchorOf(work') + Owed(miner') <= work'.offered /\ work.offered <= work'.offered
  BY <1>1, <1>2, <1>5, <1>6, <1>7, <1>8, <1>9
<1>11. ProofsOK(session', work', miner') /\ WorkOK(session', work')
  <2>1. \A x \in Miners : miner'[x].at = "count" => session'.first # None
    BY <1>1, <1>4, <1>5 DEF ProofsOK, MinerType
  <2> QED
    BY <1>1, <1>5, <1>6, <1>7, <1>10, <2>1 DEF ProofsOK, WorkOK
<1> QED
  BY <1>5, <1>7, <1>10, <1>11, MinerMoves DEF Quiet

LEMMA AnchorInv ==
    ASSUME EconomyInv, NEW m \in Miners, Anchor(m)
    PROVE  EconomyInv'
<1>1. /\ now \in Nat /\ session \in SessionType /\ work \in WorkType /\ miner \in MinerType
      /\ WorkOK(session, work) /\ ProofsOK(session, work, miner)
      /\ miner[m].stamp \in Nat /\ miner[m].difficulty \in Nat
      /\ session.sum \in Nat /\ work.offered \in Nat /\ AnchorOf(work) \in Nat
      /\ Owed(miner) \in Nat /\ work.offered <= work.offered
  BY MinerLocals
<1>2. UNCHANGED <<now, chainVars, feed, cacheVars, req>> /\ (Happens \/ Quiet)
  BY DEF Anchor
<1>3. PICK v, d, at : /\ v = [at |-> "stamp", stamp |-> miner[m].stamp, difficulty |-> 0]
                      /\ d = miner[m].difficulty /\ at = miner[m].stamp
  OBVIOUS
<1>4. v \in ProofType /\ v.difficulty = 0 /\ v.at # "count"
  BY <1>1, <1>3 DEF ProofType
<1>5. session.sum + AnchorOf(work) + Owed(miner) <= work.offered
  BY <1>1 DEF ProofsOK
<1>6. ASSUME session.first = None, session' = Anchored(m),
             work' = [work EXCEPT !.anchor = miner[m].difficulty], RecordDone(m)
      PROVE  EconomyInv'
  <2>1. session' = [session EXCEPT !.first = at] /\ work' = [work EXCEPT !.anchor = d]
        /\ miner' = [miner EXCEPT ![m] = v]
    BY <1>3, <1>6 DEF Anchored, RecordDone
  <2>2. /\ session' \in SessionType /\ session'.first = at /\ session'.sum = session.sum
        /\ session'.live = session.live /\ session'.samples = session.samples
        /\ session'.commodity = session.commodity
    BY <1>1, <1>3, <2>1 DEF SessionType, Time
  <2>3. work' \in WorkType /\ work'.offered = work.offered /\ work'.anchor = d
    BY <1>1, <1>3, <2>1 DEF WorkType, Time
  <2>4. work.anchor = None /\ at # None /\ d # None
    BY <1>1, <1>3, <1>6, Numbers DEF WorkOK
  <2>5. AnchorOf(work) = 0 /\ AnchorOf(work') = d
    BY <2>3, <2>4 DEF AnchorOf
  <2>6. miner' \in MinerType /\ Owed(miner') = Owed(miner) - d + 0
    BY <1>1, <1>3, <1>4, <2>1, OwedChange
  <2>7. session'.sum + AnchorOf(work') + Owed(miner') <= work'.offered
    BY <1>1, <1>3, <1>5, <2>2, <2>3, <2>5, <2>6
  <2>8. ProofsOK(session', work', miner') /\ WorkOK(session', work')
    BY <2>2, <2>3, <2>4, <2>6, <2>7 DEF ProofsOK, WorkOK
  <2> QED
    BY <1>1, <1>2, <2>2, <2>3, <2>4, <2>8, MinerMoves
<1>7. ASSUME session.first # None, miner' = [miner EXCEPT ![m].at = "count"], UNCHANGED <<session, work>>
      PROVE  EconomyInv'
  <2>1. PICK u : u = [at |-> "count", stamp |-> at, difficulty |-> d]
    OBVIOUS
  <2>2. u \in ProofType /\ u.difficulty = d
    BY <1>1, <1>3, <2>1 DEF ProofType
  <2>3. miner' = [miner EXCEPT ![m] = u]
    <3>1. miner[m] \in ProofType
      BY <1>1 DEF MinerType
    <3>2. [miner[m] EXCEPT !.at = "count"] = u
      BY <1>3, <2>1, <3>1 DEF ProofType
    <3> QED
      BY <1>7, <3>2
  <2>4. miner' \in MinerType /\ Owed(miner') = Owed(miner) - d + d
    BY <1>1, <1>3, <2>2, <2>3, OwedChange
  <2>5. Owed(miner') = Owed(miner)
    BY <1>1, <1>3, <2>4
  <2>6. ProofsOK(session', work', miner') /\ WorkOK(session', work')
    BY <1>1, <1>5, <1>7, <2>4, <2>5 DEF ProofsOK
  <2> QED
    BY <1>1, <1>2, <1>7, <2>6, MinerMoves
<1>8. ASSUME RecordDone(m), UNCHANGED <<session, work>>
      PROVE  EconomyInv'
  <2>1. miner' = [miner EXCEPT ![m] = v]
    BY <1>3, <1>8 DEF RecordDone
  <2> QED
    BY <1>1, <1>2, <1>4, <1>8, <2>1, MinerLater
<1> QED
  BY <1>6, <1>7, <1>8 DEF Anchor

LEMMA RecordInv ==
    ASSUME EconomyInv, NEW m \in Miners, record_accepted_proof(m)
    PROVE  EconomyInv'
<1>1. /\ session \in SessionType /\ work \in WorkType /\ miner \in MinerType
      /\ WorkOK(session, work) /\ ProofsOK(session, work, miner)
      /\ miner[m].stamp \in Nat /\ miner[m].difficulty \in Nat
      /\ session.sum \in Nat /\ work.offered \in Nat /\ AnchorOf(work) \in Nat
      /\ Owed(miner) \in Nat /\ work.offered <= work.offered
  BY MinerLocals
<1>2. UNCHANGED <<now, chainVars, feed, cacheVars, req, work>> /\ (Happens \/ Quiet)
  BY DEF record_accepted_proof
<1>3. PICK v, d : /\ v = [at |-> "stamp", stamp |-> miner[m].stamp, difficulty |-> 0]
                  /\ d = miner[m].difficulty
  OBVIOUS
<1>4. v \in ProofType /\ v.difficulty = 0 /\ v.at # "count" /\ session.first # None /\ miner' = [miner EXCEPT ![m] = v]
  BY <1>1, <1>3 DEF ProofType, record_accepted_proof, RecordDone, ProofsOK
<1>5. CASE session' = [session EXCEPT !.sum = @ + miner[m].difficulty]
  <2>1. PICK sum : sum = session.sum + d
    OBVIOUS
  <2>2. sum \in Nat /\ session' = [session EXCEPT !.sum = sum]
    BY <1>1, <1>3, <1>5, <2>1
  <2>3. /\ session' \in SessionType /\ session'.first = session.first /\ session'.sum = sum
        /\ session'.live = session.live /\ session'.samples = session.samples
        /\ session'.commodity = session.commodity
    BY <1>1, <2>2 DEF SessionType
  <2>4. miner' \in MinerType /\ Owed(miner') = Owed(miner) - d + 0
    BY <1>1, <1>3, <1>4, OwedChange
  <2>5. session.sum + AnchorOf(work) + Owed(miner) <= work.offered
    BY <1>1 DEF ProofsOK
  <2>6. session'.sum + AnchorOf(work) + Owed(miner') <= work.offered
    BY <1>1, <1>3, <2>1, <2>3, <2>4, <2>5
  <2>7. ProofsOK(session', work', miner') /\ WorkOK(session', work')
    BY <1>1, <1>2, <1>4, <2>3, <2>4, <2>6 DEF ProofsOK, WorkOK
  <2> QED
    BY <1>1, <1>2, <2>3, <2>7, MinerMoves
<1>6. CASE UNCHANGED session
  BY <1>1, <1>2, <1>4, <1>6, MinerLater
<1> QED
  BY <1>5, <1>6 DEF record_accepted_proof

LEMMA StampInv == ASSUME EconomyInv, NEW m \in Miners, Stamp(m) PROVE EconomyInv'
<1>1. now \in Nat /\ session \in SessionType
  BY MinerLocals
<1>2. PICK v : v = [at |-> "touch", stamp |-> now, difficulty |-> 0]
  OBVIOUS
<1>3. v \in ProofType /\ v.difficulty = 0 /\ v.at # "count"
  BY <1>1, <1>2 DEF ProofType
<1>4. /\ miner' = [miner EXCEPT ![m] = v]
      /\ UNCHANGED <<now, chainVars, feed, session, cacheVars, req, events, work>>
  BY <1>2 DEF Stamp
<1> QED
  BY <1>1, <1>3, <1>4, MinerLater DEF Quiet

LEMMA TouchInv == ASSUME EconomyInv, NEW m \in Miners, touch_last_activity(m) PROVE EconomyInv'
<1>1. session \in SessionType /\ miner[m].stamp \in Nat
  BY MinerLocals
<1>2. PICK v, at : v = [at |-> "sample", stamp |-> 0, difficulty |-> 0] /\ at = miner[m].stamp
  OBVIOUS
<1>3. v \in ProofType /\ v.difficulty = 0 /\ v.at # "count"
  BY <1>2 DEF ProofType
<1>4. /\ miner' = [miner EXCEPT ![m] = v] /\ (Happens \/ Quiet)
      /\ UNCHANGED <<now, chainVars, feed, cacheVars, req, work>>
      /\ session' = [session EXCEPT !.last = at] \/ session' = session
  BY <1>2 DEF touch_last_activity
<1>5. /\ session' \in SessionType /\ session'.commodity = session.commodity
      /\ session'.first = session.first /\ session'.sum = session.sum /\ session'.live = session.live
      /\ session'.samples = session.samples
  BY <1>1, <1>2, <1>4 DEF SessionType, Time
<1> QED
  BY <1>3, <1>4, <1>5, MinerLater

LEMMA SampleInv == ASSUME EconomyInv, NEW m \in Miners, sample_into_twap(m) PROVE EconomyInv'
<1>1. session \in SessionType /\ feed \in RawPrices
  BY DEF EconomyInv, WorkOK, ChainOK
<1>2. PICK price : price = read_price(session.commodity, feed)
  OBVIOUS
<1>3. NoProof \in ProofType /\ NoProof.difficulty = 0 /\ NoProof.at # "count"
  BY DEF NoProof, ProofType
<1>4. /\ miner' = [miner EXCEPT ![m] = NoProof] /\ (Happens \/ Quiet)
      /\ UNCHANGED <<now, chainVars, feed, cacheVars, req, work>>
      /\ \/ session' = session
         \/ session' = IF session.live /\ price # NoPrice
                       THEN [session EXCEPT !.samples = Append(@, price)] ELSE session
  BY <1>2 DEF sample_into_twap
<1>5. price \in Nat \cup {NoPrice}
  BY <1>1, <1>2, ReadPriceType
<1>6. CASE session.live /\ price # NoPrice /\ session' # session
  <2>1. PICK samples : samples = Append(session.samples, price)
    OBVIOUS
  <2>2. samples \in Seq(Nat)
    <3>1. session.samples \in Seq(Nat) /\ price \in Nat
      BY <1>1, <1>5, <1>6 DEF SessionType
    <3> QED
      BY <2>1, <3>1
  <2>3. session' = [session EXCEPT !.samples = samples]
    BY <1>4, <1>6, <2>1
  <2>4. /\ session' \in SessionType /\ session'.commodity = session.commodity
        /\ session'.first = session.first /\ session'.sum = session.sum /\ session'.live = session.live
    BY <1>1, <2>2, <2>3 DEF SessionType
  <2> QED
    BY <1>3, <1>4, <1>6, <2>4, MinerLater
<1>7. CASE ~(session.live /\ price # NoPrice /\ session' # session)
  <2>1. session' = session
    BY <1>4, <1>7
  <2> QED
    BY <1>1, <1>3, <1>4, <2>1, MinerLater
<1> QED
  BY <1>6, <1>7

LEMMA SubmissionInv == ASSUME EconomyInv, NEW m \in Miners, Submission(m) PROVE EconomyInv'
BY SubmitProofInv, AnchorInv, RecordInv, StampInv, TouchInv, SampleInv DEF Submission

LEMMA TickInv == ASSUME EconomyInv, Tick PROVE EconomyInv'
<1>1. /\ now \in 0 .. MaxTime /\ now \in Nat /\ MaxTime \in Nat /\ MaxFetch \in Nat
      /\ work \in WorkType /\ aggregator \in AggregatorType
  BY Numbers DEF EconomyInv, WorkOK, ChainOK
<1>2. /\ now' = now + 1 /\ now < MaxTime
      /\ UNCHANGED <<chainVars, feed, session, miner, cacheVars, req, events, work>>
  BY DEF Tick
<1>3. now' \in 0 .. MaxTime /\ now' \in Nat /\ now <= now'
  BY <1>1, <1>2
<1>4. ASSUME NEW r \in Requests, Fetching(r) PROVE now' <= req[r].since + MaxFetch
  <2>1. req[r].since \in Nat
    BY Locals DEF ReqType
  <2>2. now < req[r].since + MaxFetch
    BY <1>4 DEF Tick
  <2> QED
    BY <1>1, <1>2, <2>1, <2>2
<1>5. Drift(now, aggregator, session, work, now', aggregator', session', work')
  <2>1. work.offered <= work.offered
    BY <1>1 DEF WorkType
  <2>2. \A c \in Chain : aggregator[c].txs <= aggregator[c].txs
    BY <1>1 DEF AggregatorType
  <2> QED
    BY <1>1, <1>2, <1>3, <2>1, <2>2 DEF Drift, chainVars
<1>6. RequestsOK'
  BY <1>2, <1>4, <1>5, NoRequest DEF EconomyInv
<1>7. ASSUME NEW entry, entry.fetched_at \in Nat, entry.read_at \in Nat, Recent(entry, now)
      PROVE  Recent(entry, now')
  BY <1>1, <1>3, <1>7 DEF Recent
<1>8. CachesOK'
  <2>1. /\ edgeCache \in {None} \cup EdgeEntry /\ (edgeCache # None => Recent(edgeCache, now))
        /\ reserveCache \in [Chain -> {None} \cup ReserveEntry]
        /\ \A c \in Chain : reserveCache[c] # None => Recent(reserveCache[c], now)
    BY DEF EconomyInv, CachesOK
  <2>2. edgeCache # None => Recent(edgeCache, now')
    BY <1>7, <2>1 DEF EdgeEntry
  <2>3. ASSUME NEW c \in Chain, reserveCache[c] # None PROVE Recent(reserveCache[c], now')
    <3>1. reserveCache[c] \in ReserveEntry /\ Recent(reserveCache[c], now)
      BY <2>1, <2>3
    <3> QED
      BY <1>7, <3>1 DEF ReserveEntry
  <2> QED
    BY <1>2, <2>1, <2>2, <2>3 DEF CachesOK, cacheVars
<1>9. ChainOK' /\ WorkOK(session', work')
  BY <1>2 DEF EconomyInv, ChainOK, chainVars
<1> QED
  BY <1>2, <1>3, <1>6, <1>8, <1>9 DEF EconomyInv
-----------------------------------------------------------------------------
(* The invariant.                                                           *)

LEMMA InitInv == Init => EconomyInv
<1> SUFFICES ASSUME Init PROVE EconomyInv
  OBVIOUS
<1>1. now = 0 /\ events = 0 /\ now \in 0 .. MaxTime /\ events \in 0 .. MaxEvents
  BY Numbers DEF Init
<1>2. ChainOK
  <2>1. houseEdge \in [current : Edges, operator : Edges, proposal : {None} \cup [new : Edges, at : Nat]]
    BY DEF Init, Edges, DEFAULT_EDGE_BPS
  <2>2. /\ stakes \in [Chain -> [amount : Nat, lockPeriod : 0 .. 2, unlockAt : Nat, active : BOOLEAN]]
        /\ stakes["Polygon"].lockPeriod = 0
    <3>1. PICK amount \in OpeningStakes :
            stakes = [c \in Chain |-> [amount |-> IF c = "Polygon" THEN amount ELSE 0, lockPeriod |-> 0,
                                       unlockAt |-> 0, active |-> (IF c = "Polygon" THEN amount ELSE 0) > 0]]
      BY DEF Init
    <3>2. amount \in Nat
      BY EconomyAssumption
    <3>3. 0 \in 0 .. 2 /\ ((IF "Polygon" = "Polygon" THEN amount ELSE 0) > 0) \in BOOLEAN
      OBVIOUS
    <3> QED
      BY <3>1, <3>2, <3>3, ChainIs
  <2>3. treasury \in [Chain -> [usdc : Nat, usdt : Nat, redeemed : Nat]] /\ aggregator \in AggregatorType
    BY DEF Init, AggregatorType
  <2>4. feed \in RawPrices
    BY EconomyAssumption DEF Init
  <2> QED
    BY <2>1, <2>2, <2>3, <2>4 DEF ChainOK
<1>3. CachesOK
  BY DEF Init, CachesOK
<1>4. WorkOK(session, work)
  <2>1. PICK empty, all : empty = <<>> /\ all = Seq(Nat)
    OBVIOUS
  <2>2. empty \in all /\ None \in Time
    BY <2>1 DEF Time
  <2>3. session \in SessionType /\ session.sum = 0 /\ session.first = None
    <3>1. session \in [commodity : Commodities, first : {None}, last : {None}, sum : {0},
                        samples : {empty}, live : {TRUE}]
      BY <2>1 DEF Init
    <3>2. session \in [commodity : Commodities, first : Time, last : Time, sum : Nat, samples : all,
                        live : BOOLEAN]
      <4>1. PICK c \in Commodities : c = session.commodity
        BY <3>1
      <4>2. session = [commodity |-> c, first |-> None, last |-> None, sum |-> 0,
                       samples |-> empty, live |-> TRUE]
        BY <3>1, <4>1
      <4> QED
        BY <2>2, <4>1, <4>2
    <3> QED
      BY <2>1, <3>1, <3>2 DEF SessionType
  <2>4. work \in WorkType /\ work.anchor = None /\ work.offered = 0
    BY DEF Init, WorkType, Time
  <2> QED
    BY <2>3, <2>4 DEF WorkOK
<1>5. RequestsOK
  <2>1. req = [r \in Requests |-> Idle]
    BY DEF Init
  <2>2. Idle \in ReqType /\ Fresh(Idle) /\ Idle.kind = None /\ Idle.step = "start"
    BY FreshIdle DEF Fresh
  <2>3. FetchOK(Idle, now)
    <3>1. None # "reserve"
      BY AbsentAssumption DEF Route
    <3> QED
      BY <2>2, <3>1 DEF FetchOK
  <2>4. ReqInv(Idle, now, aggregator, session, work)
    BY <2>2, <2>3, FreshInv
  <2> QED
    BY <2>1, <2>2, <2>4 DEF RequestsOK
<1>6. ProofsOK(session, work, miner)
  <2>1. miner = [m \in Miners |-> NoProof] /\ NoProof \in ProofType /\ NoProof.difficulty = 0 /\ NoProof.at # "count"
    BY DEF Init, NoProof, ProofType
  <2>2. miner \in MinerType /\ \A m \in Miners : miner[m].at # "count" /\ miner[m].difficulty = 0
    BY <2>1 DEF MinerType
  <2>3. Owed(miner) = 0
    <3>1. PICK f : f = [x \in Miners |-> miner[x].difficulty]
      OBVIOUS
    <3>2. IsFiniteSet(Miners)
      BY EconomyAssumption
    <3>3. \A m \in Miners : f[m] = 0 /\ f[m] \in Nat
      BY <2>2, <3>1
    <3>4. SumFunctionOnSet(f, Miners) = SumFunctionOnSet(f, {})
      BY <3>2, <3>3, SumSupport
    <3> QED
      BY <3>1, <3>4, SumEmpty DEF Owed
  <2>4. session.sum = 0 /\ work.offered = 0 /\ work.anchor = None
    BY DEF Init
  <2> QED
    BY <2>2, <2>3, <2>4 DEF ProofsOK, AnchorOf
<1> QED
  BY <1>1, <1>2, <1>3, <1>4, <1>5, <1>6 DEF EconomyInv

LEMMA StepInv == ASSUME EconomyInv, NEW r \in Requests, Step(r) PROVE EconomyInv'
BY ArriveInv, FinalizeInv, FetchNonceInv, SubmitPriceInv, CachedEdgeInv, ReadEdgeInv, CurrentEdgeInv,
   ReadFirstInv, ReadLastInv, ReadSumInv, StakingSummaryInv, SettleInv, EstimateInv, WalletSessionsInv,
   CachedReserveInv, ReadBalancesInv, ReserveBalancesInv DEF Step

LEMMA StutterInv == ASSUME EconomyInv, UNCHANGED vars PROVE EconomyInv'
<1>1. UNCHANGED <<now, chainVars, feed, session, miner, cacheVars, req, events, work>>
  BY DEF vars
<1>2. ChainOK'
  BY <1>1 DEF EconomyInv, ChainOK, chainVars
<1> QED
  BY <1>1, <1>2, ContractMoves DEF chainVars, Quiet

LEMMA NextInv == ASSUME EconomyInv, [Next]_vars PROVE EconomyInv'
<1>1. ASSUME OnChain PROVE EconomyInv'
  BY <1>1, EdgeMoves, StakeMoves, TreasuryMoves, AggregatorMoves DEF OnChain
<1>2. ASSUME Next PROVE EconomyInv'
  BY <1>1, <1>2, StepInv, SubmissionInv, FeedMovesInv, TickInv DEF Next
<1> QED
  BY <1>2, StutterInv

\* The inductive invariant: what each request has read, sent and computed,
\* tied to the clock, the session's keys, its proofs and the transactions.
THEOREM EconomyInvariant == Spec => []EconomyInv
<1>1. EconomyInv /\ [Next]_vars => EconomyInv'
  BY NextInv
<1> QED
  BY InitInv, <1>1, PTL DEF Spec
-----------------------------------------------------------------------------
(* The properties.                                                          *)

LEMMA InvType == EconomyInv => EconomyTypeOK
<1> SUFFICES ASSUME EconomyInv PROVE EconomyTypeOK
  OBVIOUS
<1>1. /\ houseEdge \in [current : Edges, operator : Edges, proposal : {None} \cup [new : Edges, at : Nat]]
      /\ stakes \in [Chain -> [amount : Nat, lockPeriod : 0 .. 2, unlockAt : Nat, active : BOOLEAN]]
      /\ treasury \in [Chain -> [usdc : Nat, usdt : Nat, redeemed : Nat]]
      /\ aggregator \in [Chain -> [price : Nat, txs : Nat]]
  BY DEF EconomyInv, ChainOK, AggregatorType
<1>2. houseEdge.current \in 1000 .. 2500 /\ houseEdge.operator \in 1000 .. 2500
  BY <1>1 DEF Edges
<1>3. ASSUME NEW c \in Chain
      PROVE  /\ stakes[c].amount \in Nat /\ stakes[c].lockPeriod \in 0 .. 2
             /\ treasury[c].usdc \in Nat /\ treasury[c].usdt \in Nat
             /\ aggregator[c].price \in Nat /\ aggregator[c].txs \in Nat
  BY <1>1
<1>4. session.sum \in Nat /\ session.samples \in Seq(Nat)
  BY DEF EconomyInv, WorkOK, SessionType
<1>5. ASSUME NEW r \in Requests
      PROVE  /\ Stage(r) \in Names
             /\ req[r].rate \in Nat /\ req[r].edge \in 0 .. BPS_DENOMINATOR
             /\ req[r].boost \in 0 .. MAX_BOOST_BPS /\ req[r].tries \in 0 .. MAX_NONCE_RETRIES
             /\ req[r].result.net \in Nat \cup {None}
  <2>1. PICK k : k = req[r]
    OBVIOUS
  <2>2. k \in ReqType /\ (k.kind # None => k.at >= 1)
    BY <2>1, Locals
  <2>3. Stage(r) \in Names
    BY <2>1, <2>2, Stages
  <2>4. /\ k.rate \in Nat /\ k.edge \in 0 .. BPS_DENOMINATOR /\ k.boost \in 0 .. MAX_BOOST_BPS
        /\ k.tries \in 0 .. MAX_NONCE_RETRIES /\ k.result \in Money
    BY <2>2 DEF ReqType
  <2> QED
    BY <2>1, <2>3, <2>4 DEF Money
<1>6. miner \in [Miners -> [at : {"idle", "anchor", "count", "stamp", "touch", "sample"},
                             stamp : Nat, difficulty : Nat]]
  BY DEF EconomyInv, ProofsOK, MinerType, ProofType
<1> QED
  BY <1>2, <1>3, <1>4, <1>5, <1>6 DEF EconomyTypeOK, EconomyInv

\* The state keeps its shape: edges within the contract's limits, retries within
\* MAX_NONCE_RETRIES, boosts within the cap, whatever the calls answer.
THEOREM EconomyTypes == Spec => []EconomyTypeOK
BY EconomyInvariant, InvType, PTL

LEMMA InvRecent == EconomyInv => ReadsAreRecent
<1> SUFFICES ASSUME EconomyInv, NEW r \in Requests
             PROVE  /\ req[r].edgeAge < CACHE_TTL + MaxFetch
                    /\ \A c \in DOMAIN req[r].report :
                          req[r].report[c] # None => req[r].report[c].age < CACHE_TTL + MaxFetch
  BY DEF ReadsAreRecent
<1>1. AgeOK(req[r])
  BY Locals DEF ReqInv
<1> QED
  BY <1>1 DEF AgeOK, Young

\* current_edge_bps and reserve_balances: what a request takes from a cache or
\* from a read was true on chain less than a TTL and a read ago, although a slow
\* answer may overwrite a newer one.
THEOREM ReadsRecent == Spec => []ReadsAreRecent
BY EconomyInvariant, InvRecent, PTL

LEMMA InvSettle == EconomyInv => SubmissionsSettle
<1> SUFFICES ASSUME EconomyInv, NEW r \in Requests, NEW c \in Chain, req[r].sent[c] # None
             PROVE  /\ req[r].sent[c].own <= 1 + req[r].sent[c].known
                    /\ req[r].sent[c].status = "ok" => req[r].sent[c].own >= 1 /\ req[r].sent[c].stored
                    /\ req[r].sent[c].status = "nonce" => req[r].sent[c].rivals > MAX_NONCE_RETRIES
  BY DEF SubmissionsSettle
<1>1. Settled(req[r].sent[c])
  BY Locals DEF ReqInv, SubmitOK
<1> QED
  BY <1>1 DEF Settled

\* submit_price lands one transaction and one more for each answer "already
\* known", reports success only when its last transaction stored the price, and
\* gives up for its nonce only when more transactions of the key came since it
\* began than it has retries.
THEOREM SubmissionsSettled == Spec => []SubmissionsSettle
BY EconomyInvariant, InvSettle, PTL

LEMMA InvBoost == EconomyInv => BoostMirrorsContract
<1> SUFFICES ASSUME EconomyInv, NEW r \in Requests, DOMAIN req[r].read = Chain
             PROVE  /\ ~req[r].read["Polygon"].active => req[r].boost = effectiveBoostBps(req[r].read["Ethereum"])
                    /\ ~req[r].read["Ethereum"].active => req[r].boost = effectiveBoostBps(req[r].read["Polygon"])
                    /\ req[r].boost >= effectiveBoostBps(req[r].read["Ethereum"])
                    /\ req[r].boost >= effectiveBoostBps(req[r].read["Polygon"])
  BY DEF BoostMirrorsContract
<1>1. PICK k, e, p : k = req[r] /\ e = k.read["Ethereum"] /\ p = k.read["Polygon"]
  OBVIOUS
<1>2. k \in ReqType /\ BoostOK(k) /\ DOMAIN k.read = Chain
  BY <1>1, Locals DEF ReqInv
<1>3. k.read \in [Chain -> StakeRead]
  <2>1. PICK D \in SUBSET Chain : k.read \in [D -> StakeRead]
    BY <1>2 DEF ReqType, Reads
  <2>2. D = Chain
    BY <1>2, <2>1
  <2> QED
    BY <2>1, <2>2
<1>4. e \in StakeRead /\ p \in StakeRead
  BY <1>1, <1>3, ChainIs
<1>5. k.boost = combined_boost_bps(e, p) /\ p.lockPeriod = 0
  BY <1>1, <1>2, ChainIs DEF BoostOK, build_summary
<1>6. /\ ~p.active => combined_boost_bps(e, p) = effectiveBoostBps(e)
      /\ ~e.active => combined_boost_bps(e, p) = effectiveBoostBps(p)
      /\ combined_boost_bps(e, p) >= effectiveBoostBps(e)
      /\ combined_boost_bps(e, p) >= effectiveBoostBps(p)
  BY <1>4, <1>5, BoostSound
<1> QED
  BY <1>1, <1>5, <1>6

\* combined_boost_bps gives what the one chain's contract states, and no less
\* than either when the wallet has staked on both.
THEOREM BoostTrue == Spec => []BoostMirrorsContract
BY EconomyInvariant, InvBoost, PTL

LEMMA InvEarned == EconomyInv => RateIsEarned
<1> SUFFICES ASSUME EconomyInv, NEW r \in Requests, req[r].kind = "settle", Done(r), req[r].result.net # None
             PROVE  /\ req[r].rate <= MAX_HASHRATE
                    /\ req[r].rate > 0 => /\ req[r].first < req[r].last
                                          /\ req[r].rate * (req[r].last - req[r].first) <= work.offered - work.anchor
                    /\ Min(Range(session.samples)) <= req[r].twap
                    /\ req[r].twap <= Max(Range(session.samples))
                    /\ req[r].result.net * CENTS_SCALE <= req[r].result.redemption
  BY DEF RateIsEarned
<1>1. PICK k : k = req[r]
  OBVIOUS
<1>2. /\ k \in ReqType /\ ReqInv(k, now, aggregator, session, work) /\ session \in SessionType
      /\ k.kind = "settle" /\ k.result.net # None
  BY <1>1, Locals
<1>3. k.rate <= MAX_HASHRATE /\ (k.rate > 0 => Covered(k, work))
  BY <1>2 DEF ReqInv, RateOK
<1>4. session.samples \in Seq(Nat) /\ session.samples # <<>> /\ k.twap = calculate(session.samples)
  BY <1>2 DEF ReqInv, PriceOK, SessionType
<1>5. Min(Range(session.samples)) <= k.twap /\ k.twap <= Max(Range(session.samples))
  BY <1>4, AverageWithin
<1>6. k.result = Pay(k, session.commodity) /\ session.commodity \in Commodities
  BY <1>2 DEF ReqInv, ResultOK, SessionType
<1>7. k.result.net * CENTS_SCALE <= k.result.redemption
  BY <1>2, <1>6, PayType
<1> QED
  BY <1>1, <1>3, <1>5, <1>7 DEF Covered

\* end_session pays at a rate that was earned: over the time between the stamps
\* it was read for, it is covered by the difficulty of the accepted proofs
\* without the one that set the clock, however submissions and reads overlap and
\* fail.  The price lies within the samples, and the user gets no more than the
\* redemption value.
THEOREM RateEarned == Spec => []RateIsEarned
BY EconomyInvariant, InvEarned, PTL

LEMMA InvAgree == EconomyInv => EstimatesAgree
<1> SUFFICES ASSUME EconomyInv, NEW r \in Requests, Done(r), req[r].result.net # None
             PROVE  req[r].result = settled(req[r])
  BY DEF EstimatesAgree
<1>1. req[r].result = Pay(req[r], session.commodity)
  BY Locals DEF ReqInv, ResultOK
<1> QED
  BY <1>1 DEF Pay, settled

\* The estimate and the list of sessions show as net what end_session would pay
\* for the rate, duration, boost, edge and price they read.
THEOREM EstimatesTrue == Spec => []EstimatesAgree
BY EconomyInvariant, InvAgree, PTL
=============================================================================
