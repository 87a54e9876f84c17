------------------------------- MODULE Payout -------------------------------
(***************************************************************************)
(* The arithmetic of a payout: crates/payout-calculator, twap-calculator,  *)
(* the price conversion of oracle-reader and the boost of                  *)
(* StakingContract.sol.  All of it is integer arithmetic that rounds down. *)
(* Stakes are counted in units of 10,000 PRM, which loses no tier.  The    *)
(* decimal scales are constants, so that an instance stays within 32 bits. *)
(***************************************************************************)
EXTENDS Integers, Sequences, FiniteSetsExt, Functions

CONSTANTS
    BASE_COEFFICIENT,   \* base_coefficient_scaled
    PRICE_COEFFICIENT,  \* price_coefficient_scaled
    USDC_SCALE,         \* decimals of a USDC amount
    PRICE_SCALE,        \* PRICE_COEFFICIENT_SCALE * TWAP_DECIMALS_SCALE
    CENTS_SCALE,        \* NET_USDC_SCALE_TO_CENTS
    TARGET_DECIMALS,    \* decimals every price is normalised to
    MAX_AMOUNT,         \* u128::MAX
    NoPrice             \* no price could be read

ASSUME PayoutAssumption ==
    /\ BASE_COEFFICIENT \in Nat /\ PRICE_COEFFICIENT \in Nat /\ USDC_SCALE \in Nat
    /\ PRICE_SCALE \in Nat \ {0} /\ CENTS_SCALE \in Nat \ {0}
    /\ TARGET_DECIMALS \in Nat /\ MAX_AMOUNT \in Nat /\ NoPrice \notin Int

BPS_DENOMINATOR == 10000
DEFAULT_EDGE_BPS == 1700
MAX_BOOST_BPS == 4000

Commodity == {"Gold", "Platinum", "Silver", "CrudeOil"}

\* Scaled by 10.
commodity_multiplier == [Gold |-> 32, Platinum |-> 26, Silver |-> 16, CrudeOil |-> 10]
commodity_difficulty == [Gold |-> 40, Platinum |-> 32, Silver |-> 20, CrudeOil |-> 10]
-----------------------------------------------------------------------------
(* Boost.                                                                   *)

\* The tiers 500,000, 100,000, 50,000 and 10,000 PRM.
\* A mutated form: a tier begins above its threshold.
base_boost_bps_Above(total) ==
    CASE total > 50 -> 2500
      [] total \in 11 .. 50 -> 1800
      [] total \in 6 .. 10 -> 1000
      [] total \in 2 .. 5 -> 500
      [] total <= 1 -> 0

base_boost_bps(total) ==
    CASE total >= 50 -> 2500
      [] total \in 10 .. 49 -> 1800
      [] total \in 5 .. 9 -> 1000
      [] total \in 1 .. 4 -> 500
      [] total < 1 -> 0

lock_multiplier_scaled(ordinal) ==
    CASE ordinal = 1 -> 130 [] ordinal = 2 -> 160 [] OTHER -> 100

\* The stakes are those of an active staker; NoStake has amount 0.
NoStake == [amount |-> 0, lockPeriod |-> 0, active |-> FALSE]

combined_boost_bps(ethereum, polygon) ==
    LET total == (IF ethereum.active THEN ethereum.amount ELSE 0)
                 + (IF polygon.active THEN polygon.amount ELSE 0)
        lock_mult == IF ethereum.active THEN lock_multiplier_scaled(ethereum.lockPeriod) ELSE 100
        effective == (base_boost_bps(total) * lock_mult) \div 100
    IN  IF effective > MAX_BOOST_BPS THEN MAX_BOOST_BPS ELSE effective

\* StakingContract.sol: the boost one chain's contract states for a stake.
lockMultiplier(lockPeriod) ==
    CASE lockPeriod = 0 -> 100 [] lockPeriod = 1 -> 130 [] OTHER -> 160

baseBoostBps(amount) ==
    IF amount >= 50 THEN 2500
    ELSE IF amount >= 10 THEN 1800
    ELSE IF amount >= 5 THEN 1000
    ELSE IF amount >= 1 THEN 500 ELSE 0

effectiveBoostBps(info) ==
    LET effective == (baseBoostBps(info.amount) * lockMultiplier(info.lockPeriod)) \div 100
    IN  IF ~info.active THEN 0
        ELSE IF effective > MAX_BOOST_BPS THEN MAX_BOOST_BPS ELSE effective
-----------------------------------------------------------------------------
(* From work to money.                                                      *)

calculate_gross_prm(hashrate, duration_secs, commodity) ==
    (hashrate * duration_secs * BASE_COEFFICIENT) \div commodity_difficulty[commodity]

apply_staking_boost(gross, boost_bps) ==
    (gross * (BPS_DENOMINATOR + boost_bps)) \div BPS_DENOMINATOR

calculate_redemption_usd(gross, twap, commodity) ==
    ((gross * twap * commodity_multiplier[commodity] * PRICE_COEFFICIENT * USDC_SCALE) \div 10)
        \div PRICE_SCALE

\* An edge of 100% or more leaves nothing.
apply_house_edge(redemption, edge_bps) ==
    (redemption * (IF edge_bps < BPS_DENOMINATOR THEN BPS_DENOMINATOR - edge_bps ELSE 0))
        \div BPS_DENOMINATOR

calculate_payout_from_gross(gross, twap, commodity, edge_bps) ==
    LET redemption == calculate_redemption_usd(gross, twap, commodity)
    IN  [gross |-> gross, redemption |-> redemption,
         net |-> apply_house_edge(redemption, edge_bps) \div CENTS_SCALE]
-----------------------------------------------------------------------------
(* Prices.                                                                  *)

\* The power of ten, as a recursive function.
pow10(n) == LET power[i \in 0 .. n] == IF i = 0 THEN 1 ELSE 10 * power[i - 1] IN power[n]

\* A raw price with its exponent, as Pyth's Hermes gives it.
convert_pyth_price(price, expo) ==
    LET shift == TARGET_DECIMALS + expo
        factor == pow10(IF shift < 0 THEN -shift ELSE shift)
    IN  IF price <= 0 \/ factor > MAX_AMOUNT THEN NoPrice
        ELSE IF shift < 0 THEN price \div factor
        ELSE IF price * factor > MAX_AMOUNT THEN NoPrice
        ELSE price * factor

\* The answer of a Chainlink aggregator, taken as it is.
fetch_chainlink(answer) == IF answer <= 0 \/ answer > MAX_AMOUNT THEN NoPrice ELSE answer

default_chainlink_feeds == {"Gold", "Silver"}
default_pyth_feeds == {"Platinum", "CrudeOil"}

read_price(commodity, raw) ==
    IF commodity \in default_chainlink_feeds THEN fetch_chainlink(raw.price)
    ELSE convert_pyth_price(raw.price, raw.expo)

\* TwapCalculator::calculate on the prices of the samples, none of them empty.
calculate(samples) == SumFunctionOnSet(samples, DOMAIN samples) \div Len(samples)
=============================================================================
