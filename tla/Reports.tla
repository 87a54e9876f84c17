------------------------------ MODULE Reports -------------------------------
(***************************************************************************)
(* What the service tells a wallet and the public about payouts: the read  *)
(* queries on mint_proposals of crates/postgres-store and the endpoints    *)
(* over them.  Each is one statement, hence a function of the state of the *)
(* mint pipeline.  All sessions of the pipeline pay one Wallet; commodities*)
(* are not told apart.                                                     *)
(***************************************************************************)
EXTENDS MintPipeline

CONSTANTS
    COMPANY_WALLET,  \* the wallet of the company, or an address nobody is paid at
    ALERTS_LIMIT     \* payouts shown in the alerts

ASSUME ReportsAssumption == ALERTS_LIMIT \in Nat \ {0}

Rows == {s \in Sessions : rows[s] # NoRow}
Confirmed == {s \in Rows : rows[s].status = "Confirmed"}
GrossOf(S) == SumFunctionOnSet([s \in Rows |-> rows[s].gross_prm], S)

\* The NUMERIC quotient cast to bigint: rounded half away from zero.
RoundToBps(n, d) == (2 * n + d) \div (2 * d)
-----------------------------------------------------------------------------
\* A mutated form: the share counts every proposal.
company_mining_share_AnyStatus(wallet) ==
    LET company == IF wallet = Wallet THEN GrossOf(Rows) ELSE 0
        total == GrossOf(Rows)
    IN  [company_prm_wei |-> company, total_prm_wei |-> total,
         share_bps |-> IF total = 0 THEN 0 ELSE RoundToBps(company * 10000, total)]
-----------------------------------------------------------------------------
\* Confirmed rows only; NULLIF guards the division.
company_mining_share(wallet) ==
    LET company == IF wallet = Wallet THEN GrossOf(Confirmed) ELSE 0
        total == GrossOf(Confirmed)
    IN  [company_prm_wei |-> company, total_prm_wei |-> total,
         share_bps |-> IF total = 0 THEN 0 ELSE RoundToBps(company * 10000, total)]

entity_share == company_mining_share(COMPANY_WALLET)

\* Earnings count every proposal, whatever became of it.
get_earnings_by_commodity ==
    [session_count |-> Cardinality(Rows), total_gross_prm |-> GrossOf(Rows)]

get_earnings_24h ==
    LET recent == {s \in Rows : WithinDay(rows[s].created_at)}
    IN  [payout_count |-> Cardinality(recent), total_gross_prm |-> GrossOf(recent)]

\* Newest first, at most limit: every answer of the database, since ORDER BY
\* created_at leaves rows of one date in any order.
get_payouts_for_wallet(limit) ==
    LET length == IF limit < Cardinality(Rows) THEN limit ELSE Cardinality(Rows)
    IN  {page \in [1 .. length -> Rows] :
            /\ IsInjective(page)
            /\ \A i, j \in 1 .. length : i < j =>
                  rows[page[i]].created_at >= rows[page[j]].created_at
            /\ \A i \in 1 .. length, s \in Rows \ Range(page) :
                  rows[page[i]].created_at >= rows[s].created_at}

payout_alert(status) ==
    CASE status = "Confirmed" -> "payout_confirmed"
      [] status = "Rejected" -> "payout_rejected"
      [] OTHER -> "payout_processing"

\* The payouts among a wallet's alerts; review flags are in Admission.
wallet_alerts ==
    {[i \in DOMAIN payouts |->
         [session_id |-> payouts[i], kind |-> payout_alert(rows[payouts[i]].status)]] :
     payouts \in get_payouts_for_wallet(ALERTS_LIMIT)}
-----------------------------------------------------------------------------
(* Property.                                                                *)

\* The reports bracket the chain, through every command of the CLI that died, was
\* repeated or marked its row late: what the company share counts was minted by
\* the contract, what it minted is in the wallet's earnings, the last day's
\* earnings are among them, and a payout is announced as confirmed only when
\* exactly its amount was minted for its session.
ReportsBracketChain ==
    /\ entity_share.total_prm_wei <= issued[MiningAddress]
    /\ issued[MiningAddress] <= get_earnings_by_commodity.total_gross_prm
    /\ get_earnings_24h.total_gross_prm <= get_earnings_by_commodity.total_gross_prm
    /\ entity_share.share_bps <= 10000
    /\ \A alerts \in wallet_alerts : \A i \in DOMAIN alerts :
          alerts[i].kind = "payout_confirmed" =>
              PaidFor(alerts[i].session_id) = rows[alerts[i].session_id].gross_prm
=============================================================================
