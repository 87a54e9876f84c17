----------------------------- MODULE MCEconomy ------------------------------
(***************************************************************************)
(* Requests of every kind on one session, two at a time where they meet in *)
(* a cache.  Prices move by less and by more than 2%; one answer of a feed *)
(* is not a price.                                                         *)
(***************************************************************************)
EXTENDS Economy, TLC

Raw(price, expo) == [price |-> price, expo |-> expo]
MCRawPrices == {Raw(200, -2), Raw(206, -2), Raw(-1, 0)}
MCOpening == Raw(200, -2)
MCChains == <<"Ethereum", "Polygon">>
MCTreasuries == <<"Ethereum">>
MCSubmitters == <<"Polygon">>

\* Requests meet only in the caches: reserve reports are paired with each other,
\* a quote with a quote.  What has no use for the session's
\* proofs runs without any, what has ends by time 2.
Begun == {r \in Requests : Stage(r) # "idle"}
Kinds == {req[r].kind : r \in Begun}
MCBounds ==
    /\ Cardinality(Begun) = 2 => Kinds \in {{"reserve"}, {"quote"}}
    /\ stakes["Polygon"].active => Kinds \subseteq {"staking"}
    /\ Kinds \cap {"settle", "estimate", "sessions"} # {} => now <= 2
    /\ work.proofs > 0 => Kinds \cap {"reserve", "staking"} = {} /\ Kinds # {"quote"}

Locked == [amount |-> 49, lockPeriod |-> 2, unlockAt |-> now + LOCK_DURATION, active |-> TRUE]

\* Whether some request has a stage ahead of it.
Ahead(stage) == \E r \in Begun : \E i \in DOMAIN Route[req[r].kind] :
    i >= req[r].at /\ Route[req[r].kind][i] = stage

\* Two proofs at a settlement: the submissions are what overlaps.
Single == work.proofs = MaxProofs => "settle" \notin Kinds

\* The chain and the feed change while some request has yet to read them; what
\* they were before is the initial state.  All stakes are tried on GET
\* /wallet/staking, one elsewhere.  Other transactions come where they make a
\* conflict, and proofs overlap with the reads of a settlement.  Time passes
\* until the last stage that the clock or a proof has a part in.
MCEvents ==
    /\ houseEdge' # houseEdge => Ahead("edge") /\ Single
    /\ stakes' # stakes =>
          /\ Ahead("stake") /\ Single
          /\ "staking" \in Kinds \/ stakes'["Ethereum"] \in {stakes["Ethereum"], Locked}
    /\ treasury' # treasury => Ahead("reserve")
    /\ aggregator' # aggregator /\ req' = req => Single /\ \E r \in Requests : At(r, "submit", "send")
    /\ feed' # feed => session.live \/ Ahead("spot")
    /\ now' # now /\ Kinds \cap {"settle", "estimate", "sessions"} # {}
           => Ahead("edge") \/ Ahead("rate")
    /\ miner' # miner => Begun = {} \/ \E r \in Begun : req[r].kind = "settle" /\ Stage(r) = "rate"

Symmetry == Permutations(Requests) \cup Permutations(Miners)
=============================================================================
