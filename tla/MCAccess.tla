------------------------------ MODULE MCAccess ------------------------------
(***************************************************************************)
(* Who gets in, on a small instance.  The service is started and then      *)
(* restarted with another admin and a longer session, another secret,      *)
(* without the admin layer, or in an environment it refuses.               *)
(***************************************************************************)
EXTENDS Access, TLC

CONSTANTS w1, w2, k1, k2,
          MaxLost   \* bound: keys whose EXPIRE is lost

MCBase ==
    [var |-> [v \in REQUIRED |-> "ok"] @@ [v \in DEFAULTED |-> "unset"]
             @@ [v \in TOLERATED |-> "bad"] @@ [v \in {"NODE_ENDPOINTS"} |-> "unset"],
     chain |-> [c \in Chains |-> [v \in PER_CHAIN |-> "ok"]],
     ADMIN_WALLET |-> <<w1>>, ADMIN_SESSION_SECRET |-> k1, ADMIN_SESSION_TTL_SECS |-> None]

MCEnvironments ==
    {MCBase,
     [MCBase EXCEPT !.ADMIN_WALLET = <<w2, Invalid>>, !.ADMIN_SESSION_TTL_SECS = 2],
     [MCBase EXCEPT !.ADMIN_SESSION_SECRET = k2],
     [MCBase EXCEPT !.ADMIN_SESSION_SECRET = None],
     [MCBase EXCEPT !.var["NODE_ENDPOINTS"] = "bad"],
     [MCBase EXCEPT !.chain["Polygon"]["ORACLE_SUBMITTER_KEY_HEX"] = "unset"]}

MCLimit == [p \in Phases |-> IF p = "wallet" THEN 2 ELSE 1]
MCWindow == [p \in Phases |-> IF p = "wallet" THEN 2 ELSE 1]

\* The admin layer, the limits and the flags share the process and the clock
\* only: a behaviour is about one of them.  The limits are tried with failures,
\* up to the first session and for 2 ticks; flags with one wallet whose requests
\* pass their limits one after the other, are not denied and do not fail, up to
\* the first flag.
AdminUsed == (\E n \in Nonces : minted[n] # None) \/ (\E l \in Logins : login[l] # None)
LimitsUsed == \E k \in Keys : counter[k].count > 0
Created == \E s \in Sessions : sessions[s] # None

MCBounds ==
    /\ AdminUsed => ~LimitsUsed /\ ~Created /\ creation = [q \in Creations |-> None]
    /\ Created => lost = {} /\ starts = 1
    /\ ~AdminUsed => now <= 2
    /\ Cardinality(lost) <= MaxLost
    /\ Cardinality(anomaly_events) <= 1

Ends(q) == creation[q] # None /\ creation'[q] = None

Past(q) == At(q, "count") \/ At(q, "create")

MCEvents ==
    /\ service' # None /\ service = None /\ ~AdminUsed => service' = AppState(MCBase)
    /\ service' = None /\ service # None => AdminUsed \/ lost' # lost
    /\ ~Created => \A q \in Creations : Past(q) => creation'[q] # creation[q]
    /\ sessions' # sessions => Created \/ (now = 0 /\ \A q \in Creations : ~Limited(q))
    /\ Created /\ (\E q \in Creations : Limited(q))
           => \E q \in Creations : Limited(q) /\ creation'[q] # creation[q]
    /\ Created => \A q \in Creations :
           /\ Ends(q) => sessions' # sessions
           /\ creation[q] = None /\ creation'[q] # None => \E s \in Sessions : sessions[s] = None
    /\ \A q \in Creations : creation[q] = None /\ creation'[q] # None => creation'[q].wallet = w1
    /\ \A s \in Sessions : sessions'[s] # None => \A t \in 1 .. s : sessions'[t] # None
    /\ \A n \in Nonces : minted'[n] # None => \A m \in 1 .. n : minted'[m] # None

Symmetry == Permutations(Logins) \cup Permutations(Creations)
=============================================================================
