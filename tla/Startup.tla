------------------------------ MODULE Startup -------------------------------
(***************************************************************************)
(* Start-up of the verification service, main.rs of                        *)
(* crates/verification-service: what the process makes of the environment  *)
(* it finds, and which environments it refuses to start in.  A variable is *)
(* unset, holds a usable value, or holds one that does not parse or does   *)
(* not connect.  Attestation nodes are configured in Attestation.          *)
(***************************************************************************)
EXTENDS Integers, Sequences, FiniteSets

CONSTANTS
    Chains,        \* Chain::all()
    Wallets,       \* addresses
    Secrets,       \* values of ADMIN_SESSION_SECRET, the empty one not among them
    Environments,  \* the environments the operator starts the service in
    None,          \* absent
    Invalid,       \* an entry of ADMIN_WALLET that is no address
    DEFAULT_ADMIN_SESSION_TTL_SECS,
    MaxTime,       \* bound: clock
    MaxStarts      \* bound: starts of the process

REQUIRED == {"DATABASE_URL", "REDIS_URL", "BIND_ADDR", "CHAIN_ID", "RPC_URL", "SIGNING_KEY_HEX"}
DEFAULTED == {"MINT_CEILING_ACTIVE_USERS", "MINT_CEILING_AVG_DAILY_PRM_PER_USER"}
TOLERATED == {"HOUSE_EDGE_ADDRESS", "COMPANY_WALLET", "NODE_SITES"}
OPTIONAL == DEFAULTED \cup TOLERATED \cup {"NODE_ENDPOINTS"}
PER_CHAIN == {"RPC_URL", "ORACLE_SUBMITTER_KEY_HEX", "ORACLE_AGGREGATOR_ADDRESS",
              "STAKING_ADDRESS", "TREASURY_ADDRESS"}
Value == {"unset", "bad", "ok"}

Environment ==
    [var : [REQUIRED \cup OPTIONAL -> Value],
     chain : [Chains -> [PER_CHAIN -> Value]],
     ADMIN_WALLET : Seq(Wallets \cup {Invalid}),
     ADMIN_SESSION_SECRET : Secrets \cup {None},
     ADMIN_SESSION_TTL_SECS : Nat \cup {None}]

ASSUME StartupAssumption ==
    /\ IsFiniteSet(Wallets)
    /\ Environments \subseteq Environment
    /\ Invalid \notin Wallets
    /\ None \notin Secrets \cup Wallets \cup Nat
    /\ DEFAULT_ADMIN_SESSION_TTL_SECS \in Nat
    /\ MaxTime \in Nat
    /\ MaxStarts \in Nat

VARIABLES
    now,      \* the clock
    service,  \* what the running process was built with, None while it is down
    starts    \* times the process was started

lifeVars == <<now, service, starts>>

Config ==
    [oracle_submitters : SUBSET Chains, staking_readers : SUBSET Chains,
     treasury_readers : SUBSET Chains, house_edge_reader : BOOLEAN,
     company_wallet : BOOLEAN, node_sites : BOOLEAN,
     admin_wallets : SUBSET Wallets, admin_session_secret : Secrets \cup {None},
     admin_session_ttl : Nat]

LifeTypeOK ==
    /\ now \in 0 .. MaxTime
    /\ service \in Config \cup {None}
    /\ starts \in 0 .. MaxStarts

LifeInit ==
    /\ now = 0
    /\ service = None
    /\ starts = 0
-----------------------------------------------------------------------------
\* Every required variable is there, numbers parse.
load_config(env) ==
    /\ \A v \in REQUIRED : env.var[v] # "unset"
    /\ \A v \in DEFAULTED \cup {"CHAIN_ID"} : env.var[v] # "bad"

\* Postgres, Redis, the canonical RPC, the signing key, the listener and, where
\* they are configured, the clients of the nodes.
Connects(env) ==
    /\ \A v \in REQUIRED : env.var[v] = "ok"
    /\ env.var["NODE_ENDPOINTS"] # "bad"

\* Keyed on the submitter's own two variables, the RPC alone configures nothing.
oracle_submitters(env) ==
    {c \in Chains : /\ env.chain[c]["ORACLE_SUBMITTER_KEY_HEX"] # "unset"
                    /\ env.chain[c]["ORACLE_AGGREGATOR_ADDRESS"] # "unset"}

\* Fatal: one of the two without the other, or both and something unusable.
OracleConfigFatal(env, c) ==
    LET key  == env.chain[c]["ORACLE_SUBMITTER_KEY_HEX"]
        addr == env.chain[c]["ORACLE_AGGREGATOR_ADDRESS"]
    IN  /\ {key, addr} # {"unset"}
        /\ {key, addr, env.chain[c]["RPC_URL"]} # {"ok"}

\* Optional readers: an incomplete or unusable configuration skips the chain.
ReadersOf(env, address) ==
    {c \in Chains : env.chain[c]["RPC_URL"] = "ok" /\ env.chain[c][address] = "ok"}

build_staking_readers(env) == ReadersOf(env, "STAKING_ADDRESS")
build_treasury_readers(env) == ReadersOf(env, "TREASURY_ADDRESS")
build_house_edge_reader(env) == env.var["HOUSE_EDGE_ADDRESS"] = "ok"
parse_company_wallet(env) == env.var["COMPANY_WALLET"] = "ok"
parse_node_sites(env) == env.var["NODE_SITES"] = "ok"

\* Entries that are no address are skipped.
parse_admin_wallets(raw) == {raw[i] : i \in DOMAIN raw} \ {Invalid}

\* A mutated form: the default is forgotten.
admin_session_ttl_Raw(env) == env.ADMIN_SESSION_TTL_SECS

\* Unset, or no number: the default.
admin_session_ttl(env) ==
    IF env.ADMIN_SESSION_TTL_SECS = None THEN DEFAULT_ADMIN_SESSION_TTL_SECS
    ELSE env.ADMIN_SESSION_TTL_SECS

AppState(env) ==
    [oracle_submitters |-> oracle_submitters(env),
     staking_readers |-> build_staking_readers(env),
     treasury_readers |-> build_treasury_readers(env),
     house_edge_reader |-> build_house_edge_reader(env),
     company_wallet |-> parse_company_wallet(env),
     node_sites |-> parse_node_sites(env),
     admin_wallets |-> parse_admin_wallets(env.ADMIN_WALLET),
     admin_session_secret |-> env.ADMIN_SESSION_SECRET,
     admin_session_ttl |-> admin_session_ttl(env)]

\* The process comes up, or exits where main finds something fatal.
main(env) ==
    /\ service = None
    /\ starts < MaxStarts
    /\ starts' = starts + 1
    /\ service' = IF /\ load_config(env)
                     /\ Connects(env)
                     /\ \A c \in Chains : ~OracleConfigFatal(env, c)
                  THEN AppState(env) ELSE None
    /\ UNCHANGED now
=============================================================================
