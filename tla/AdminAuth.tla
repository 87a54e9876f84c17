----------------------------- MODULE AdminAuth ------------------------------
(***************************************************************************)
(* The admin layer, crates/verification-service/src/admin.rs: login nonces *)
(* kept in memory, SIWE logins, stateless session tokens and the guard of  *)
(* /admin/*.  Anyone may sign anything with the own key, send a message    *)
(* any number of times and present any token ever issued.  A token cannot  *)
(* be made without its secret.                                             *)
(***************************************************************************)
EXTENDS Startup

CONSTANTS
    Nonces,        \* uuids drawn for nonces
    Logins,        \* concurrent login requests
    Expirations,   \* expiration times of messages, None among them
    NONCE_TTL

ASSUME AuthAssumption ==
    /\ NONCE_TTL \in Nat
    /\ None \notin Nonces \cup [at : Nat, start : Nat]

VARIABLES
    admin_nonces,  \* per outstanding nonce its time of issue, None for the others
    login,         \* per login request, what it verified and holds across the lock
    tokens,        \* tokens issued; nonce, start and ttl tell where they come from
    minted,        \* per nonce, when and in which start it was drawn
    uses           \* per nonce, the logins that succeeded with it

authVars == <<admin_nonces, login, tokens, minted, uses>>

Tokens ==
    [addr : Wallets, exp : Nat, secret : Secrets, nonce : Nonces, start : Nat, ttl : Nat]

AuthTypeOK ==
    /\ admin_nonces \in [Nonces -> Nat \cup {None}]
    /\ login \in [Logins -> [address : Wallets, nonce : Nonces, now : Nat] \cup {None}]
    /\ tokens \subseteq Tokens
    /\ minted \in [Nonces -> [at : Nat, start : Nat] \cup {None}]
    /\ uses \in [Nonces -> Nat]

AuthInit ==
    /\ admin_nonces = [n \in Nonces |-> None]
    /\ login = [l \in Logins |-> None]
    /\ tokens = {}
    /\ minted = [n \in Nonces |-> None]
    /\ uses = [n \in Nonces |-> 0]

\* The layer fails closed: both the wallets and the secret must be configured.
AdminEnabled ==
    /\ service # None
    /\ service.admin_wallets # {}
    /\ service.admin_session_secret # None
-----------------------------------------------------------------------------
(* Mutated forms, one plausible slip each.                                  *)

\* The nonce stays in the map until it is pruned.
consume_Keeps(n) == admin_nonces

\* Only pruning looks at the age of a nonce.
Outstanding_AnyAge(n) == admin_nonces[n] # None
-----------------------------------------------------------------------------
\* NonceStore::issue prunes what is expired, then inserts.
nonce(n) ==
    /\ AdminEnabled
    /\ minted[n] = None
    /\ admin_nonces' = [m \in Nonces |->
           IF m = n THEN now
           ELSE IF admin_nonces[m] # None /\ now - admin_nonces[m] < NONCE_TTL
                THEN admin_nonces[m] ELSE None]
    /\ minted' = [minted EXCEPT ![n] = [at |-> now, start |-> starts]]
    /\ UNCHANGED <<lifeVars, login, tokens, uses>>

\* A message names an address and is signed by a key; it is for this domain or
\* for another, and may carry an expiration time of its own.
verify_siwe(msg) ==
    /\ msg.signer = msg.declared
    /\ msg.domain
    /\ msg.nonce # None
    /\ msg.expiration # None => msg.expiration > now

Messages ==
    [signer : Wallets, declared : Wallets, domain : BOOLEAN, nonce : Nonces \cup {None},
     expiration : Expirations]

\* login, up to the lock of the nonces; the clock is read here.  Any other
\* message is answered 401 and leaves nothing behind.
login_verify(l, msg) ==
    /\ login[l] = None
    /\ AdminEnabled
    /\ verify_siwe(msg)
    /\ msg.signer \in service.admin_wallets
    /\ login' = [login EXCEPT ![l] =
           [address |-> msg.signer, nonce |-> msg.nonce, now |-> now]]
    /\ UNCHANGED <<lifeVars, admin_nonces, tokens, minted, uses>>

\* NonceStore::consume: what it leaves in the map, and its answer.
consume(n) == [admin_nonces EXCEPT ![n] = None]
Outstanding(n) == admin_nonces[n] # None /\ now - admin_nonces[n] < NONCE_TTL

issue_session_token(secret, addr, ttl, at, n) ==
    [addr |-> addr, exp |-> at + ttl, secret |-> secret,
     nonce |-> n, start |-> starts, ttl |-> ttl]

\* The rest of login.
login_consume(l) ==
    LET v == login[l] IN
    /\ v # None
    /\ admin_nonces' = consume(v.nonce)
    /\ login' = [login EXCEPT ![l] = None]
    /\ \/ /\ Outstanding(v.nonce)
          /\ tokens' = tokens \cup {issue_session_token(service.admin_session_secret,
                                        v.address, service.admin_session_ttl, v.now, v.nonce)}
          /\ uses' = [uses EXCEPT ![v.nonce] = @ + 1]
       \/ ~Outstanding(v.nonce) /\ UNCHANGED <<tokens, uses>>
    /\ UNCHANGED <<lifeVars, minted>>

\* The HMAC is over the payload and keyed with the secret of this process.
verify_session_token(token) ==
    /\ token.secret = service.admin_session_secret
    /\ token.exp > now

\* The requests the guard lets through to overview, which only reads, and to
\* logout, which does nothing: a token is not revoked.
admin_guard(token) ==
    /\ AdminEnabled
    /\ verify_session_token(token)
    /\ token.addr \in service.admin_wallets

\* What the process held in memory is gone; the tokens are with the clients.
AuthLost ==
    /\ admin_nonces' = [n \in Nonces |-> None]
    /\ login' = [l \in Logins |-> None]
    /\ UNCHANGED <<tokens, minted, uses>>

AuthNext ==
    \/ \E n \in Nonces : nonce(n)
    \/ \E l \in Logins : login_consume(l) \/ \E msg \in Messages : login_verify(l, msg)
-----------------------------------------------------------------------------
(* Properties.                                                              *)

\* A nonce logs in at most once, and only in the process that drew it, however
\* often its message is replayed, to however many concurrent logins, before or
\* after it expired or the service restarted (NonceStore: "A consumed or expired
\* nonce can never be reused").
LoginsAreSingle ==
    /\ \A n \in Nonces : uses[n] <= 1
    /\ \A t \in tokens : minted[t.nonce] # None /\ t.start = minted[t.nonce].start

\* An admission ends.  Whatever was replayed, restarted or reconfigured, the
\* guard admits nobody later than the lifetimes of a nonce and of a session after
\* the nonce was drawn: login reads the clock before it waits for the nonces, so
\* a slow login shortens its session and never lengthens it, and a token does
\* not outlive its own lifetime through a restart with a longer one.
AdmissionsEnd ==
    \A t \in tokens : admin_guard(t) => now < minted[t.nonce].at + NONCE_TTL + t.ttl
=============================================================================
