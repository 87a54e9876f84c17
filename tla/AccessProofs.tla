---------------------------- MODULE AccessProofs ----------------------------
(***************************************************************************)
(* Admin logins, rate limits and review flags for any number of wallets,   *)
(* nonces, concurrent requests, environments and restarts.  LoginInv,      *)
(* CounterInv and AdmissionInv are inductive; logins and creations share   *)
(* only the process and the clock.                                         *)
(***************************************************************************)
EXTENDS Access, SumTheorems, TLAPS

\* What makes a nonce single: while it is outstanding it was drawn by this very
\* process, at the date it carries, and no login has used it.
Unspent(n) ==
    /\ minted[n] # None
    /\ minted[n].start = starts
    /\ minted[n].at = admin_nonces[n]
    /\ uses[n] = 0

NoncesOK ==
    \A n \in Nonces :
        /\ admin_nonces[n] # None => service # None /\ Unspent(n)
        /\ minted[n] = None => uses[n] = 0
        /\ uses[n] <= 1

\* A login under way belongs to a process with a secret, and its clock is past.
LoginsOK ==
    \A l \in Logins : login[l] # None =>
        /\ service # None
        /\ service.admin_session_secret # None
        /\ login[l].now <= now

\* A token comes from a nonce of the same process and ends soon enough after it.
TokensOK ==
    \A t \in tokens :
        /\ minted[t.nonce] # None
        /\ t.start = minted[t.nonce].start
        /\ t.exp < minted[t.nonce].at + NONCE_TTL + t.ttl

LoginInv ==
    /\ LifeTypeOK
    /\ AuthTypeOK
    /\ NoncesOK
    /\ LoginsOK
    /\ TokensOK
-----------------------------------------------------------------------------
(* Counters.                                                                *)

\* A request that counts on a limit is one.
CreationsOK ==
    /\ creation = [q \in Creations |-> creation[q]]
    /\ \A q \in Creations : Limited(q) => creation[q] \in AtLimit

CountersOK ==
    /\ counter \in [Keys -> [count : Nat, expires : Nat \cup {None}]]
    /\ \A k \in Keys : counter[k].count = 0 => counter[k].expires = None

\* At most one request is about to set a TTL, and exactly where one is missing.
TtlsOK ==
    \A k \in Keys :
        /\ \A p, q \in Expiring(k) : p = q
        /\ counter[k].expires = None /\ counter[k].count > 0 /\ k \notin lost
               => Expiring(k) # {}
        /\ counter[k].expires # None \/ counter[k].count = 0 => Expiring(k) = {}

CounterInv ==
    /\ now \in Nat
    /\ CreationsOK
    /\ CountersOK
    /\ TtlsOK
-----------------------------------------------------------------------------
(* Logins.                                                                  *)

\* main builds a configuration out of every environment.
LEMMA ConfigBuilt ==
    ASSUME NEW env \in Environments
    PROVE  AppState(env) \in Config
<1>1. env \in Environment
  BY StartupAssumption
<1>2. parse_admin_wallets(env.ADMIN_WALLET) \subseteq Wallets
  <2>1. env.ADMIN_WALLET \in Seq(Wallets \cup {Invalid})
    BY <1>1 DEF Environment
  <2>2. \A i \in DOMAIN env.ADMIN_WALLET : env.ADMIN_WALLET[i] \in Wallets \cup {Invalid}
    BY <2>1
  <2> QED
    BY <2>2 DEF parse_admin_wallets
<1>3. admin_session_ttl(env) \in Nat
  BY <1>1, StartupAssumption DEF Environment, admin_session_ttl
<1>4. env.ADMIN_SESSION_SECRET \in Secrets \cup {None}
  BY <1>1 DEF Environment
<1>5. /\ oracle_submitters(env) \in SUBSET Chains
      /\ build_staking_readers(env) \in SUBSET Chains
      /\ build_treasury_readers(env) \in SUBSET Chains
  BY DEF oracle_submitters, build_staking_readers, build_treasury_readers, ReadersOf
<1>6. /\ build_house_edge_reader(env) \in BOOLEAN
      /\ parse_company_wallet(env) \in BOOLEAN
      /\ parse_node_sites(env) \in BOOLEAN
  BY DEF build_house_edge_reader, parse_company_wallet, parse_node_sites
<1> QED
  BY <1>2, <1>3, <1>4, <1>5, <1>6 DEF AppState, Config

LEMMA LoginInvInit == AccessInit => LoginInv
<1> SUFFICES ASSUME AccessInit PROVE LoginInv
  OBVIOUS
<1>1. LifeTypeOK
  BY StartupAssumption DEF AccessInit, LifeInit, LifeTypeOK
<1>2. AuthTypeOK
  BY DEF AccessInit, AuthInit, AuthTypeOK
<1>3. NoncesOK /\ LoginsOK /\ TokensOK
  BY DEF AccessInit, AuthInit, NoncesOK, LoginsOK, TokensOK
<1> QED
  BY <1>1, <1>2, <1>3 DEF LoginInv

\* Steps of the admission of sessions, and stuttering, change nothing here.
LEMMA LoginInvFrame ==
    ASSUME LoginInv, UNCHANGED <<lifeVars, authVars>>
    PROVE  LoginInv'
<1>1. /\ now' = now /\ service' = service /\ starts' = starts
      /\ admin_nonces' = admin_nonces /\ login' = login /\ tokens' = tokens
      /\ minted' = minted /\ uses' = uses
  BY DEF lifeVars, authVars
<1> QED
  BY <1>1 DEF LoginInv, LifeTypeOK, AuthTypeOK, NoncesOK, Unspent, LoginsOK, TokensOK

\* A process that comes up finds no nonces and no logins.
LEMMA LoginInvStart ==
    ASSUME LoginInv, NEW env \in Environments, Start(env)
    PROVE  LoginInv'
<1>1. /\ service = None /\ now' = now /\ starts' = starts + 1 /\ starts < MaxStarts
      /\ service' = AppState(env) \/ service' = None
      /\ admin_nonces' = admin_nonces /\ login' = login /\ tokens' = tokens
      /\ minted' = minted /\ uses' = uses
  BY DEF Start, main, authVars
<1>2. LifeTypeOK'
  BY <1>1, ConfigBuilt, StartupAssumption DEF LoginInv, LifeTypeOK
<1>3. AuthTypeOK' /\ TokensOK'
  BY <1>1 DEF LoginInv, AuthTypeOK, TokensOK
<1>4. NoncesOK'
  BY <1>1 DEF LoginInv, NoncesOK, Unspent
<1>5. LoginsOK'
  BY <1>1 DEF LoginInv, LoginsOK
<1> QED
  BY <1>2, <1>3, <1>4, <1>5 DEF LoginInv

LEMMA LoginInvCrash ==
    ASSUME LoginInv, Crash
    PROVE  LoginInv'
<1>1. /\ service' = None /\ now' = now /\ starts' = starts
      /\ admin_nonces' = [n \in Nonces |-> None] /\ login' = [l \in Logins |-> None]
      /\ tokens' = tokens /\ minted' = minted /\ uses' = uses
  BY DEF Crash, AuthLost
<1>2. LifeTypeOK' /\ AuthTypeOK'
  BY <1>1 DEF LoginInv, LifeTypeOK, AuthTypeOK
<1>3. NoncesOK' /\ LoginsOK' /\ TokensOK'
  BY <1>1 DEF LoginInv, NoncesOK, LoginsOK, TokensOK
<1> QED
  BY <1>2, <1>3 DEF LoginInv

LEMMA LoginInvTick ==
    ASSUME LoginInv, Tick
    PROVE  LoginInv'
<1>1. /\ now < MaxTime /\ now' = now + 1 /\ service' = service /\ starts' = starts
      /\ admin_nonces' = admin_nonces /\ login' = login /\ tokens' = tokens
      /\ minted' = minted /\ uses' = uses
  BY DEF Tick, authVars
<1>2. LifeTypeOK'
  BY <1>1, StartupAssumption DEF LoginInv, LifeTypeOK
<1>3. AuthTypeOK' /\ NoncesOK' /\ TokensOK'
  BY <1>1 DEF LoginInv, AuthTypeOK, NoncesOK, Unspent, TokensOK
<1>4. LoginsOK'
  <2> SUFFICES ASSUME NEW l \in Logins, login[l] # None
               PROVE  /\ service # None
                      /\ service.admin_session_secret # None
                      /\ login[l].now <= now'
    BY <1>1 DEF LoginsOK
  <2>1. login[l].now \in Nat /\ now \in Nat
    BY StartupAssumption DEF LoginInv, LifeTypeOK, AuthTypeOK
  <2> QED
    BY <1>1, <2>1 DEF LoginInv, LoginsOK
<1> QED
  BY <1>2, <1>3, <1>4 DEF LoginInv

\* A nonce that is drawn was never drawn before, so no token names it.
LEMMA LoginInvNonce ==
    ASSUME LoginInv, NEW n \in Nonces, nonce(n)
    PROVE  LoginInv'
<1> DEFINE kept(m) == IF admin_nonces[m] # None /\ now - admin_nonces[m] < NONCE_TTL
                      THEN admin_nonces[m] ELSE None
<1>1. /\ now' = now /\ service' = service /\ starts' = starts /\ service # None
      /\ minted[n] = None
      /\ admin_nonces' = [m \in Nonces |-> IF m = n THEN now ELSE kept(m)]
      /\ minted' = [minted EXCEPT ![n] = [at |-> now, start |-> starts]]
      /\ login' = login /\ tokens' = tokens /\ uses' = uses
  BY DEF nonce, lifeVars, AdminEnabled
<1>2. now \in Nat /\ starts \in Nat
  BY StartupAssumption DEF LoginInv, LifeTypeOK
<1>3. [at |-> now, start |-> starts] # None
  BY <1>2, AuthAssumption
<1>4. \A m \in Nonces : kept(m) \in {admin_nonces[m], None}
  OBVIOUS
<1> HIDE DEF kept
<1>5. AuthTypeOK'
  <2>1. admin_nonces' \in [Nonces -> Nat \cup {None}]
    BY <1>1, <1>2, <1>4 DEF LoginInv, AuthTypeOK
  <2>2. minted' \in [Nonces -> [at : Nat, start : Nat] \cup {None}]
    BY <1>1, <1>2 DEF LoginInv, AuthTypeOK
  <2> QED
    BY <1>1, <2>1, <2>2 DEF LoginInv, AuthTypeOK
<1>6. NoncesOK'
  <2> SUFFICES ASSUME NEW m \in Nonces
               PROVE  /\ admin_nonces'[m] # None => service' # None /\ Unspent(m)'
                      /\ minted'[m] = None => uses'[m] = 0
                      /\ uses'[m] <= 1
    BY DEF NoncesOK
  <2>1. CASE m = n
    <3>1. minted'[n] = [at |-> now, start |-> starts] /\ admin_nonces'[n] = now
      BY <1>1 DEF LoginInv, AuthTypeOK
    <3>2. uses[n] = 0
      BY <1>1 DEF LoginInv, NoncesOK
    <3> QED
      BY <1>1, <1>3, <2>1, <3>1, <3>2 DEF Unspent
  <2>2. CASE m # n
    <3>1. minted'[m] = minted[m] /\ admin_nonces'[m] \in {admin_nonces[m], None}
      BY <1>1, <1>4, <2>2 DEF LoginInv, AuthTypeOK
    <3> QED
      BY <1>1, <3>1 DEF LoginInv, NoncesOK, Unspent
  <2> QED
    BY <2>1, <2>2
<1>7. TokensOK'
  <2> SUFFICES ASSUME NEW t \in tokens
               PROVE  minted'[t.nonce] = minted[t.nonce]
    BY <1>1 DEF LoginInv, TokensOK
  <2>1. t.nonce # n /\ t.nonce \in Nonces
    BY <1>1 DEF LoginInv, TokensOK, AuthTypeOK, Tokens
  <2> QED
    BY <1>1, <2>1 DEF LoginInv, AuthTypeOK
<1>8. LifeTypeOK' /\ LoginsOK'
  BY <1>1 DEF LoginInv, LifeTypeOK, LoginsOK
<1> QED
  BY <1>5, <1>6, <1>7, <1>8 DEF LoginInv

LEMMA LoginInvVerify ==
    ASSUME LoginInv, NEW l \in Logins, NEW msg \in Messages, login_verify(l, msg)
    PROVE  LoginInv'
<1> DEFINE v == [address |-> msg.signer, nonce |-> msg.nonce, now |-> now]
<1>1. /\ now' = now /\ service' = service /\ starts' = starts
      /\ service # None /\ service.admin_session_secret # None
      /\ login' = [login EXCEPT ![l] = v]
      /\ admin_nonces' = admin_nonces /\ tokens' = tokens /\ minted' = minted /\ uses' = uses
  BY DEF login_verify, lifeVars, AdminEnabled
<1>2. now \in Nat
  BY StartupAssumption DEF LoginInv, LifeTypeOK
<1>3. msg.signer \in Wallets /\ msg.nonce \in Nonces
  BY DEF login_verify, verify_siwe, Messages
<1>4. AuthTypeOK'
  BY <1>1, <1>2, <1>3 DEF LoginInv, AuthTypeOK
<1>5. LoginsOK'
  <2> SUFFICES ASSUME NEW k \in Logins, login'[k] # None
               PROVE  login'[k].now <= now
    BY <1>1 DEF LoginsOK
  <2>1. CASE k = l
    BY <1>1, <1>2, <2>1 DEF LoginInv, AuthTypeOK
  <2>2. CASE k # l
    BY <1>1, <2>2 DEF LoginInv, AuthTypeOK, LoginsOK
  <2> QED
    BY <2>1, <2>2
<1>6. LifeTypeOK' /\ NoncesOK' /\ TokensOK'
  BY <1>1 DEF LoginInv, LifeTypeOK, NoncesOK, Unspent, TokensOK
<1> QED
  BY <1>4, <1>5, <1>6 DEF LoginInv

\* The nonce leaves the map in the step that counts its use.
LEMMA LoginInvConsume ==
    ASSUME LoginInv, NEW l \in Logins, login_consume(l)
    PROVE  LoginInv'
<1> DEFINE v == login[l]
           token == issue_session_token(service.admin_session_secret, v.address,
                                        service.admin_session_ttl, v.now, v.nonce)
<1>1. /\ now' = now /\ service' = service /\ starts' = starts
      /\ v # None
      /\ admin_nonces' = [admin_nonces EXCEPT ![v.nonce] = None]
      /\ login' = [login EXCEPT ![l] = None]
      /\ minted' = minted
  BY DEF login_consume, consume, lifeVars
<1>2. /\ v.address \in Wallets /\ v.nonce \in Nonces /\ v.now \in Nat /\ v.now <= now
      /\ service # None /\ service.admin_session_secret # None
  BY <1>1 DEF LoginInv, AuthTypeOK, LoginsOK
<1>3. /\ now \in Nat /\ starts \in Nat
      /\ service.admin_session_secret \in Secrets /\ service.admin_session_ttl \in Nat
  BY <1>2, StartupAssumption DEF LoginInv, LifeTypeOK, Config
<1>4. \A n \in Nonces : admin_nonces'[n] = IF n = v.nonce THEN None ELSE admin_nonces[n]
  BY <1>1 DEF LoginInv, AuthTypeOK
<1>5. LifeTypeOK' /\ LoginsOK'
  BY <1>1 DEF LoginInv, LifeTypeOK, LoginsOK, AuthTypeOK
<1>6. /\ admin_nonces' \in [Nonces -> Nat \cup {None}]
      /\ login' \in [Logins -> [address : Wallets, nonce : Nonces, now : Nat] \cup {None}]
  BY <1>1, <1>2 DEF LoginInv, AuthTypeOK
<1>7. CASE Outstanding(v.nonce)
  <2>1. /\ tokens' = tokens \cup {token}
        /\ uses' = [uses EXCEPT ![v.nonce] = @ + 1]
    BY <1>7 DEF login_consume
  <2>2. /\ admin_nonces[v.nonce] # None
        /\ now - admin_nonces[v.nonce] < NONCE_TTL
    BY <1>7 DEF Outstanding
  <2>3. /\ minted[v.nonce] # None /\ minted[v.nonce].start = starts
        /\ minted[v.nonce].at = admin_nonces[v.nonce] /\ uses[v.nonce] = 0
    BY <1>2, <2>2 DEF LoginInv, NoncesOK, Unspent
  <2>4. /\ token.nonce = v.nonce /\ token.start = starts
        /\ token.ttl = service.admin_session_ttl /\ token.exp = v.now + service.admin_session_ttl
        /\ token \in Tokens
    BY <1>2, <1>3 DEF issue_session_token, Tokens
  <2>5. token.exp < minted[v.nonce].at + NONCE_TTL + token.ttl
    <3>1. admin_nonces[v.nonce] \in Nat
      BY <1>2, <2>2 DEF LoginInv, AuthTypeOK
    <3> HIDE DEF token
    <3> QED
      BY <1>2, <1>3, <2>2, <2>3, <2>4, <3>1, AuthAssumption
  <2> HIDE DEF token
  <2>6. TokensOK'
    BY <1>1, <2>1, <2>3, <2>4, <2>5 DEF LoginInv, TokensOK
  <2>7. AuthTypeOK'
    BY <1>1, <1>6, <2>1, <2>4 DEF LoginInv, AuthTypeOK
  <2>8. NoncesOK'
    <3> SUFFICES ASSUME NEW n \in Nonces
                 PROVE  /\ admin_nonces'[n] # None => service' # None /\ Unspent(n)'
                        /\ minted'[n] = None => uses'[n] = 0
                        /\ uses'[n] <= 1
      BY DEF NoncesOK
    <3>1. CASE n = v.nonce
      <4>1. uses'[n] = 1 /\ admin_nonces'[n] = None
        BY <1>2, <1>4, <2>1, <2>3, <3>1 DEF LoginInv, AuthTypeOK
      <4> QED
        BY <1>1, <2>3, <3>1, <4>1
    <3>2. CASE n # v.nonce
      <4>1. uses'[n] = uses[n] /\ admin_nonces'[n] = admin_nonces[n]
        BY <1>2, <1>4, <2>1, <3>2 DEF LoginInv, AuthTypeOK
      <4> QED
        BY <1>1, <4>1 DEF LoginInv, NoncesOK, Unspent
    <3> QED
      BY <3>1, <3>2
  <2> QED
    BY <1>5, <2>6, <2>7, <2>8 DEF LoginInv
<1>8. CASE ~Outstanding(v.nonce)
  <2>1. tokens' = tokens /\ uses' = uses
    BY <1>8 DEF login_consume
  <2>2. NoncesOK'
    BY <1>1, <1>4, <2>1 DEF LoginInv, NoncesOK, Unspent
  <2>3. AuthTypeOK' /\ TokensOK'
    BY <1>1, <1>6, <2>1 DEF LoginInv, AuthTypeOK, TokensOK
  <2> QED
    BY <1>5, <2>2, <2>3 DEF LoginInv
<1> QED
  BY <1>7, <1>8

LEMMA LoginInvStep ==
    ASSUME LoginInv, [AccessNext]_accessVars
    PROVE  LoginInv'
<1>1. CASE \E env \in Environments : Start(env)
  BY <1>1, LoginInvStart
<1>2. CASE Crash
  BY <1>2, LoginInvCrash
<1>3. CASE Tick
  BY <1>3, LoginInvTick
<1>4. CASE AuthNext /\ UNCHANGED admissionVars
  BY <1>4, LoginInvNonce, LoginInvVerify, LoginInvConsume DEF AuthNext
<1>5. CASE AdmissionNext /\ UNCHANGED authVars
  <2>1. UNCHANGED <<lifeVars, authVars>>
    BY <1>5 DEF AdmissionNext
  <2> QED
    BY <2>1, LoginInvFrame
<1>6. CASE UNCHANGED accessVars
  <2>1. UNCHANGED <<lifeVars, authVars>>
    BY <1>6 DEF accessVars
  <2> QED
    BY <2>1, LoginInvFrame
<1> QED
  BY <1>1, <1>2, <1>3, <1>4, <1>5, <1>6 DEF AccessNext

\* LoginInv holds in every state.
THEOREM LoginInvariant == AccessSpec => []LoginInv
<1>1. LoginInv /\ [AccessNext]_accessVars => LoginInv'
  BY LoginInvStep
<1> QED
  BY LoginInvInit, <1>1, PTL DEF AccessSpec

\* login and NonceStore::consume: for any number of wallets, nonces, concurrent
\* logins, replays and restarts, a nonce logs in at most once and only in the
\* process that drew it.
THEOREM NonceSingleUse == AccessSpec => []LoginsAreSingle
<1>1. LoginInv => LoginsAreSingle
  BY DEF LoginInv, NoncesOK, TokensOK, LoginsAreSingle
<1> QED
  BY LoginInvariant, <1>1, PTL

\* admin_guard: nobody is admitted later than the lifetimes of a nonce and of a
\* session after the nonce was drawn, whatever the service was restarted with.
THEOREM AdmissionExpires == AccessSpec => []AdmissionsEnd
<1>1. LoginInv => AdmissionsEnd
  <2> SUFFICES ASSUME LoginInv, NEW t \in tokens, admin_guard(t)
               PROVE  now < minted[t.nonce].at + NONCE_TTL + t.ttl
    BY DEF AdmissionsEnd
  <2>1. t.exp > now /\ t.exp < minted[t.nonce].at + NONCE_TTL + t.ttl
    BY DEF LoginInv, TokensOK, admin_guard, verify_session_token
  <2>2. now \in Nat /\ t \in Tokens
    BY StartupAssumption DEF LoginInv, LifeTypeOK, AuthTypeOK
  <2>3. /\ t.exp \in Nat /\ t.ttl \in Nat /\ minted[t.nonce].at \in Nat
    BY <2>2 DEF LoginInv, TokensOK, AuthTypeOK, Tokens
  <2> QED
    BY <2>1, <2>2, <2>3, AuthAssumption
<1> QED
  BY LoginInvariant, <1>1, PTL
-----------------------------------------------------------------------------
(* Counters.                                                                *)

LEMMA CounterInvInit == AccessInit => CounterInv
<1> SUFFICES ASSUME AccessInit PROVE CounterInv
  OBVIOUS
<1>1. now \in Nat /\ creation = [q \in Creations |-> None] /\ counter = [k \in Keys |-> NoCounter]
  BY DEF AccessInit, LifeInit, AdmissionInit
<1>2. \A k \in Keys : Expiring(k) = {}
  BY <1>1 DEF Expiring, Limited
<1>3. CreationsOK
  BY <1>1 DEF CreationsOK, Limited
<1>4. CountersOK /\ TtlsOK
  BY <1>1, <1>2 DEF CountersOK, TtlsOK, NoCounter
<1> QED
  BY <1>1, <1>3, <1>4 DEF CounterInv

\* The key a request counts on.
LEMMA KeyOfRequest ==
    ASSUME NEW r \in AtLimit
    PROVE  Key(r) \in Keys
<1>1. r.phase \in {"wallet", "ip"} /\ r.wallet \in Wallets /\ r.ip \in Ips
  BY DEF AtLimit, Phases
<1> QED
  BY <1>1 DEF Key, Keys

\* Membership in Expiring, for a request by itself.
LEMMA ExpiringMember ==
    ASSUME NEW k, NEW q \in Creations
    PROVE  q \in Expiring(k) <=>
               Limited(q) /\ creation[q].step = "expire" /\ Key(creation[q]) = k
BY DEF Expiring

\* A step that moves one request out of, or keeps it out of, Expiring, and leaves
\* the counters and the lost keys alone, keeps the invariant.
LEMMA QuietStep ==
    ASSUME CounterInv, NEW q \in Creations, NEW r,
           creation' = [creation EXCEPT ![q] = r],
           counter' = counter, lost' = lost, now' = now,
           ~Limited(q) \/ creation[q].step # "expire",
           r # None /\ r.phase \in Phases => r \in AtLimit /\ r.step # "expire"
    PROVE  CounterInv'
<1>1. /\ creation'[q] = r
      /\ \A p \in Creations : p # q => creation'[p] = creation[p]
      /\ creation' = [p \in Creations |-> creation'[p]]
  BY DEF CounterInv, CreationsOK
<1>2. CreationsOK'
  BY <1>1 DEF CounterInv, CreationsOK, Limited
<1>3. \A k \in Keys : Expiring(k)' = Expiring(k)
  BY <1>1 DEF Expiring, Limited
<1>4. CountersOK' /\ TtlsOK'
  BY <1>3 DEF CounterInv, CountersOK, TtlsOK
<1> QED
  BY <1>2, <1>4 DEF CounterInv

\* What Verdict leaves of a request: nothing, the next limit, or the count.
LEMMA VerdictLeaves ==
    ASSUME NEW q \in Creations, NEW r \in AtLimit, NEW count,
           now \in Nat, Verdict(q, r, count)
    PROVE  \E s : /\ creation' = [creation EXCEPT ![q] = s]
                  /\ s # None /\ s.phase \in Phases => s \in AtLimit /\ s.step = "incr"
<1>1. CASE Denied(r, count)
  BY <1>1 DEF Verdict
<1>2. CASE ~Denied(r, count) /\ r.phase = "wallet"
  <2>1. creation' = [creation EXCEPT ![q] =
                       [r EXCEPT !.phase = "ip", !.step = "incr", !.at = now]]
    BY <1>2 DEF Verdict
  <2>2. /\ [r EXCEPT !.phase = "ip", !.step = "incr", !.at = now] \in AtLimit
        /\ [r EXCEPT !.phase = "ip", !.step = "incr", !.at = now].step = "incr"
    BY DEF AtLimit, Phases
  <2> QED
    BY <2>1, <2>2
<1>3. CASE ~Denied(r, count) /\ r.phase # "wallet"
  <2>1. creation' = [creation EXCEPT ![q] = Unscanned(r.wallet)]
    BY <1>3 DEF Verdict
  <2>2. Unscanned(r.wallet).phase \notin Phases
    BY DEF Phases, Unscanned
  <2> QED
    BY <2>1, <2>2
<1> QED
  BY <1>1, <1>2, <1>3

\* The heart of the argument.  One request leaves step s of its limit for what
\* is not an EXPIRE, and its key gets counter c; the invariant needs of the two
\* only what each of its parts says.
LEMMA CounterStep ==
    ASSUME CounterInv, NEW q \in Creations, Limited(q), NEW s, NEW k, NEW c,
           k = Key(creation[q]),
           creation' = [creation EXCEPT ![q] = s],
           s # None /\ s.phase \in Phases => s \in AtLimit,
           counter' = [counter EXCEPT ![k] = c],
           c \in [count : Nat, expires : Nat \cup {None}],
           c.count # 0,
           lost \subseteq lost', lost' \subseteq lost \cup {k}, now' = now,
           s # None /\ s.phase \in Phases /\ s.step = "expire" =>
               Key(s) = k /\ c.expires = None /\ Expiring(k) \subseteq {q},
           ~(s # None /\ s.phase \in Phases /\ s.step = "expire") /\ c.expires = None =>
               k \in lost' \/ (k \notin lost /\ Expiring(k) \ {q} # {}),
           c.expires # None => Expiring(k) \subseteq {q}
                              /\ ~(s # None /\ s.phase \in Phases /\ s.step = "expire")
    PROVE  CounterInv'
<1> DEFINE Sets == s # None /\ s.phase \in Phases /\ s.step = "expire"
<1>1. /\ creation'[q] = s
      /\ \A p \in Creations : p # q => creation'[p] = creation[p]
      /\ creation' = [p \in Creations |-> creation'[p]]
  BY DEF CounterInv, CreationsOK
<1>2. k \in Keys
  BY KeyOfRequest DEF CounterInv, CreationsOK
<1>3. /\ counter'[k] = c
      /\ \A j \in Keys : j # k => counter'[j] = counter[j]
      /\ counter' \in [Keys -> [count : Nat, expires : Nat \cup {None}]]
  BY <1>2 DEF CounterInv, CountersOK
<1>4. CreationsOK'
  BY <1>1 DEF CounterInv, CreationsOK, Limited
<1>5. CountersOK'
  BY <1>3 DEF CounterInv, CountersOK
<1>6. Expiring(k)' = IF Sets THEN (Expiring(k) \ {q}) \cup {q} ELSE Expiring(k) \ {q}
  BY <1>1 DEF Expiring, Limited
<1>7. ASSUME NEW j \in Keys, j # k PROVE Expiring(j)' = Expiring(j)
  BY <1>1, <1>7 DEF Expiring, Limited
<1>8. TtlsOK'
  <2> SUFFICES ASSUME NEW j \in Keys
               PROVE  /\ \A p1, p2 \in Expiring(j)' : p1 = p2
                      /\ counter'[j].expires = None /\ counter'[j].count > 0 /\ j \notin lost'
                             => Expiring(j)' # {}
                      /\ counter'[j].expires # None \/ counter'[j].count = 0
                             => Expiring(j)' = {}
    BY DEF TtlsOK
  <2>1. CASE j = k
    BY <1>2, <1>3, <1>6, <2>1 DEF CounterInv, TtlsOK
  <2>2. CASE j # k
    BY <1>3, <1>7, <2>2 DEF CounterInv, TtlsOK
  <2> QED
    BY <2>1, <2>2
<1> QED
  BY <1>4, <1>5, <1>8 DEF CounterInv

\* A field of one counter is overwritten.
LEMMA CounterUpdates ==
    ASSUME CountersOK, NEW k \in Keys, NEW v
    PROVE  /\ [counter EXCEPT ![k].count = v] = [counter EXCEPT ![k] = [counter[k] EXCEPT !.count = v]]
           /\ [counter EXCEPT ![k].expires = v] = [counter EXCEPT ![k] = [counter[k] EXCEPT !.expires = v]]
           /\ counter = [counter EXCEPT ![k] = counter[k]]
BY DEF CountersOK

\* The first INCR of a window finds nobody about to set the TTL; a later one
\* finds a TTL, somebody about to set it, or a lost key.
LEMMA CounterInvIncr ==
    ASSUME CounterInv, NEW q \in Creations, Incr(q), now' = now
    PROVE  CounterInv'
<1> DEFINE r == [creation[q] EXCEPT !.at = now]
           k == Key(creation[q])
           c == [counter[k] EXCEPT !.count = @ + 1]
<1>1. Limited(q) /\ creation[q].step = "incr" /\ lost' = lost
  BY DEF Incr
<1>2. creation[q] \in AtLimit /\ now \in Nat
  BY <1>1 DEF CounterInv, CreationsOK
<1>3. r \in AtLimit /\ Key(r) = k
  BY <1>2 DEF AtLimit, Key
<1>4. k \in Keys
  BY <1>2, KeyOfRequest
<1>5. /\ counter[k] \in [count : Nat, expires : Nat \cup {None}]
      /\ c \in [count : Nat, expires : Nat \cup {None}]
      /\ c.count = counter[k].count + 1 /\ c.expires = counter[k].expires
      /\ c.count # 0
  BY <1>4 DEF CounterInv, CountersOK
<1>6. counter' = [counter EXCEPT ![k] = c]
  BY <1>3, <1>4, CounterUpdates DEF Incr, CounterInv
<1>7. q \notin Expiring(k)
  BY <1>1 DEF Expiring
<1>8. /\ \A p1, p2 \in Expiring(k) : p1 = p2
      /\ counter[k].expires = None /\ counter[k].count > 0 /\ k \notin lost => Expiring(k) # {}
      /\ counter[k].expires # None \/ counter[k].count = 0 => Expiring(k) = {}
      /\ counter[k].count = 0 => counter[k].expires = None
  BY <1>4 DEF CounterInv, TtlsOK, CountersOK
<1>9. SetsTtl(c.count) \/ ~SetsTtl(c.count)
  OBVIOUS
<1>10. CASE SetsTtl(c.count)
  <2>1. counter[k].count = 0
    BY <1>5, <1>10 DEF SetsTtl
  <2>2. creation' = [creation EXCEPT ![q] = [r EXCEPT !.step = "expire"]]
    BY <1>3, <1>5, <1>10, <2>1 DEF Incr, SetsTtl
  <2>3. /\ [r EXCEPT !.step = "expire"] \in AtLimit
        /\ [r EXCEPT !.step = "expire"].step = "expire"
        /\ Key([r EXCEPT !.step = "expire"]) = k
    BY <1>2, <1>3 DEF AtLimit, Key
  <2>4. /\ [r EXCEPT !.step = "expire"] # None
        /\ [r EXCEPT !.step = "expire"].phase \in Phases
    BY <2>3, AdmissionAssumption DEF AtLimit
  <2> DEFINE s == [r EXCEPT !.step = "expire"]
  <2> HIDE DEF r, k, c, s
  <2> QED
    BY <1>1, <1>5, <1>6, <1>8, <2>1, <2>2, <2>3, <2>4, CounterStep DEF s, k
<1>11. CASE ~SetsTtl(c.count)
  <2>1. counter[k].count > 0
    BY <1>5, <1>11 DEF SetsTtl
  <2>2. Verdict(q, r, counter[k].count + 1)
    BY <1>3, <1>5, <1>11 DEF Incr
  <2>3. PICK s : /\ creation' = [creation EXCEPT ![q] = s]
                 /\ s # None /\ s.phase \in Phases => s \in AtLimit /\ s.step = "incr"
    BY <1>2, <1>3, <2>2, VerdictLeaves
  <2>4. ~(s # None /\ s.phase \in Phases /\ s.step = "expire")
    BY <2>3
  <2>5. c.expires = None => k \in lost' \/ (k \notin lost /\ Expiring(k) \ {q} # {})
    BY <1>1, <1>5, <1>7, <1>8, <2>1
  <2>6. c.expires # None => Expiring(k) \subseteq {q}
    BY <1>5, <1>8
  <2> HIDE DEF r, k, c
  <2> QED
    BY <1>1, <1>5, <1>6, <2>3, <2>4, <2>5, <2>6, CounterStep DEF k
<1> QED
  BY <1>9, <1>10, <1>11

\* A request about to set a TTL is the only one, and its key has none.
LEMMA OnlyExpiring ==
    ASSUME CounterInv, NEW q \in Creations, Limited(q), creation[q].step = "expire"
    PROVE  /\ Expiring(Key(creation[q])) = {q}
           /\ counter[Key(creation[q])].expires = None
           /\ counter[Key(creation[q])].count \in Nat \ {0}
<1> DEFINE k == Key(creation[q])
<1>1. k \in Keys
  BY KeyOfRequest DEF CounterInv, CreationsOK
<1>2. q \in Expiring(k)
  BY DEF Expiring
<1>3. counter[k].count \in Nat
  BY <1>1 DEF CounterInv, CountersOK
<1> HIDE DEF k
<1>4. Expiring(k) = {q} /\ counter[k].expires = None /\ counter[k].count # 0
  BY <1>1, <1>2 DEF CounterInv, TtlsOK
<1> QED
  BY <1>3, <1>4 DEF k

\* EXPIRE, whether or not its answer arrives.
LEMMA CounterInvTtl ==
    ASSUME CounterInv, NEW q \in Creations, Limited(q), creation[q].step = "expire", NEW s,
           creation' = [creation EXCEPT ![q] = s],
           s # None /\ s.phase \in Phases => s \in AtLimit /\ s.step = "incr",
           counter' = [counter EXCEPT ![Key(creation[q])].expires =
                           now + WINDOW[creation[q].phase]],
           lost' = lost, now' = now
    PROVE  CounterInv'
<1> DEFINE k == Key(creation[q])
           c == [counter[k] EXCEPT !.expires = now + WINDOW[creation[q].phase]]
<1>1. creation[q] \in AtLimit /\ now \in Nat
  BY DEF CounterInv, CreationsOK
<1>2. k \in Keys
  BY <1>1, KeyOfRequest
<1>3. now + WINDOW[creation[q].phase] \in Nat
  BY <1>1, AdmissionAssumption DEF AtLimit
<1>4. now + WINDOW[creation[q].phase] # None
  BY <1>3, StartupAssumption
<1>5. /\ Expiring(k) = {q}
      /\ counter[k].count \in Nat \ {0}
  BY OnlyExpiring
<1>6. /\ c \in [count : Nat, expires : Nat \cup {None}]
      /\ c.count # 0 /\ c.expires # None
  BY <1>2, <1>3, <1>4, <1>5 DEF CounterInv, CountersOK
<1>7. counter' = [counter EXCEPT ![k] = c]
  BY <1>2, CounterUpdates DEF CounterInv
<1>8. ~(s # None /\ s.phase \in Phases /\ s.step = "expire")
  OBVIOUS
<1> HIDE DEF k, c
<1> QED
  BY <1>5, <1>6, <1>7, <1>8, CounterStep DEF k

LEMMA CounterInvExpire ==
    ASSUME CounterInv, NEW q \in Creations, Expire(q), now' = now
    PROVE  CounterInv'
<1>1. /\ Limited(q) /\ creation[q].step = "expire" /\ lost' = lost
      /\ Verdict(q, creation[q], 1)
      /\ counter' = [counter EXCEPT ![Key(creation[q])].expires =
                         now + WINDOW[creation[q].phase]]
  BY DEF Expire
<1>2. creation[q] \in AtLimit /\ now \in Nat
  BY <1>1 DEF CounterInv, CreationsOK
<1>3. PICK s : /\ creation' = [creation EXCEPT ![q] = s]
               /\ s # None /\ s.phase \in Phases => s \in AtLimit /\ s.step = "incr"
  BY <1>1, <1>2, VerdictLeaves
<1> QED
  BY <1>1, <1>3, CounterInvTtl

\* A command that fails leaves its key with a TTL to come, or among the lost.
LEMMA CounterInvFails ==
    ASSUME CounterInv, NEW q \in Creations, RedisFails(q), now' = now
    PROVE  CounterInv'
<1> DEFINE k == Key(creation[q])
           missing == counter'[k].expires = None /\ counter'[k].count > 0
                      /\ (creation[q].step = "expire" \/ counter[k].count = 0)
<1>1. /\ Limited(q)
      /\ creation' = [creation EXCEPT ![q] = None]
      /\ lost' = IF missing THEN lost \cup {k} ELSE lost
  BY DEF RedisFails
<1>2. creation[q] \in AtLimit /\ now \in Nat
  BY <1>1 DEF CounterInv, CreationsOK
<1>3. k \in Keys /\ creation[q].step \in {"incr", "expire"}
  BY <1>2, KeyOfRequest DEF AtLimit
<1>4. counter[k] \in [count : Nat, expires : Nat \cup {None}]
  BY <1>3 DEF CounterInv, CountersOK
<1>5. /\ counter[k].expires = None /\ counter[k].count > 0 /\ k \notin lost => Expiring(k) # {}
      /\ counter[k].expires # None \/ counter[k].count = 0 => Expiring(k) = {}
  BY <1>3 DEF CounterInv, TtlsOK
<1>6. CASE counter' = counter /\ creation[q].step = "incr"
  <2>1. lost' = lost
    BY <1>1, <1>4, <1>6
  <2> QED
    BY <1>1, <1>6, <2>1, QuietStep
<1>7. CASE counter' = counter /\ creation[q].step = "expire"
  <2>1. counter[k].expires = None /\ counter[k].count \in Nat \ {0} /\ Expiring(k) = {q}
    BY <1>1, <1>7, OnlyExpiring
  <2>2. lost' = lost \cup {k}
    BY <1>1, <1>7, <2>1
  <2>3. counter' = [counter EXCEPT ![k] = counter[k]]
    BY <1>3, <1>7, CounterUpdates DEF CounterInv
  <2> HIDE DEF k, missing
  <2> QED
    BY <1>1, <1>4, <2>1, <2>2, <2>3, CounterStep DEF k
<1>8. CASE creation[q].step = "incr" /\ counter' = [counter EXCEPT ![k].count = @ + 1]
  <2> DEFINE c == [counter[k] EXCEPT !.count = @ + 1]
  <2>1. /\ c \in [count : Nat, expires : Nat \cup {None}]
        /\ c.count = counter[k].count + 1 /\ c.expires = counter[k].expires
        /\ c.count # 0
    BY <1>4
  <2>2. counter' = [counter EXCEPT ![k] = c]
    BY <1>3, <1>8, CounterUpdates DEF CounterInv
  <2>3. counter'[k] = c
    BY <1>3, <2>2 DEF CounterInv, CountersOK
  <2>4. q \notin Expiring(k)
    BY <1>8 DEF Expiring
  <2> HIDE DEF c
  <2>5. c.expires = None => k \in lost' \/ (k \notin lost /\ Expiring(k) \ {q} # {})
    <3>1. CASE counter[k].count = 0
      BY <1>1, <1>4, <2>1, <2>3, <3>1
    <3>2. CASE counter[k].count > 0
      BY <1>1, <1>5, <2>1, <2>4, <3>2
    <3> QED
      BY <1>4, <3>1, <3>2
  <2>6. c.expires # None => Expiring(k) \subseteq {q}
    BY <1>5, <2>1
  <2>7. lost \subseteq lost' /\ lost' \subseteq lost \cup {k}
    BY <1>1
  <2> HIDE DEF k, missing
  <2> QED
    BY <1>1, <2>1, <2>2, <2>5, <2>6, <2>7, CounterStep DEF k
<1>9. CASE /\ creation[q].step = "expire"
           /\ counter' = [counter EXCEPT ![k].expires = now + WINDOW[creation[q].phase]]
  <2>1. now + WINDOW[creation[q].phase] \in Nat
    BY <1>2, AdmissionAssumption DEF AtLimit
  <2>2. now + WINDOW[creation[q].phase] # None
    BY <2>1, StartupAssumption
  <2>3. counter'[k].expires # None
    BY <1>3, <1>4, <1>9, <2>2 DEF CounterInv, CountersOK
  <2>4. lost' = lost
    BY <1>1, <2>3
  <2> QED
    BY <1>1, <1>9, <2>4, CounterInvTtl
<1> QED
  BY <1>3, <1>6, <1>7, <1>8, <1>9 DEF RedisFails

\* The steps of create_session outside its two limits.
LEMMA CounterInvOutside ==
    ASSUME CounterInv, NEW q \in Creations, now' = now,
           \/ \E w \in Wallets, i \in Ips : create_session(q, w, i)
           \/ get_active_session_count(q)
           \/ \E s \in Sessions : Create(q, s)
           \/ CreateFails(q)
    PROVE  CounterInv'
<1>1. CASE \E w \in Wallets, i \in Ips : create_session(q, w, i)
  <2>1. PICK w \in Wallets, i \in Ips : create_session(q, w, i)
    BY <1>1
  <2> DEFINE r == [phase |-> "wallet", step |-> "incr", wallet |-> w, ip |-> i, at |-> now]
  <2>2. /\ creation' = [creation EXCEPT ![q] = r] /\ counter' = counter /\ lost' = lost
        /\ ~Limited(q)
    BY <2>1 DEF create_session, Limited
  <2>3. r \in AtLimit /\ r.step # "expire"
    BY DEF CounterInv, AtLimit, Phases
  <2> HIDE DEF r
  <2> QED
    BY <2>2, <2>3, QuietStep
<1>2. CASE get_active_session_count(q)
  <2>1. ~Limited(q) /\ counter' = counter /\ lost' = lost
    BY <1>2 DEF get_active_session_count, At, Limited, Phases
  <2> DEFINE r == creation[q]
             first == IF r.pages = 0 THEN OpenOf(r.wallet) ELSE r.first
             Page(phase, keys) ==
                 [phase |-> phase, wallet |-> r.wallet, pages |-> r.pages + 1,
                  count |-> r.count + Cardinality(keys), first |-> first,
                  named |-> r.named \cup keys]
  <2>3. \E keys \in SUBSET OpenOf(r.wallet) :
          \/ creation' = [creation EXCEPT ![q] = Page("count", keys)]
          \/ creation' = [creation EXCEPT ![q] = Page("create", keys)]
    BY <1>2 DEF get_active_session_count
  <2>4. \A keys : Page("count", keys).phase \notin Phases /\ Page("create", keys).phase \notin Phases
    BY DEF Phases
  <2> HIDE DEF Page
  <2>2. \E p : creation' = [creation EXCEPT ![q] = p] /\ p.phase \notin Phases
    BY <2>3, <2>4
  <2> QED
    BY <2>1, <2>2, QuietStep
<1>3. CASE CreateFails(q) \/ \E s \in Sessions : Create(q, s)
  <2>1. /\ ~Limited(q) /\ counter' = counter /\ lost' = lost
        /\ creation' = [creation EXCEPT ![q] = None]
    BY <1>3 DEF CreateFails, Create, At, Limited, Phases
  <2> QED
    BY <2>1, QuietStep
<1> QED
  BY <1>1, <1>2, <1>3

\* Steps that leave the counters, the requests and the clock alone.
LEMMA CounterInvFrame ==
    ASSUME CounterInv, UNCHANGED <<counter, creation, lost, now>>
    PROVE  CounterInv'
<1>1. \A k \in Keys : Expiring(k)' = Expiring(k)
  BY DEF Expiring, Limited
<1>2. CreationsOK'
  BY DEF CounterInv, CreationsOK, Limited
<1> QED
  BY <1>1, <1>2 DEF CounterInv, CountersOK, TtlsOK

\* A key that Redis drops had a TTL, so nobody was about to set it.
LEMMA CounterInvTick ==
    ASSUME CounterInv, Tick
    PROVE  CounterInv'
<1>1. /\ now' = now + 1 /\ creation' = creation /\ lost' = lost
      /\ counter' = [k \in Keys |->
             IF counter[k].expires # None /\ counter[k].expires <= now'
             THEN NoCounter ELSE counter[k]]
  BY DEF Tick, ExpireKeys
<1>2. \A k \in Keys : Expiring(k)' = Expiring(k)
  BY <1>1 DEF Expiring, Limited
<1>3. now' \in Nat /\ CreationsOK'
  BY <1>1 DEF CounterInv, CreationsOK, Limited
<1>4. \A k \in Keys : \/ counter'[k] = counter[k]
                      \/ counter'[k] = NoCounter /\ counter[k].expires # None
  BY <1>1
<1>5. NoCounter.count = 0 /\ NoCounter.expires = None
  BY DEF NoCounter
<1>6. CountersOK'
  <2>1. counter' \in [Keys -> [count : Nat, expires : Nat \cup {None}]]
    BY <1>1 DEF CounterInv, CountersOK, NoCounter
  <2> QED
    BY <1>4, <1>5, <2>1 DEF CounterInv, CountersOK
<1>7. TtlsOK'
  BY <1>1, <1>2, <1>4, <1>5 DEF CounterInv, TtlsOK
<1> QED
  BY <1>3, <1>6, <1>7 DEF CounterInv

\* A crash loses the TTLs that were about to be set.
LEMMA CounterInvCrash ==
    ASSUME CounterInv, Crash
    PROVE  CounterInv'
<1>1. /\ now' = now /\ counter' = counter /\ creation' = [q \in Creations |-> None]
      /\ lost' = lost \cup {k \in Keys : Expiring(k) # {}}
  BY DEF Crash, AdmissionLost
<1>2. \A k \in Keys : Expiring(k)' = {}
  BY <1>1 DEF Expiring, Limited
<1>3. CreationsOK'
  BY <1>1 DEF CreationsOK, Limited
<1>4. CountersOK' /\ TtlsOK'
  BY <1>1, <1>2 DEF CounterInv, CountersOK, TtlsOK
<1> QED
  BY <1>1, <1>3, <1>4 DEF CounterInv

LEMMA CounterInvStep ==
    ASSUME CounterInv, [AccessNext]_accessVars
    PROVE  CounterInv'
<1>1. CASE Crash
  BY <1>1, CounterInvCrash
<1>2. CASE Tick
  BY <1>2, CounterInvTick
<1>3. CASE \E env \in Environments : Start(env)
  <2>1. UNCHANGED <<counter, creation, lost, now>>
    BY <1>3 DEF Start, main, admissionVars
  <2> QED
    BY <2>1, CounterInvFrame
<1>4. CASE AuthNext /\ UNCHANGED admissionVars
  <2>1. now' = now
    BY <1>4 DEF AuthNext, nonce, login_consume, login_verify, lifeVars
  <2>2. UNCHANGED <<counter, creation, lost, now>>
    BY <1>4, <2>1 DEF admissionVars
  <2> QED
    BY <2>2, CounterInvFrame
<1>5. CASE AdmissionNext
  <2>1. now' = now
    BY <1>5 DEF AdmissionNext, lifeVars
  <2>2. CASE \E s \in Sessions :
                \/ SessionEnds(s)
                \/ \E hashrate \in Hashrates : submit_proof(s, hashrate)
    <3>1. UNCHANGED <<counter, creation, lost, now>>
      BY <2>1, <2>2 DEF SessionEnds, submit_proof
    <3> QED
      BY <3>1, CounterInvFrame
  <2> QED
    BY <1>5, <2>1, <2>2, CounterInvIncr, CounterInvExpire, CounterInvFails, CounterInvOutside
    DEF AdmissionNext
<1>6. CASE UNCHANGED accessVars
  <2>1. UNCHANGED <<counter, creation, lost, now>>
    BY <1>6 DEF accessVars, lifeVars, admissionVars
  <2> QED
    BY <2>1, CounterInvFrame
<1> QED
  BY <1>1, <1>2, <1>3, <1>4, <1>5, <1>6 DEF AccessNext

\* CounterInv holds in every state.
THEOREM CounterInvariant == AccessSpec => []CounterInv
<1>1. CounterInv /\ [AccessNext]_accessVars => CounterInv'
  BY CounterInvStep
<1> QED
  BY CounterInvInit, <1>1, PTL DEF AccessSpec

\* check of the rate limiter: for any limits, windows and number of concurrent
\* requests, a counter without a TTL has exactly one request on its way to set
\* it unless a failure or a crash took that request, and no EXPIRE is late.
THEOREM WindowsExpire == AccessSpec => []CountersExpire
<1>1. CounterInv => CountersExpire
  <2> SUFFICES ASSUME CounterInv, NEW k \in Keys
               PROVE  /\ counter[k].expires = None /\ counter[k].count > 0 /\ k \notin lost
                             => Cardinality(Expiring(k)) = 1
                      /\ counter[k].expires # None \/ counter[k].count = 0 => Expiring(k) = {}
    BY DEF CountersExpire
  <2>1. counter[k].expires # None \/ counter[k].count = 0 => Expiring(k) = {}
    BY DEF CounterInv, TtlsOK
  <2>2. ASSUME Expiring(k) # {} PROVE Cardinality(Expiring(k)) = 1
    <3>1. PICK q : q \in Expiring(k)
      BY <2>2
    <3>2. Expiring(k) = {q}
      BY <3>1 DEF CounterInv, TtlsOK
    <3> QED
      BY <3>2, FS_Singleton
  <2>3. counter[k].expires = None /\ counter[k].count > 0 /\ k \notin lost => Expiring(k) # {}
    BY DEF CounterInv, TtlsOK
  <2> QED
    BY <2>1, <2>2, <2>3
<1> QED
  BY CounterInvariant, <1>1, PTL
-----------------------------------------------------------------------------
(* Requests, and the room left on each counter.                             *)

Stages == AtLimit \cup Counting \cup Creating \cup {None}
Counters == [count : Nat, expires : Nat \cup {None}]
OnLimit(r) == r # None /\ r.phase \in Phases

\* A request's stage before its sessions are counted.
Uncounted == AtLimit \cup {Unscanned(w) : w \in Wallets} \cup {None}

StagesOK ==
    /\ creation \in [Creations -> Stages]
    /\ \A q \in Creations : Limited(q) => creation[q] \in AtLimit /\ creation[q].at <= now
    /\ granted \in [Keys -> [0 .. MaxTime -> Nat]]
    /\ lost \subseteq Keys
    /\ open \subseteq Sessions

\* Requests that have yet to count on a key.
Awaits(r, k) ==
    \/ r.step = "incr" /\ Key(r) = k
    \/ r.phase = "wallet" /\ k = <<"ip", r.ip>>

Awaiting(k) == {q \in Creations : Limited(q) /\ Awaits(creation[q], k)}

\* create_session admits a request below the bound, and each counts on a key once.
RoomOK ==
    \A k \in Keys :
        counter[k].count + Cardinality(Awaiting(k)) <= MaxCount + Cardinality(Creations)

\* What a step of a request at one of its limits does: the request goes to stage
\* s, its key's counter becomes c, and it is granted at the time it counted or not.
Granting(q, c) ==
    LET r == creation[q]
        k == Key(r)
    IN  \/ granted' = granted
        \/ /\ r.step = "incr" /\ counter[k].count # 0
           /\ c.count = counter[k].count + 1 /\ c.count <= LIMIT[r.phase]
           /\ granted' = [granted EXCEPT ![k] = [granted[k] EXCEPT ![now] = @ + 1]]
        \/ /\ r.step = "expire" /\ c.count = counter[k].count
           /\ granted' = [granted EXCEPT ![k] = [granted[k] EXCEPT ![r.at] = @ + 1]]

Move(q, s, c) ==
    LET r == creation[q]
        k == Key(r)
    IN  /\ Limited(q) /\ r \in AtLimit /\ k \in Keys
        /\ creation' = [creation EXCEPT ![q] = s] /\ s \in Uncounted
        /\ counter' = [counter EXCEPT ![k] = c] /\ c \in Counters
        /\ lost' \subseteq lost \cup {k}
        /\ now' = now
        /\ \/ c.expires = counter[k].expires
           \/ r.step = "expire" /\ c.expires = now + WINDOW[r.phase]
        /\ \/ c.count = counter[k].count
           \/ r.step = "incr" /\ c.count = counter[k].count + 1
        /\ OnLimit(s) =>
              /\ s \in AtLimit /\ s.at = now /\ s.ip = r.ip
              /\ \/ /\ s.step = "expire" /\ s.phase = r.phase /\ Key(s) = k
                    /\ r.step = "incr" /\ counter[k].count = 0 /\ c.count = 1
                    /\ granted' = granted
                 \/ s.step = "incr" /\ s.phase = "ip" /\ r.phase = "wallet"
        /\ Granting(q, c)

LEMMA VerdictMoves ==
    ASSUME NEW q \in Creations, NEW r \in AtLimit, NEW count, now \in Nat, Verdict(q, r, count)
    PROVE  \E s \in Uncounted :
             /\ creation' = [creation EXCEPT ![q] = s]
             /\ OnLimit(s) => /\ s \in AtLimit /\ s.at = now /\ s.ip = r.ip
                              /\ s.step = "incr" /\ s.phase = "ip" /\ r.phase = "wallet"
             /\ \/ granted' = granted
                \/ /\ count <= LIMIT[r.phase] \/ ~(count > LIMIT[r.phase])
                   /\ granted' = [granted EXCEPT ![Key(r)][r.at] = @ + 1]
<1>1. CASE Denied(r, count) /\ creation' = [creation EXCEPT ![q] = None] /\ granted' = granted
  BY <1>1 DEF Uncounted, OnLimit
<1>2. CASE ~Denied(r, count) /\ r.phase = "wallet"
           /\ creation' = [creation EXCEPT ![q] = [r EXCEPT !.phase = "ip", !.step = "incr", !.at = now]]
           /\ granted' = [granted EXCEPT ![Key(r)][r.at] = @ + 1]
  <2> DEFINE s == [r EXCEPT !.phase = "ip", !.step = "incr", !.at = now]
  <2>1. s \in AtLimit /\ s.at = now /\ s.ip = r.ip /\ s.step = "incr" /\ s.phase = "ip"
    BY DEF AtLimit, Phases
  <2> HIDE DEF s
  <2>2. s \in Uncounted
    BY <2>1 DEF Uncounted
  <2> QED
    BY <1>2, <2>1, <2>2 DEF s, Denied
<1>3. CASE ~Denied(r, count) /\ r.phase # "wallet"
           /\ creation' = [creation EXCEPT ![q] = Unscanned(r.wallet)]
           /\ granted' = [granted EXCEPT ![Key(r)][r.at] = @ + 1]
  <2> DEFINE s == Unscanned(r.wallet)
  <2>1. s \in Uncounted /\ ~OnLimit(s)
    BY DEF Uncounted, Unscanned, AtLimit, OnLimit, Phases
  <2> HIDE DEF s
  <2> QED
    BY <1>3, <2>1 DEF s, Denied
<1> QED
  BY <1>1, <1>2, <1>3 DEF Verdict

\* A grant, written as one function value replaced.
LEMMA GrantWritten ==
    ASSUME granted \in [Keys -> [0 .. MaxTime -> Nat]], NEW k \in Keys, NEW u \in 0 .. MaxTime
    PROVE  [granted EXCEPT ![k][u] = @ + 1]
               = [granted EXCEPT ![k] = [granted[k] EXCEPT ![u] = @ + 1]]
OBVIOUS

LEMMA IncrMoves ==
    ASSUME CounterInv, StagesOK, now \in 0 .. MaxTime, NEW q \in Creations, Incr(q), now' = now
    PROVE  \E s, c : Move(q, s, c)
<1> DEFINE r == [creation[q] EXCEPT !.at = now]
           k == Key(creation[q])
           c == [counter[k] EXCEPT !.count = @ + 1]
<1>1. Limited(q) /\ creation[q].step = "incr" /\ lost' = lost /\ creation[q] \in AtLimit
  BY DEF Incr, StagesOK
<1>2. /\ r \in AtLimit /\ Key(r) = k /\ r.at = now /\ r.phase = creation[q].phase
      /\ r.ip = creation[q].ip /\ now \in Nat
  BY <1>1 DEF AtLimit, Key
<1>3. k \in Keys
  BY <1>1, KeyOfRequest
<1>4. /\ counter[k] \in Counters /\ c \in Counters /\ counter[k].count \in Nat
      /\ c.count = counter[k].count + 1 /\ c.expires = counter[k].expires
  BY <1>3 DEF CounterInv, CountersOK, Counters
<1>5. counter' = [counter EXCEPT ![k] = c]
  BY <1>2, <1>3, CounterUpdates DEF Incr, CounterInv
<1>6. CASE SetsTtl(c.count) /\ creation' = [creation EXCEPT ![q] = [r EXCEPT !.step = "expire"]]
           /\ granted' = granted
  <2> DEFINE s == [r EXCEPT !.step = "expire"]
  <2>1. /\ s \in AtLimit /\ s.at = now /\ s.ip = creation[q].ip /\ s.step = "expire"
        /\ s.phase = creation[q].phase /\ Key(s) = k /\ s \in Uncounted
    BY <1>1, <1>2 DEF AtLimit, Key, Uncounted
  <2>2. counter[k].count = 0 /\ c.count = 1
    BY <1>4, <1>6 DEF SetsTtl
  <2> HIDE DEF r, c, s
  <2>3. Move(q, s, c)
    BY <1>1, <1>3, <1>4, <1>5, <1>6, <2>1, <2>2 DEF Move, Granting, s
  <2> QED
    BY <2>3
<1>7. CASE ~SetsTtl(c.count) /\ Verdict(q, r, c.count)
  <2>1. counter[k].count # 0
    BY <1>4, <1>7 DEF SetsTtl
  <2>2. PICK s \in Uncounted :
          /\ creation' = [creation EXCEPT ![q] = s]
          /\ OnLimit(s) => /\ s \in AtLimit /\ s.at = now /\ s.ip = r.ip
                           /\ s.step = "incr" /\ s.phase = "ip" /\ r.phase = "wallet"
          /\ \/ granted' = granted
             \/ /\ c.count <= LIMIT[r.phase] \/ ~(c.count > LIMIT[r.phase])
                /\ granted' = [granted EXCEPT ![Key(r)][r.at] = @ + 1]
    BY <1>2, <1>7, VerdictMoves
  <2>3. LIMIT[r.phase] \in Nat
    BY <1>2, AdmissionAssumption DEF AtLimit
  <2>4. c.count <= LIMIT[r.phase] \/ ~(c.count > LIMIT[r.phase]) => c.count <= LIMIT[r.phase]
    BY <1>4, <2>3
  <2>5. [granted EXCEPT ![Key(r)][r.at] = @ + 1]
            = [granted EXCEPT ![k] = [granted[k] EXCEPT ![now] = @ + 1]]
    BY <1>2, <1>3, GrantWritten DEF StagesOK
  <2> HIDE DEF r, c
  <2>6. Granting(q, c)
    BY <1>1, <1>2, <1>4, <2>1, <2>2, <2>4, <2>5 DEF Granting
  <2>7. Move(q, s, c)
    BY <1>1, <1>2, <1>3, <1>4, <1>5, <2>2, <2>6 DEF Move
  <2> QED
    BY <2>7
<1> QED
  <2>1. counter[Key(r)].count + 1 = c.count
    BY <1>2, <1>4
  <2> QED
    BY <1>6, <1>7, <2>1 DEF Incr

LEMMA ExpireMoves ==
    ASSUME CounterInv, StagesOK, now \in 0 .. MaxTime, NEW q \in Creations, Expire(q), now' = now
    PROVE  \E s, c : Move(q, s, c)
<1> DEFINE r == creation[q]
           k == Key(creation[q])
           c == [counter[k] EXCEPT !.expires = now + WINDOW[r.phase]]
<1>1. /\ Limited(q) /\ r.step = "expire" /\ lost' = lost /\ r \in AtLimit /\ r.at <= now
      /\ Verdict(q, r, 1)
      /\ counter' = [counter EXCEPT ![k].expires = now + WINDOW[r.phase]]
  BY DEF Expire, StagesOK
<1>2. k \in Keys /\ r.at \in 0 .. MaxTime /\ now \in Nat
  BY <1>1, KeyOfRequest, StartupAssumption DEF AtLimit
<1>3. now + WINDOW[r.phase] \in Nat
  BY <1>1, <1>2, AdmissionAssumption DEF AtLimit
<1>4. /\ c \in Counters /\ c.count = counter[k].count /\ c.expires = now + WINDOW[r.phase]
  BY <1>2, <1>3 DEF CounterInv, CountersOK, Counters
<1>5. counter' = [counter EXCEPT ![k] = c]
  BY <1>1, <1>2, CounterUpdates DEF CounterInv
<1>6. PICK s \in Uncounted :
          /\ creation' = [creation EXCEPT ![q] = s]
          /\ OnLimit(s) => /\ s \in AtLimit /\ s.at = now /\ s.ip = r.ip
                           /\ s.step = "incr" /\ s.phase = "ip" /\ r.phase = "wallet"
          /\ \/ granted' = granted
             \/ granted' = [granted EXCEPT ![k][r.at] = @ + 1]
  BY <1>1, <1>2, VerdictMoves
<1>7. [granted EXCEPT ![k][r.at] = @ + 1]
          = [granted EXCEPT ![k] = [granted[k] EXCEPT ![r.at] = @ + 1]]
  BY <1>2, GrantWritten DEF StagesOK
<1> HIDE DEF c
<1>8. Granting(q, c)
  BY <1>1, <1>4, <1>6, <1>7 DEF Granting
<1>9. Move(q, s, c)
  BY <1>1, <1>2, <1>4, <1>5, <1>6, <1>8 DEF Move
<1> QED
  BY <1>9

LEMMA FailureMoves ==
    ASSUME CounterInv, StagesOK, now \in 0 .. MaxTime, NEW q \in Creations, RedisFails(q),
           now' = now
    PROVE  \E s, c : Move(q, s, c)
<1> DEFINE r == creation[q]
           k == Key(creation[q])
<1>1. /\ Limited(q) /\ r \in AtLimit /\ k \in Keys /\ now \in Nat
      /\ creation' = [creation EXCEPT ![q] = None] /\ granted' = granted
      /\ lost' \subseteq lost \cup {k}
  BY KeyOfRequest DEF RedisFails, StagesOK
<1>2. None \in Uncounted /\ ~OnLimit(None)
  BY DEF Uncounted, OnLimit
<1>3. counter[k] \in Counters /\ counter[k].count \in Nat
  BY <1>1 DEF CounterInv, CountersOK, Counters
<1>4. CASE counter' = counter
  <2>1. counter' = [counter EXCEPT ![k] = counter[k]]
    BY <1>1, <1>4, CounterUpdates DEF CounterInv
  <2>2. Move(q, None, counter[k])
    BY <1>1, <1>2, <1>3, <2>1 DEF Move, Granting
  <2> QED
    BY <2>2
<1>5. CASE r.step = "incr" /\ counter' = [counter EXCEPT ![k].count = @ + 1]
  <2> DEFINE c == [counter[k] EXCEPT !.count = @ + 1]
  <2>1. c \in Counters /\ c.count = counter[k].count + 1 /\ c.expires = counter[k].expires
    BY <1>3 DEF Counters
  <2>2. counter' = [counter EXCEPT ![k] = c]
    BY <1>1, <1>5, CounterUpdates DEF CounterInv
  <2> HIDE DEF c
  <2>3. Move(q, None, c)
    BY <1>1, <1>2, <1>3, <1>5, <2>1, <2>2 DEF Move, Granting
  <2> QED
    BY <2>3
<1>6. CASE r.step = "expire" /\ counter' = [counter EXCEPT ![k].expires = now + WINDOW[r.phase]]
  <2> DEFINE c == [counter[k] EXCEPT !.expires = now + WINDOW[r.phase]]
  <2>1. now + WINDOW[r.phase] \in Nat
    BY <1>1, AdmissionAssumption DEF AtLimit
  <2>2. c \in Counters /\ c.count = counter[k].count /\ c.expires = now + WINDOW[r.phase]
    BY <1>3, <2>1 DEF Counters
  <2>3. counter' = [counter EXCEPT ![k] = c]
    BY <1>1, <1>6, CounterUpdates DEF CounterInv
  <2> HIDE DEF c
  <2>4. Move(q, None, c)
    BY <1>1, <1>2, <1>3, <1>6, <2>2, <2>3 DEF Move, Granting
  <2> QED
    BY <2>4
<1> QED
  BY <1>4, <1>5, <1>6 DEF RedisFails

\* What the other steps of create_session do: a request that is at no limit goes
\* to stage s, and only a new one goes to a limit.
Pass(q, s) ==
    /\ ~Limited(q)
    /\ creation' = [creation EXCEPT ![q] = s] /\ s \in Stages
    /\ UNCHANGED <<counter, granted, lost, now>>
    /\ OnLimit(s) =>
          /\ s \in AtLimit /\ s.at = now /\ s.step = "incr" /\ s.phase = "wallet"
          /\ counter[<<"wallet", s.wallet>>].count < MaxCount
          /\ counter[<<"ip", s.ip>>].count < MaxCount

\* What a page of the SCAN adds to a request's count.
PageAdds(q, keys, s) ==
    LET r == creation[q]
    IN  /\ r \in Counting /\ s \in Counting \cup Creating
        /\ keys \subseteq OpenOf(r.wallet)
        /\ creation' = [creation EXCEPT ![q] = s]
        /\ s.wallet = r.wallet /\ s.pages = r.pages + 1 /\ s.count = r.count + Cardinality(keys)
        /\ s.named = r.named \cup keys
        /\ s.first = IF r.pages = 0 THEN OpenOf(r.wallet) ELSE r.first
        /\ s \in Creating => s.first \cap open \subseteq s.named

LEMMA PageRead ==
    ASSUME StagesOK, NEW q \in Creations, get_active_session_count(q)
    PROVE  \E keys, s : PageAdds(q, keys, s)
<1> DEFINE r == creation[q]
           first == IF r.pages = 0 THEN OpenOf(r.wallet) ELSE r.first
           Page(phase, keys) ==
               [phase |-> phase, wallet |-> r.wallet, pages |-> r.pages + 1,
                count |-> r.count + Cardinality(keys), first |-> first,
                named |-> r.named \cup keys]
<1>1. r \in Counting
  BY DEF get_active_session_count, At, StagesOK, Stages, AtLimit, Phases, Counting, Creating, Scan
<1>2. PICK keys \in SUBSET OpenOf(r.wallet) :
        \/ creation' = [creation EXCEPT ![q] = Page("count", keys)]
        \/ /\ first \cap open \subseteq r.named \cup keys
           /\ creation' = [creation EXCEPT ![q] = Page("create", keys)]
  BY DEF get_active_session_count
<1>3. OpenOf(r.wallet) \subseteq Sessions /\ IsFiniteSet(OpenOf(r.wallet))
  BY AdmissionAssumption, FS_Subset DEF OpenOf, StagesOK
<1>4. Cardinality(keys) \in Nat
  BY <1>3, FS_Subset, FS_CardinalityType
<1>5. first \subseteq Sessions
  BY <1>1, <1>3 DEF Counting, Scan
<1>6. r.wallet \in Wallets /\ r.pages \in Nat /\ r.count \in Nat /\ r.named \subseteq Sessions
  BY <1>1 DEF Counting, Scan
<1>7. Page("count", keys) \in Counting /\ Page("create", keys) \in Creating
  BY <1>3, <1>4, <1>5, <1>6 DEF Counting, Creating, Scan
<1>8. Page("count", keys) \notin Creating
  BY DEF Creating, Scan
<1>9. CASE creation' = [creation EXCEPT ![q] = Page("count", keys)]
  <2>1. PageAdds(q, keys, Page("count", keys))
    BY <1>1, <1>7, <1>8, <1>9 DEF PageAdds
  <2> QED
    BY <2>1
<1>10. CASE /\ first \cap open \subseteq r.named \cup keys
            /\ creation' = [creation EXCEPT ![q] = Page("create", keys)]
  <2>1. PageAdds(q, keys, Page("create", keys))
    BY <1>1, <1>7, <1>10 DEF PageAdds
  <2> QED
    BY <2>1
<1> QED
  BY <1>2, <1>9, <1>10

LEMMA OutsidePasses ==
    ASSUME StagesOK, now \in Nat, now' = now, NEW q \in Creations,
           \/ \E w \in Wallets, i \in Ips : create_session(q, w, i)
           \/ get_active_session_count(q)
           \/ \E s \in Sessions : Create(q, s)
           \/ CreateFails(q)
    PROVE  \E s : Pass(q, s)
<1>1. CASE \E w \in Wallets, i \in Ips : create_session(q, w, i)
  <2>1. PICK w \in Wallets, i \in Ips : create_session(q, w, i)
    BY <1>1
  <2> DEFINE s == [phase |-> "wallet", step |-> "incr", wallet |-> w, ip |-> i, at |-> now]
  <2>2. /\ s \in AtLimit /\ s.at = now /\ s.step = "incr" /\ s.phase = "wallet"
        /\ s.wallet = w /\ s.ip = i
    BY DEF AtLimit, Phases
  <2>3. /\ creation' = [creation EXCEPT ![q] = s] /\ UNCHANGED <<counter, granted, lost>>
        /\ ~Limited(q)
        /\ counter[<<"wallet", w>>].count < MaxCount /\ counter[<<"ip", i>>].count < MaxCount
    BY <2>1 DEF create_session, Limited
  <2> HIDE DEF s
  <2>4. Pass(q, s)
    BY <2>2, <2>3 DEF Pass, Stages
  <2> QED
    BY <2>4
<1>2. CASE get_active_session_count(q)
  <2>1. ~Limited(q) /\ UNCHANGED <<counter, granted, lost>>
    BY <1>2 DEF get_active_session_count, At, Limited, Phases
  <2>2. PICK keys, s : PageAdds(q, keys, s)
    BY <1>2, PageRead
  <2>3. s \in Stages /\ ~OnLimit(s)
    BY <2>2 DEF PageAdds, Stages, OnLimit, Counting, Creating, Scan, Phases
  <2>4. Pass(q, s)
    BY <2>1, <2>2, <2>3 DEF Pass, PageAdds
  <2> QED
    BY <2>4
<1>3. CASE CreateFails(q) \/ \E s \in Sessions : Create(q, s)
  <2>1. /\ ~Limited(q) /\ UNCHANGED <<counter, granted, lost>>
        /\ creation' = [creation EXCEPT ![q] = None]
    BY <1>3 DEF CreateFails, Create, At, Limited, Phases
  <2>2. Pass(q, None)
    BY <2>1 DEF Pass, Stages, OnLimit
  <2> QED
    BY <2>2
<1> QED
  BY <1>1, <1>2, <1>3

\* A step of the system that is no step of a request, of the clock and no crash
\* leaves the limits alone.
Aside == UNCHANGED <<counter, creation, granted, lost, now>>

LEMMA StepKinds ==
    ASSUME CounterInv, StagesOK, now \in 0 .. MaxTime, [AccessNext]_accessVars
    PROVE  \/ \E q \in Creations : \E s, c : Move(q, s, c)
           \/ \E q \in Creations : \E s : Pass(q, s)
           \/ Tick
           \/ Crash
           \/ Aside
<1>1. CASE AdmissionNext
  <2>1. now' = now /\ now \in Nat
    BY <1>1 DEF AdmissionNext, lifeVars
  <2>2. CASE \E s \in Sessions :
                \/ SessionEnds(s)
                \/ \E hashrate \in Hashrates : submit_proof(s, hashrate)
    BY <2>1, <2>2 DEF SessionEnds, submit_proof, Aside
  <2>3. CASE \E q \in Creations : Incr(q) \/ Expire(q) \/ RedisFails(q)
    BY <2>1, <2>3, IncrMoves, ExpireMoves, FailureMoves
  <2>4. ASSUME NEW q \in Creations,
               \/ \E w \in Wallets, i \in Ips : create_session(q, w, i)
               \/ get_active_session_count(q)
               \/ \E s \in Sessions : Create(q, s)
               \/ CreateFails(q)
        PROVE  \E s : Pass(q, s)
    BY <2>1, <2>4, OutsidePasses
  <2> QED
    BY <1>1, <2>2, <2>3, <2>4 DEF AdmissionNext
<1>2. CASE \E env \in Environments : Start(env)
  BY <1>2 DEF Start, main, admissionVars, Aside
<1>3. CASE AuthNext /\ UNCHANGED admissionVars
  <2>1. now' = now
    BY <1>3 DEF AuthNext, nonce, login_consume, login_verify, lifeVars
  <2> QED
    BY <1>3, <2>1 DEF admissionVars, Aside
<1>4. CASE UNCHANGED accessVars
  BY <1>4 DEF accessVars, lifeVars, admissionVars, Aside
<1> QED
  BY <1>1, <1>2, <1>3, <1>4 DEF AccessNext

LEMMA OpenStep ==
    ASSUME open \subseteq Sessions, [AccessNext]_accessVars
    PROVE  open' \subseteq Sessions
<1>1. CASE AdmissionNext
  BY <1>1 DEF AdmissionNext, create_session, Incr, Expire, RedisFails, get_active_session_count,
     Create, CreateFails, SessionEnds, submit_proof
<1>2. CASE ~AdmissionNext
  <2>1. open' = open
    BY <1>2 DEF AccessNext, Start, admissionVars, accessVars, Crash, AdmissionLost, Tick, ExpireKeys
  <2> QED
    BY <2>1
<1> QED
  BY <1>1, <1>2

\* What a step leaves of a request: nothing changes for the others.
LEMMA OnlyRequest ==
    ASSUME StagesOK, NEW q \in Creations, NEW s, creation' = [creation EXCEPT ![q] = s]
    PROVE  /\ creation'[q] = s
           /\ Limited(q)' <=> OnLimit(s)
           /\ \A p \in Creations : p # q => creation'[p] = creation[p] /\ (Limited(p)' <=> Limited(p))
BY DEF StagesOK, Limited, OnLimit

LEMMA StagesMove ==
    ASSUME StagesOK, now \in 0 .. MaxTime, open' \subseteq Sessions,
           NEW q \in Creations, NEW s, NEW c, Move(q, s, c)
    PROVE  StagesOK'
<1>1. /\ creation' = [creation EXCEPT ![q] = s] /\ s \in Stages /\ now' = now
      /\ lost' \subseteq lost \cup {Key(creation[q])} /\ Key(creation[q]) \in Keys
      /\ OnLimit(s) => s \in AtLimit /\ s.at = now
  BY DEF Move, Uncounted, Stages, Unscanned, Counting, Scan
<1>2. creation' \in [Creations -> Stages] /\ lost' \subseteq Keys
  BY <1>1 DEF StagesOK
<1>3. \A p \in Creations : Limited(p)' => creation'[p] \in AtLimit /\ creation'[p].at <= now'
  <2>1. /\ creation'[q] = s
        /\ Limited(q)' <=> OnLimit(s)
        /\ \A p \in Creations : p # q => creation'[p] = creation[p] /\ (Limited(p)' <=> Limited(p))
    BY <1>1, OnlyRequest
  <2> QED
    BY <1>1, <2>1 DEF StagesOK
<1>4. granted' \in [Keys -> [0 .. MaxTime -> Nat]]
  <2>1. CASE granted' = granted
    BY <2>1 DEF StagesOK
  <2>2. CASE \E u \in 0 .. MaxTime : granted' =
               [granted EXCEPT ![Key(creation[q])] = [granted[Key(creation[q])] EXCEPT ![u] = @ + 1]]
    <3> DEFINE k == Key(creation[q])
    <3>1. PICK u \in 0 .. MaxTime :
            granted' = [granted EXCEPT ![k] = [granted[k] EXCEPT ![u] = @ + 1]]
      BY <2>2
    <3>2. k \in Keys
      BY <1>1
    <3> HIDE DEF k
    <3>3. granted[k] \in [0 .. MaxTime -> Nat]
      BY <3>2 DEF StagesOK
    <3>4. granted[k][u] + 1 \in Nat
      <4>1. u \in 0 .. MaxTime
        BY <3>1
      <4>2. granted[k][u] \in Nat
        BY <3>3, <4>1
      <4> QED
        BY <4>2
    <3>5. [granted[k] EXCEPT ![u] = @ + 1] \in [0 .. MaxTime -> Nat]
      BY <3>1, <3>3, <3>4
    <3> QED
      BY <3>1, <3>2, <3>5 DEF StagesOK
  <2>3. Limited(q) /\ creation[q] \in AtLimit /\ creation[q].at <= now
    BY DEF Move, StagesOK
  <2>4. creation[q].at \in 0 .. MaxTime
    BY <2>3, StartupAssumption DEF AtLimit
  <2> QED
    BY <2>1, <2>2, <2>4 DEF Move, Granting
<1> QED
  BY <1>2, <1>3, <1>4 DEF StagesOK

LEMMA StagesPass ==
    ASSUME StagesOK, now \in 0 .. MaxTime, open' \subseteq Sessions,
           NEW q \in Creations, NEW s, Pass(q, s)
    PROVE  StagesOK'
<1>1. /\ creation' = [creation EXCEPT ![q] = s] /\ s \in Stages
      /\ now' = now /\ lost' = lost /\ granted' = granted
      /\ OnLimit(s) => s \in AtLimit /\ s.at = now
  BY DEF Pass
<1>2. \A p \in Creations : Limited(p)' => creation'[p] \in AtLimit /\ creation'[p].at <= now'
  <2>1. /\ creation'[q] = s
        /\ Limited(q)' <=> OnLimit(s)
        /\ \A p \in Creations : p # q => creation'[p] = creation[p] /\ (Limited(p)' <=> Limited(p))
    BY <1>1, OnlyRequest
  <2> QED
    BY <1>1, <2>1 DEF StagesOK
<1> QED
  BY <1>1, <1>2 DEF StagesOK

LEMMA StagesStep ==
    ASSUME CounterInv, StagesOK, now \in 0 .. MaxTime, [AccessNext]_accessVars
    PROVE  StagesOK'
<1>1. open' \subseteq Sessions
  BY OpenStep DEF StagesOK
<1>2. CASE Tick
  <2>1. now' = now + 1 /\ UNCHANGED <<creation, granted, lost>>
    BY <1>2 DEF Tick, ExpireKeys
  <2>2. \A q \in Creations : Limited(q)' => creation'[q] \in AtLimit /\ creation'[q].at <= now'
    BY <2>1 DEF StagesOK, Limited, AtLimit
  <2> QED
    BY <1>1, <2>1, <2>2 DEF StagesOK
<1>3. CASE Crash
  <2>1. /\ creation' = [q \in Creations |-> None] /\ granted' = granted /\ now' = now
        /\ lost' \subseteq Keys
    BY <1>3 DEF Crash, AdmissionLost, StagesOK
  <2>2. \A q \in Creations : ~Limited(q)'
    BY <2>1 DEF Limited
  <2> QED
    BY <1>1, <2>1, <2>2 DEF StagesOK, Stages
<1>4. CASE Aside
  <2>1. \A q \in Creations : Limited(q)' => Limited(q)
    BY <1>4 DEF Aside, Limited
  <2> QED
    BY <1>1, <1>4, <2>1 DEF StagesOK, Aside
<1> QED
  BY <1>1, <1>2, <1>3, <1>4, StepKinds, StagesMove, StagesPass

\* A step of a request at a limit leaves nobody new waiting, and a request that
\* counts on a key has no further claim to it.
LEMMA AwaitingMove ==
    ASSUME StagesOK, NEW q \in Creations, NEW s, NEW c, Move(q, s, c)
    PROVE  /\ \A k \in Keys : Awaiting(k)' \subseteq Awaiting(k)
           /\ \A k \in Keys : k = Key(creation[q]) /\ creation[q].step = "incr" =>
                 q \in Awaiting(k) /\ q \notin Awaiting(k)'
<1> DEFINE r == creation[q]
<1>1. /\ creation'[q] = s
      /\ Limited(q)' <=> OnLimit(s)
      /\ \A p \in Creations : p # q => creation'[p] = creation[p] /\ (Limited(p)' <=> Limited(p))
  BY OnlyRequest DEF Move
<1>2. OnLimit(s) =>
        /\ s.ip = r.ip
        /\ \/ s.step = "expire" /\ s.phase = r.phase /\ Key(s) = Key(r)
           \/ s.step = "incr" /\ s.phase = "ip" /\ r.phase = "wallet"
  BY DEF Move
<1>3. Limited(q) /\ r \in AtLimit
  BY DEF Move
<1>4. \A k \in Keys : OnLimit(s) /\ Awaits(s, k) => Awaits(r, k)
  BY <1>2 DEF Awaits, Key
<1>5. \A k \in Keys : k = Key(r) /\ OnLimit(s) /\ r.step = "incr" => ~Awaits(s, k)
  BY <1>2, <1>3 DEF Awaits, Key, AtLimit, Phases
<1>6. \A k \in Keys : Awaiting(k)' \subseteq Awaiting(k)
  BY <1>1, <1>3, <1>4 DEF Awaiting, Awaits, Key
<1>7. \A k \in Keys : k = Key(r) /\ r.step = "incr" => q \in Awaiting(k)
  BY <1>3 DEF Awaiting, Awaits
<1>8. \A k \in Keys : k = Key(r) /\ r.step = "incr" => q \notin Awaiting(k)'
  BY <1>1, <1>5 DEF Awaiting, Awaits, Key
<1> QED
  BY <1>6, <1>7, <1>8

LEMMA AwaitingFinite ==
    ASSUME NEW k
    PROVE  /\ IsFiniteSet(Awaiting(k)) /\ Cardinality(Awaiting(k)) \in Nat
           /\ Cardinality(Awaiting(k)) <= Cardinality(Creations)
           /\ Cardinality(Creations) \in Nat
BY AdmissionAssumption, FS_Subset, FS_CardinalityType DEF Awaiting

LEMMA AwaitingStaysFinite ==
    ASSUME NEW k
    PROVE  /\ IsFiniteSet(Awaiting(k)') /\ Cardinality(Awaiting(k)') \in Nat
           /\ Cardinality(Awaiting(k)') <= Cardinality(Creations)
BY AdmissionAssumption, FS_Subset, FS_CardinalityType DEF Awaiting

LEMMA RoomMove ==
    ASSUME CounterInv, StagesOK, RoomOK, NEW q \in Creations, NEW s, NEW c, Move(q, s, c)
    PROVE  RoomOK'
<1> SUFFICES ASSUME NEW k \in Keys
             PROVE  counter'[k].count + Cardinality(Awaiting(k)')
                        <= MaxCount + Cardinality(Creations)
  BY DEF RoomOK
<1> DEFINE j == Key(creation[q])
<1>1. counter[k].count \in Nat /\ MaxCount \in Nat
  BY AdmissionAssumption DEF CounterInv, CountersOK
<1>2. counter[k].count + Cardinality(Awaiting(k)) <= MaxCount + Cardinality(Creations)
  BY DEF RoomOK
<1>3. Awaiting(k)' \subseteq Awaiting(k)
  BY AwaitingMove
<1>4. Cardinality(Awaiting(k)') <= Cardinality(Awaiting(k))
  BY <1>3, AwaitingFinite, FS_Subset
<1>5. CASE counter'[k].count = counter[k].count
  BY <1>1, <1>2, <1>4, <1>5, AwaitingFinite, AwaitingStaysFinite
<1>6. CASE k = j /\ creation[q].step = "incr" /\ counter'[k].count = counter[k].count + 1
  <2>1. q \in Awaiting(k) /\ q \notin Awaiting(k)'
    BY <1>6, AwaitingMove
  <2>2. Cardinality(Awaiting(k) \ {q}) = Cardinality(Awaiting(k)) - 1
    BY <2>1, AwaitingFinite, FS_RemoveElement
  <2>3. IsFiniteSet(Awaiting(k) \ {q}) /\ Awaiting(k)' \subseteq Awaiting(k) \ {q}
    BY <1>3, <2>1, AwaitingFinite, FS_RemoveElement
  <2>4. Cardinality(Awaiting(k)') <= Cardinality(Awaiting(k) \ {q})
    BY <2>3, FS_Subset
  <2> QED
    BY <1>1, <1>2, <1>6, <2>2, <2>4, AwaitingFinite, AwaitingStaysFinite
<1>7. /\ j \in Keys /\ counter' = [counter EXCEPT ![j] = c]
      /\ \/ c.count = counter[j].count
         \/ creation[q].step = "incr" /\ c.count = counter[j].count + 1
  BY DEF Move
<1>8. \/ counter'[k] = counter[k]
      \/ k = j /\ counter'[k] = c
  BY <1>7 DEF CounterInv, CountersOK
<1> QED
  BY <1>5, <1>6, <1>7, <1>8

LEMMA RoomPass ==
    ASSUME CounterInv, StagesOK, RoomOK, NEW q \in Creations, NEW s, Pass(q, s)
    PROVE  RoomOK'
<1> SUFFICES ASSUME NEW k \in Keys
             PROVE  counter'[k].count + Cardinality(Awaiting(k)')
                        <= MaxCount + Cardinality(Creations)
  BY DEF RoomOK
<1>1. counter[k].count \in Nat /\ MaxCount \in Nat /\ counter' = counter
  BY AdmissionAssumption DEF CounterInv, CountersOK, Pass
<1>2. counter[k].count + Cardinality(Awaiting(k)) <= MaxCount + Cardinality(Creations)
  BY DEF RoomOK
<1>3. /\ creation'[q] = s
      /\ Limited(q)' <=> OnLimit(s)
      /\ \A p \in Creations : p # q => creation'[p] = creation[p] /\ (Limited(p)' <=> Limited(p))
  BY OnlyRequest DEF Pass
<1>4. CASE OnLimit(s) /\ Awaits(s, k)
  <2>1. counter[k].count < MaxCount
    BY <1>4 DEF Pass, Awaits, Key
  <2>2. Cardinality(Awaiting(k)') \in Nat /\ Cardinality(Awaiting(k)') <= Cardinality(Creations)
    BY AwaitingStaysFinite
  <2>3. Cardinality(Creations) \in Nat
    BY AwaitingFinite
  <2> QED
    BY <1>1, <2>1, <2>2, <2>3
<1>5. CASE ~(OnLimit(s) /\ Awaits(s, k))
  <2>1. Awaiting(k)' \subseteq Awaiting(k)
    BY <1>3, <1>5 DEF Awaiting, Awaits, Key
  <2>2. Cardinality(Awaiting(k)') <= Cardinality(Awaiting(k))
    BY <2>1, AwaitingFinite, FS_Subset
  <2> QED
    BY <1>1, <1>2, <2>2, AwaitingFinite, AwaitingStaysFinite
<1> QED
  BY <1>4, <1>5

LEMMA RoomStep ==
    ASSUME CounterInv, StagesOK, RoomOK, now \in 0 .. MaxTime, [AccessNext]_accessVars
    PROVE  RoomOK'
<1>1. ASSUME NEW k \in Keys, creation' = creation \/ creation' = [q \in Creations |-> None],
             counter'[k].count = counter[k].count \/ counter'[k].count = 0
      PROVE  counter'[k].count + Cardinality(Awaiting(k)') <= MaxCount + Cardinality(Creations)
  <2>1. Awaiting(k)' \subseteq Awaiting(k)
    BY <1>1 DEF Awaiting, Awaits, Key, Limited
  <2>2. Cardinality(Awaiting(k)') <= Cardinality(Awaiting(k))
    BY <2>1, AwaitingFinite, FS_Subset
  <2>3. /\ counter[k].count \in Nat /\ MaxCount \in Nat
        /\ counter[k].count + Cardinality(Awaiting(k)) <= MaxCount + Cardinality(Creations)
    BY AdmissionAssumption DEF CounterInv, CountersOK, RoomOK
  <2> QED
    BY <1>1, <2>2, <2>3, AwaitingFinite, AwaitingStaysFinite
<1>2. CASE Tick
  <2>1. \A k \in Keys : counter'[k].count = counter[k].count \/ counter'[k].count = 0
    BY <1>2 DEF Tick, ExpireKeys, NoCounter
  <2>2. creation' = creation
    BY <1>2 DEF Tick, ExpireKeys
  <2> QED
    BY <1>1, <2>1, <2>2 DEF RoomOK
<1>3. CASE Crash
  <2>1. creation' = [q \in Creations |-> None] /\ counter' = counter
    BY <1>3 DEF Crash, AdmissionLost
  <2> QED
    BY <1>1, <2>1 DEF RoomOK
<1>4. CASE Aside
  <2>1. creation' = creation /\ counter' = counter
    BY <1>4 DEF Aside
  <2> QED
    BY <1>1, <2>1 DEF RoomOK
<1> QED
  BY <1>2, <1>3, <1>4, StepKinds, RoomMove, RoomPass

-----------------------------------------------------------------------------
(* Sessions, and the flags they are given.                                  *)

Event ==
    [session : Sessions, level : Levels \ {"Low"}, score : 1 .. MAX_ANOMALY_SCORE_BPS,
     triggers : SUBSET {"HashrateImpossible"}]

\* What the pages so far say of the count: a single page names each of its keys
\* once, a later one may repeat them, and nothing is counted that is not named.
CountOK(pages, count, named) ==
    /\ pages = 0 => named = {}
    /\ pages <= 1 => count = Cardinality(named)
    /\ named = {} => count = 0
    /\ Cardinality(named) <= count

\* A flag without a trigger is for two sessions named, or for one named again.
Earned(ctx) ==
    \/ Cardinality(ctx.named) >= 2
    \/ Cardinality(ctx.named) = 1 /\ ctx.pages >= 2

Scanning(q) == At(q, "count") \/ At(q, "create")

\* A request's count is as good as its pages, and once the loop has ended every
\* session that was open all along has been named.
ScanOK(q) ==
    /\ CountOK(creation[q].pages, creation[q].count, creation[q].named)
    /\ \A s \in creation[q].first : sessions[s] # None
    /\ At(q, "create") => creation[q].first \cap open \subseteq creation[q].named

ContextOK(ctx) ==
    /\ CountOK(ctx.pages, ctx.active_sessions_count, ctx.named)
    /\ ctx.beside \subseteq ctx.named

FlagInv ==
    /\ sessions \in [Sessions -> Context \cup {None}]
    /\ anomaly_events \subseteq Event
    /\ \A s \in open : sessions[s] # None
    /\ \A q \in Creations : Scanning(q) => ScanOK(q)
    /\ \A s \in Sessions : sessions[s] # None => ContextOK(sessions[s])
    /\ \A e \in anomaly_events :
          /\ sessions[e.session] # None
          /\ e.triggers = {} => Earned(sessions[e.session])

LEMMA NamedFinite ==
    ASSUME NEW named \in SUBSET Sessions
    PROVE  /\ IsFiniteSet(named) /\ Cardinality(named) \in Nat
           /\ named # {} => Cardinality(named) >= 1
<1>1. IsFiniteSet(named)
  BY AdmissionAssumption, FS_Subset
<1>2. Cardinality(named) \in Nat /\ (Cardinality(named) = 0 <=> named = {})
  BY <1>1, FS_CardinalityType, FS_EmptySet
<1> QED
  BY <1>1, <1>2

LEMMA FlagInvInit == AccessInit => FlagInv
<1> SUFFICES ASSUME AccessInit PROVE FlagInv
  OBVIOUS
<1>1. /\ creation = [q \in Creations |-> None] /\ sessions = [s \in Sessions |-> None]
      /\ open = {} /\ anomaly_events = {}
  BY DEF AccessInit, AdmissionInit
<1>2. \A q \in Creations : ~Scanning(q)
  BY <1>1 DEF At, Scanning
<1> QED
  BY <1>1, <1>2 DEF FlagInv

\* Steps that change no session, where a request that gets to its count has not
\* counted yet.
LEMMA FlagInvFrame ==
    ASSUME FlagInv, UNCHANGED <<sessions, open, anomaly_events>>,
           \A q \in Creations : Scanning(q)' =>
               creation'[q] = creation[q] \/ \E w : creation'[q] = Unscanned(w)
    PROVE  FlagInv'
<1>1. ASSUME NEW q \in Creations, Scanning(q)' PROVE ScanOK(q)'
  <2>1. CASE creation'[q] = creation[q]
    <3>1. Scanning(q) /\ (At(q, "create")' <=> At(q, "create"))
      BY <1>1, <2>1 DEF Scanning, At
    <3>2. ScanOK(q)
      BY <3>1 DEF FlagInv
    <3> QED
      BY <2>1, <3>1, <3>2 DEF ScanOK
  <2>2. CASE \E w : creation'[q] = Unscanned(w)
    <3>1. /\ creation'[q].pages = 0 /\ creation'[q].count = 0
          /\ creation'[q].named = {} /\ creation'[q].first = {} /\ creation'[q].phase = "count"
      BY <2>2 DEF Unscanned
    <3>2. CountOK(creation'[q].pages, creation'[q].count, creation'[q].named)
      BY <3>1, FS_EmptySet DEF CountOK
    <3> QED
      BY <3>1, <3>2 DEF ScanOK, At
  <2> QED
    BY <1>1, <2>1, <2>2
<1> QED
  BY <1>1 DEF FlagInv

\* A request at one of its limits gets no further than to the begin of its count.
LEMMA FlagInvMove ==
    ASSUME FlagInv, StagesOK, UNCHANGED <<sessions, open, anomaly_events>>,
           NEW q \in Creations, NEW s, NEW c, Move(q, s, c)
    PROVE  FlagInv'
<1>1. creation' = [creation EXCEPT ![q] = s] /\ s \in Uncounted
  BY DEF Move
<1>2. s # None /\ s.phase \in {"count", "create"} => \E w : s = Unscanned(w)
  BY <1>1 DEF Uncounted, AtLimit, Phases
<1>3. \A p \in Creations : Scanning(p)' =>
          creation'[p] = creation[p] \/ \E w : creation'[p] = Unscanned(w)
  BY <1>1, <1>2 DEF At, Scanning, StagesOK
<1> QED
  BY <1>3, FlagInvFrame

LEMMA FlagInvCount ==
    ASSUME FlagInv, StagesOK, NEW q \in Creations, get_active_session_count(q)
    PROVE  FlagInv'
<1>1. UNCHANGED <<sessions, open, anomaly_events>> /\ At(q, "count")
  BY DEF get_active_session_count
<1>2. PICK keys, s : PageAdds(q, keys, s)
  BY PageRead
<1> DEFINE r == creation[q]
<1>3. /\ r \in Counting /\ s \in Counting \cup Creating /\ keys \subseteq OpenOf(r.wallet)
      /\ creation' = [creation EXCEPT ![q] = s]
      /\ s.pages = r.pages + 1 /\ s.count = r.count + Cardinality(keys)
      /\ s.named = r.named \cup keys
      /\ s.first = IF r.pages = 0 THEN OpenOf(r.wallet) ELSE r.first
      /\ s \in Creating => s.first \cap open \subseteq s.named
  BY <1>2 DEF PageAdds
<1>4. ScanOK(q)
  BY <1>1 DEF FlagInv, Scanning
<1>5. /\ r.pages \in Nat /\ r.count \in Nat /\ r.named \subseteq Sessions
      /\ keys \subseteq Sessions /\ OpenOf(r.wallet) \subseteq open
  BY <1>3 DEF Counting, Scan, OpenOf, StagesOK
<1>6. creation'[q] = s /\ \A p \in Creations : p # q => creation'[p] = creation[p]
  BY <1>3 DEF StagesOK
<1>7. CountOK(s.pages, s.count, s.named)
  <2> DEFINE a == Cardinality(r.named)
             b == Cardinality(keys)
             u == Cardinality(r.named \cup keys)
  <2>1. IsFiniteSet(r.named) /\ IsFiniteSet(keys) /\ a \in Nat /\ b \in Nat /\ u \in Nat
    BY <1>5, NamedFinite
  <2>2. u <= a + b
    <3>1. /\ IsFiniteSet(r.named \cup keys) /\ IsFiniteSet(r.named \cap keys)
          /\ u = a + b - Cardinality(r.named \cap keys)
      BY <2>1, FS_Union, FS_Intersection
    <3>2. Cardinality(r.named \cap keys) \in Nat
      BY <3>1, FS_CardinalityType
    <3> QED
      BY <2>1, <3>1, <3>2
  <2>3. CountOK(r.pages, r.count, r.named)
    BY <1>4 DEF ScanOK
  <2>4. r.pages = 0 => r.named \cup keys = keys /\ a = 0
    BY <2>3, FS_EmptySet DEF CountOK
  <2>5. r.named \cup keys = {} => b = 0 /\ r.named = {}
    BY FS_EmptySet
  <2>6. r.pages = 0 => u = b
    BY <2>4
  <2>7. s.count = r.count + b /\ s.named = r.named \cup keys /\ Cardinality(s.named) = u
    BY <1>3
  <2>8. a <= r.count /\ (r.pages <= 1 => r.count = a) /\ (r.named = {} => r.count = 0)
    BY <2>3 DEF CountOK
  <2> HIDE DEF a, b, u
  <2>9. s.pages # 0 /\ (s.pages <= 1 => r.pages = 0)
    BY <1>3, <1>5
  <2> HIDE DEF r
  <2>10. s.pages <= 1 => s.count = u
    BY <1>5, <2>1, <2>4, <2>6, <2>7, <2>8, <2>9
  <2>11. s.named = {} => s.count = 0
    BY <1>5, <2>1, <2>5, <2>7, <2>8
  <2>12. u <= s.count
    BY <1>5, <2>1, <2>2, <2>7, <2>8
  <2> QED
    BY <2>7, <2>9, <2>10, <2>11, <2>12 DEF CountOK
<1>8. \A t \in s.first : sessions[t] # None
  BY <1>3, <1>4, <1>5 DEF ScanOK, FlagInv
<1>9. ScanOK(q)'
  <2>1. At(q, "create")' => s \in Creating
    BY <1>3, <1>6 DEF At, Counting, Creating, Scan
  <2> QED
    BY <1>1, <1>3, <1>6, <1>7, <1>8, <2>1 DEF ScanOK
<1>10. ASSUME NEW p \in Creations, Scanning(p)' PROVE ScanOK(p)'
  <2>1. CASE p = q
    BY <1>9, <2>1
  <2>2. CASE p # q
    <3>1. creation'[p] = creation[p] /\ Scanning(p) /\ (At(p, "create")' <=> At(p, "create"))
      BY <1>6, <1>10, <2>2 DEF Scanning, At
    <3>2. ScanOK(p)
      BY <3>1 DEF FlagInv
    <3> QED
      BY <1>1, <3>1, <3>2 DEF ScanOK
  <2> QED
    BY <2>1, <2>2
<1> QED
  BY <1>1, <1>10 DEF FlagInv

\* A session opened now was not open when any SCAN under way began.
LEMMA FlagInvCreate ==
    ASSUME FlagInv, StagesOK, NEW q \in Creations, NEW s \in Sessions, Create(q, s)
    PROVE  FlagInv'
<1> DEFINE r == creation[q]
           ctx == [wallet |-> r.wallet, active_sessions_count |-> r.count, pages |-> r.pages,
                   named |-> r.named, beside |-> r.first \cap open]
<1>1. /\ At(q, "create") /\ sessions[s] = None
      /\ sessions' = [sessions EXCEPT ![s] = ctx]
      /\ open' = open \cup {s}
      /\ creation' = [creation EXCEPT ![q] = None]
      /\ anomaly_events' = anomaly_events
  BY DEF Create
<1>2. r \in Creating /\ ScanOK(q)
  BY <1>1 DEF At, StagesOK, Stages, AtLimit, Phases, Counting, Creating, Scan, FlagInv, Scanning
<1>3. ctx \in Context /\ ctx # None /\ ContextOK(ctx)
  <2>1. ctx \in Context
    BY <1>2 DEF Creating, Scan, Context
  <2>2. ctx # None
    BY <2>1, AdmissionAssumption
  <2>3. ContextOK(ctx)
    BY <1>1, <1>2 DEF ContextOK, ScanOK
  <2> QED
    BY <2>1, <2>2, <2>3
<1> HIDE DEF ctx
<1>4. /\ sessions' \in [Sessions -> Context \cup {None}] /\ sessions'[s] = ctx
      /\ \A t \in Sessions : t # s => sessions'[t] = sessions[t]
  BY <1>1, <1>3 DEF FlagInv
<1>5. \A t \in open' : sessions'[t] # None
  BY <1>1, <1>3, <1>4 DEF FlagInv, StagesOK
<1>6. \A t \in Sessions : sessions'[t] # None => ContextOK(sessions'[t])
  BY <1>3, <1>4 DEF FlagInv
<1>7. ASSUME NEW p \in Creations, Scanning(p)' PROVE ScanOK(p)'
  <2>1. creation'[p] = creation[p] /\ Scanning(p) /\ (At(p, "create")' <=> At(p, "create"))
    BY <1>1, <1>7 DEF At, Scanning, StagesOK
  <2>2. ScanOK(p) /\ creation[p].first \subseteq Sessions
    BY <2>1 DEF FlagInv, At, Scanning, StagesOK, Stages, AtLimit, Phases, Counting, Creating, Scan
  <2>3. s \notin creation[p].first
    BY <1>1, <2>2 DEF ScanOK
  <2>4. \A t \in creation[p].first : sessions'[t] # None
    BY <1>4, <2>2, <2>3 DEF ScanOK
  <2>5. creation[p].first \cap open' = creation[p].first \cap open
    BY <1>1, <2>3
  <2> QED
    BY <2>1, <2>2, <2>4, <2>5 DEF ScanOK
<1>8. \A e \in anomaly_events' :
          sessions'[e.session] # None /\ (e.triggers = {} => Earned(sessions'[e.session]))
  <2> SUFFICES ASSUME NEW e \in anomaly_events
               PROVE  /\ sessions'[e.session] # None
                      /\ e.triggers = {} => Earned(sessions'[e.session])
    BY <1>1
  <2>1. e.session \in Sessions /\ sessions[e.session] # None
    BY DEF FlagInv, Event
  <2>2. sessions'[e.session] = sessions[e.session]
    BY <1>1, <1>4, <2>1
  <2> QED
    BY <2>2 DEF FlagInv
<1> QED
  BY <1>1, <1>4, <1>5, <1>6, <1>7, <1>8 DEF FlagInv

LEMMA FlagInvEnds ==
    ASSUME FlagInv, StagesOK, NEW s \in Sessions, SessionEnds(s)
    PROVE  FlagInv'
<1>1. /\ open' = open \ {s} /\ UNCHANGED <<creation, sessions, anomaly_events>>
  BY DEF SessionEnds
<1>2. ASSUME NEW q \in Creations, Scanning(q)' PROVE ScanOK(q)'
  <2>1. Scanning(q) /\ (At(q, "create")' <=> At(q, "create"))
    BY <1>1, <1>2 DEF Scanning, At
  <2>2. ScanOK(q)
    BY <2>1 DEF FlagInv
  <2> QED
    BY <1>1, <2>1, <2>2 DEF ScanOK
<1> QED
  BY <1>1, <1>2 DEF FlagInv

\* A submission has one result, so its assessment counts one signal or none.
LEMMA OneSignal ==
    ASSUME NEW s \in open, NEW hashrate \in Hashrates, FlagInv, open \subseteq Sessions,
           NEW a, a = process(prefilter_checks(hashrate, sessions[s])), a.level # "Low"
    PROVE  /\ a.level = "Medium" /\ a.score \in 1 .. MAX_ANOMALY_SCORE_BPS
           /\ a.triggers \in SUBSET {"HashrateImpossible"}
           /\ a.triggers = {} => sessions[s].active_sessions_count > 1
<1> DEFINE result == prefilter_checks(hashrate, sessions[s])
           triggers == {result} \ {"Valid", "Suspicious"}
           total == Cardinality(triggers) + (IF result = "Suspicious" THEN 1 ELSE 0)
<1>1. \/ result = "HashrateImpossible"
      \/ result = "Suspicious" /\ sessions[s].active_sessions_count > 1
      \/ result = "Valid"
  BY DEF prefilter_checks
<1>2. a = [level |-> level_for(total), score |-> anomaly_score_bps(total), triggers |-> triggers]
  BY DEF process
<1>3. Cardinality({}) = 0 /\ Cardinality({"HashrateImpossible"}) = 1
  BY FS_EmptySet, FS_Singleton
<1>4. \/ total = 1 /\ triggers = {"HashrateImpossible"}
      \/ total = 1 /\ triggers = {} /\ sessions[s].active_sessions_count > 1
      \/ total = 0
  <2>1. CASE result = "HashrateImpossible"
    <3>1. triggers = {"HashrateImpossible"}
      BY <2>1
    <3> QED
      BY <1>3, <2>1, <3>1
  <2>2. CASE result = "Suspicious" /\ sessions[s].active_sessions_count > 1
    <3>1. triggers = {}
      BY <2>2
    <3> QED
      BY <1>3, <2>2, <3>1
  <2>3. CASE result = "Valid"
    <3>1. triggers = {}
      BY <2>3
    <3> QED
      BY <1>3, <2>3, <3>1
  <2> HIDE DEF result, triggers, total
  <2> QED
    BY <1>1, <2>1, <2>2, <2>3
<1> HIDE DEF triggers, total
<1>5. total # 0
  BY <1>2 DEF level_for
<1>6. total = 1
  BY <1>4, <1>5
<1>7. level_for(1) = "Medium"
  BY DEF level_for
<1>8. anomaly_score_bps(1) \in 1 .. MAX_ANOMALY_SCORE_BPS
  BY AdmissionAssumption DEF anomaly_score_bps
<1> QED
  BY <1>2, <1>4, <1>5, <1>6, <1>7, <1>8

LEMMA SignalLevel ==
    ASSUME NEW result \in {"HashrateImpossible", "Suspicious"}
    PROVE  process(result).level # "Low"
<1> DEFINE triggers == {result} \ {"Valid", "Suspicious"}
           total == Cardinality(triggers) + (IF result = "Suspicious" THEN 1 ELSE 0)
<1>1. process(result).level = level_for(total)
  BY DEF process
<1>2. total = 1
  <2>1. CASE result = "HashrateImpossible"
    <3>1. triggers = {"HashrateImpossible"}
      BY <2>1
    <3>2. Cardinality(triggers) = 1
      BY <3>1, FS_Singleton
    <3> QED
      BY <2>1, <3>2
  <2>2. CASE result = "Suspicious"
    <3>1. triggers = {}
      BY <2>2
    <3>2. Cardinality(triggers) = 0
      BY <3>1, FS_EmptySet
    <3> QED
      BY <2>2, <3>2
  <2> QED
    BY <2>1, <2>2
<1> HIDE DEF total
<1>3. level_for(1) = "Medium"
  BY DEF level_for
<1> QED
  BY <1>1, <1>2, <1>3

LEMMA FlagInvSubmit ==
    ASSUME FlagInv, StagesOK, NEW s \in Sessions, NEW hashrate \in Hashrates,
           submit_proof(s, hashrate)
    PROVE  FlagInv'
<1> DEFINE a == process(prefilter_checks(hashrate, sessions[s]))
           e == [session |-> s, level |-> a.level, score |-> a.score, triggers |-> a.triggers]
<1>1. /\ s \in open /\ a.level # "Low" /\ anomaly_events' = anomaly_events \cup {e}
      /\ UNCHANGED <<creation, sessions, open>>
  BY DEF submit_proof
<1>2. open \subseteq Sessions
  BY DEF StagesOK
<1>3. /\ a.level = "Medium" /\ a.score \in 1 .. MAX_ANOMALY_SCORE_BPS
      /\ a.triggers \in SUBSET {"HashrateImpossible"}
      /\ a.triggers = {} => sessions[s].active_sessions_count > 1
  <2> HIDE DEF a
  <2> QED
    BY <1>1, <1>2, OneSignal DEF a
<1> HIDE DEF a
<1>4. e \in Event /\ e.session = s /\ e.triggers = a.triggers
  BY <1>3 DEF Event, Levels
<1>5. sessions[s] # None /\ (a.triggers = {} => Earned(sessions[s]))
  <2> DEFINE ctx == sessions[s]
  <2>1. ctx \in Context /\ ctx # None /\ ContextOK(ctx)
    BY <1>1 DEF FlagInv
  <2>2. /\ ctx.active_sessions_count \in Nat /\ ctx.pages \in Nat /\ ctx.named \subseteq Sessions
    BY <2>1 DEF Context
  <2>3. /\ Cardinality(ctx.named) \in Nat /\ (ctx.named # {} => Cardinality(ctx.named) >= 1)
    BY <2>2, NamedFinite
  <2>4. CountOK(ctx.pages, ctx.active_sessions_count, ctx.named)
    BY <2>1 DEF ContextOK
  <2> HIDE DEF ctx
  <2>5. ctx.active_sessions_count > 1 => Earned(ctx)
    BY <2>2, <2>3, <2>4 DEF CountOK, Earned
  <2> QED
    BY <1>3, <2>1, <2>5 DEF ctx
<1> HIDE DEF e
<1>6. \A x \in anomaly_events' :
          /\ sessions'[x.session] # None
          /\ x.triggers = {} => Earned(sessions'[x.session])
  BY <1>1, <1>4, <1>5 DEF FlagInv
<1>7. ASSUME NEW q \in Creations, Scanning(q)' PROVE ScanOK(q)'
  <2>1. Scanning(q) /\ (At(q, "create")' <=> At(q, "create"))
    BY <1>1, <1>7 DEF Scanning, At
  <2>2. ScanOK(q)
    BY <2>1 DEF FlagInv
  <2> QED
    BY <1>1, <2>1, <2>2 DEF ScanOK
<1> QED
  BY <1>1, <1>4, <1>6, <1>7 DEF FlagInv

LEMMA FlagInvStep ==
    ASSUME CounterInv, StagesOK, FlagInv, now \in 0 .. MaxTime, [AccessNext]_accessVars
    PROVE  FlagInv'
<1>1. CASE AdmissionNext
  <2>1. now' = now
    BY <1>1 DEF AdmissionNext, lifeVars
  <2>2. ASSUME NEW q \in Creations, Incr(q) \/ Expire(q) \/ RedisFails(q)
        PROVE  FlagInv'
    <3>1. UNCHANGED <<sessions, open, anomaly_events>>
      BY <2>2 DEF Incr, Expire, RedisFails
    <3>2. \E s, c : Move(q, s, c)
      BY <2>1, <2>2, IncrMoves, ExpireMoves, FailureMoves
    <3> QED
      BY <3>1, <3>2, FlagInvMove
  <2>3. ASSUME NEW q \in Creations,
               CreateFails(q) \/ \E w \in Wallets, i \in Ips : create_session(q, w, i)
        PROVE  FlagInv'
    <3>1. UNCHANGED <<sessions, open, anomaly_events>>
      BY <2>3 DEF CreateFails, create_session
    <3>2. \E s : /\ creation' = [creation EXCEPT ![q] = s]
                 /\ ~(s # None /\ s.phase \in {"count", "create"})
      BY <2>3 DEF CreateFails, create_session
    <3>3. \A p \in Creations : Scanning(p)' => creation'[p] = creation[p]
      BY <3>2 DEF At, Scanning, StagesOK
    <3> QED
      BY <3>1, <3>3, FlagInvFrame
  <2> QED
    BY <1>1, <2>2, <2>3, FlagInvCount, FlagInvCreate, FlagInvEnds, FlagInvSubmit DEF AdmissionNext
<1>2. CASE ~AdmissionNext
  <2>1. UNCHANGED <<sessions, open, anomaly_events>>
    BY <1>2 DEF AccessNext, Start, admissionVars, accessVars, Crash, AdmissionLost, Tick, ExpireKeys
  <2>2. creation' = creation \/ creation' = [q \in Creations |-> None]
    BY <1>2 DEF AccessNext, Start, admissionVars, accessVars, Crash, AdmissionLost, Tick, ExpireKeys
  <2>3. \A q \in Creations : Scanning(q)' => creation'[q] = creation[q]
    BY <2>2 DEF At, Scanning
  <2> QED
    BY <2>1, <2>3, FlagInvFrame
<1> QED
  BY <1>1, <1>2

\* What the counters of requests, the sessions and the flags rest on.
AdmissionInv ==
    /\ LoginInv
    /\ CounterInv
    /\ StagesOK
    /\ RoomOK
    /\ FlagInv

LEMMA AdmissionInvInit == AccessInit => AdmissionInv
<1> SUFFICES ASSUME AccessInit PROVE AdmissionInv
  OBVIOUS
<1>1. LoginInv /\ CounterInv /\ FlagInv
  BY LoginInvInit, CounterInvInit, FlagInvInit
<1>2. /\ creation = [q \in Creations |-> None] /\ open = {} /\ lost = {} /\ now = 0
      /\ granted = [k \in Keys |-> [t \in 0 .. MaxTime |-> 0]]
      /\ counter = [k \in Keys |-> NoCounter]
  BY DEF AccessInit, AdmissionInit, LifeInit
<1>3. \A q \in Creations : ~Limited(q)
  BY <1>2 DEF Limited
<1>4. StagesOK
  BY <1>2, <1>3 DEF StagesOK, Stages
<1>5. ASSUME NEW k \in Keys
      PROVE  counter[k].count + Cardinality(Awaiting(k)) <= MaxCount + Cardinality(Creations)
  <2>1. counter[k].count = 0 /\ MaxCount \in Nat
    BY <1>2, AdmissionAssumption DEF NoCounter
  <2> QED
    BY <2>1, AwaitingFinite
<1> QED
  BY <1>1, <1>4, <1>5 DEF AdmissionInv, RoomOK

\* AdmissionInv holds in every state.
THEOREM AdmissionInvariant == AccessSpec => []AdmissionInv
<1>1. ASSUME AdmissionInv, [AccessNext]_accessVars PROVE AdmissionInv'
  <2>1. LoginInv' /\ CounterInv'
    BY <1>1, LoginInvStep, CounterInvStep DEF AdmissionInv
  <2>2. now \in 0 .. MaxTime
    BY <1>1 DEF AdmissionInv, LoginInv, LifeTypeOK
  <2>3. StagesOK' /\ RoomOK' /\ FlagInv'
    BY <1>1, <2>2, StagesStep, RoomStep, FlagInvStep DEF AdmissionInv
  <2> QED
    BY <2>1, <2>3 DEF AdmissionInv
<1> QED
  BY AdmissionInvInit, <1>1, PTL DEF AccessSpec

\* submit_proof and create_session: for any number of pages, of sessions that
\* open and end between them and of concurrent creations, a flag without an
\* impossible hashrate is for two other sessions of the wallet that were open
\* during the SCAN, or for one whose key a later page repeated; and a session
\* beside which two others were open all along is always flagged.
THEOREM FlagsEarned == AccessSpec => []FlagsAreEarned
<1>1. ASSUME AdmissionInv PROVE FlagsAreEarned
  <2>1. FlagInv /\ open \subseteq Sessions
    BY <1>1 DEF AdmissionInv, StagesOK
  <2>2. ASSUME NEW s \in open, NEW hashrate \in Hashrates, Cardinality(sessions[s].beside) >= 2
        PROVE  process(prefilter_checks(hashrate, sessions[s])).level # "Low"
    <3> DEFINE ctx == sessions[s]
    <3>1. ctx \in Context /\ ContextOK(ctx)
      BY <2>1 DEF FlagInv
    <3>2. /\ ctx.active_sessions_count \in Nat /\ ctx.named \subseteq Sessions
          /\ ctx.beside \subseteq ctx.named /\ Cardinality(ctx.named) <= ctx.active_sessions_count
      BY <3>1 DEF Context, ContextOK, CountOK
    <3>3. /\ IsFiniteSet(ctx.named) /\ Cardinality(ctx.named) \in Nat
          /\ Cardinality(ctx.beside) <= Cardinality(ctx.named) /\ Cardinality(ctx.beside) \in Nat
      BY <3>2, NamedFinite, FS_Subset, FS_CardinalityType
    <3>4. ctx.active_sessions_count > 1
      BY <2>2, <3>2, <3>3
    <3>5. prefilter_checks(hashrate, ctx) \in {"HashrateImpossible", "Suspicious"}
      BY <3>4 DEF prefilter_checks
    <3> HIDE DEF ctx
    <3>6. process(prefilter_checks(hashrate, ctx)).level # "Low"
      BY <3>5, SignalLevel
    <3> QED
      BY <3>6 DEF ctx
  <2> QED
    BY <2>1, <2>2 DEF FlagInv, FlagsAreEarned, Earned
<1> QED
  BY AdmissionInvariant, <1>1, PTL

\* The admin layer, the rate limiter and the sessions' contexts keep to their
\* types; a counter stays within the bound create_session admits requests below
\* and one more for each of the concurrent requests.
THEOREM AccessTypes == AccessSpec => []AccessTypeOK
<1>1. ASSUME AdmissionInv PROVE AccessTypeOK
  <2>1. LifeTypeOK /\ AuthTypeOK
    BY <1>1 DEF AdmissionInv, LoginInv
  <2>2. counter \in [Keys -> [count : 0 .. MaxCount + Cardinality(Creations),
                              expires : Nat \cup {None}]]
    <3>1. ASSUME NEW k \in Keys
          PROVE  counter[k].count \in 0 .. MaxCount + Cardinality(Creations)
      <4>1. /\ counter[k].count \in Nat /\ MaxCount \in Nat
            /\ counter[k].count + Cardinality(Awaiting(k)) <= MaxCount + Cardinality(Creations)
        BY <1>1, AdmissionAssumption DEF AdmissionInv, CounterInv, CountersOK, RoomOK
      <4> QED
        BY <4>1, AwaitingFinite
    <3>2. counter \in [Keys -> [count : Nat, expires : Nat \cup {None}]]
      BY <1>1 DEF AdmissionInv, CounterInv, CountersOK
    <3> DEFINE N == 0 .. MaxCount + Cardinality(Creations)
    <3> HIDE DEF N
    <3>3. \A k \in Keys : counter[k] \in [count : N, expires : Nat \cup {None}]
      BY <3>1, <3>2 DEF N
    <3>4. counter \in [Keys -> [count : N, expires : Nat \cup {None}]]
      BY <3>2, <3>3
    <3> QED
      BY <3>4 DEF N
  <2>3. /\ creation \in [Creations -> AtLimit \cup Counting \cup Creating \cup {None}]
        /\ granted \in [Keys -> [0 .. MaxTime -> Nat]]
        /\ lost \subseteq Keys
        /\ open \subseteq Sessions
    BY <1>1 DEF AdmissionInv, StagesOK, Stages
  <2>4. /\ sessions \in [Sessions -> Context \cup {None}]
        /\ anomaly_events \subseteq [session : Sessions, level : Levels \ {"Low"},
               score : 1 .. MAX_ANOMALY_SCORE_BPS, triggers : SUBSET {"HashrateImpossible"}]
    BY <1>1 DEF AdmissionInv, FlagInv, Event
  <2> QED
    BY <2>1, <2>2, <2>3, <2>4 DEF AccessTypeOK, AdmissionTypeOK
<1> QED
  BY AdmissionInvariant, <1>1, PTL

-----------------------------------------------------------------------------
(* The limits, in every window.                                             *)

\* Grants at or after a time, and within a span.
Since(f, b) == SumFunctionOnSet(f, {v \in 0 .. MaxTime : b <= v})
Within(f, t, u) == SumFunctionOnSet(f, {v \in 0 .. MaxTime : t <= v /\ v < u})

\* b is when a key's counter began, for grants f, counter c, p requests that are
\* about to set its TTL, limit L and window W.  A grant since b, and a request
\* that may yet be granted at a time since b, is counted; the counter lives for
\* a window at least, so what was granted before b is one limit at most in any
\* window that reaches past b.
Epoch(f, c, p, b, L, W) ==
    /\ Since(f, b) + p <= c.count
    /\ Since(f, b) + p <= L
    /\ c.expires # None => b + W <= c.expires
    /\ \A t \in 0 .. MaxTime : b < t + W => Within(f, t, b) <= L
    /\ \A t \in 0 .. MaxTime : Within(f, t, t + W) <= 2 * L

Pending(k) == IF Expiring(k) = {} THEN 0 ELSE 1

EpochAt(k, b) ==
    /\ Epoch(granted[k], counter[k], Pending(k), b, LIMIT[k[1]], WINDOW[k[1]])
    /\ \A q \in Expiring(k) : b <= creation[q].at

NothingAhead(k) == \A u \in 0 .. MaxTime : u > now => granted[k][u] = 0

EpochOK == \A k \in Keys : NothingAhead(k) /\ \E b \in 0 .. now : EpochAt(k, b)

LEMMA TimesFinite ==
    ASSUME NEW S \in SUBSET (0 .. MaxTime)
    PROVE  IsFiniteSet(S)
<1>1. IsFiniteSet(0 .. MaxTime)
  BY StartupAssumption, UpTo
<1> QED
  BY <1>1, FS_Subset

LEMMA GrantsNat ==
    ASSUME NEW f \in [0 .. MaxTime -> Nat], NEW S \in SUBSET (0 .. MaxTime)
    PROVE  SumFunctionOnSet(f, S) \in Nat
<1>1. IsFiniteSet(S) /\ \A x \in S : f[x] \in Nat /\ f[x] \in Int
  BY TimesFinite
<1>2. SumFunctionOnSet(f, S) \in Int
  BY <1>1, SumType
<1>3. SumFunctionOnSet(f, {}) <= SumFunctionOnSet(f, S)
  <2>1. {} \in SUBSET S /\ \A x \in {} : f[x] \in Nat /\ f[x] <= f[x]
    OBVIOUS
  <2> QED
    BY <1>1, <2>1, SumLess
<1> QED
  BY <1>2, <1>3, SumEmpty

LEMMA SpansNat ==
    ASSUME NEW f \in [0 .. MaxTime -> Nat], NEW b, NEW t
    PROVE  Since(f, b) \in Nat /\ Within(f, t, b) \in Nat
BY GrantsNat DEF Since, Within

\* A part of the times has no more grants.
LEMMA GrantsLess ==
    ASSUME NEW f \in [0 .. MaxTime -> Nat], NEW S \in SUBSET (0 .. MaxTime), NEW T \in SUBSET S
    PROVE  SumFunctionOnSet(f, T) <= SumFunctionOnSet(f, S)
<1>1. /\ \A x \in S : f[x] \in Nat
      /\ \A x \in T : f[x] \in Nat /\ f[x] <= f[x]
  OBVIOUS
<1> QED
  BY <1>1, TimesFinite, SumLess

\* A window that reaches past b is what came before b and what came since.
LEMMA WindowSplits ==
    ASSUME NEW f \in [0 .. MaxTime -> Nat], NEW b \in Int, NEW t \in Int, NEW u \in Int
    PROVE  Within(f, t, u) <= Within(f, t, b) + Since(f, b)
<1> DEFINE X == {v \in 0 .. MaxTime : t <= v /\ v < u}
           Y == {v \in 0 .. MaxTime : t <= v /\ v < b}
           Z == {v \in 0 .. MaxTime : b <= v}
<1>1. Y \cap Z = {} /\ X \subseteq Y \cup Z /\ Y \cup Z \subseteq 0 .. MaxTime
  BY StartupAssumption
<1>2. Y \subseteq 0 .. MaxTime /\ Z \subseteq 0 .. MaxTime
  OBVIOUS
<1>3. Within(f, t, u) = SumFunctionOnSet(f, X)
  BY DEF Within
<1>4. Within(f, t, b) = SumFunctionOnSet(f, Y) /\ Since(f, b) = SumFunctionOnSet(f, Z)
  BY DEF Within, Since
<1> HIDE DEF X, Y, Z
<1>5. SumFunctionOnSet(f, X) <= SumFunctionOnSet(f, Y \cup Z)
  BY <1>1, GrantsLess
<1>6. SumFunctionOnSet(f, Y \cup Z) = SumFunctionOnSet(f, Y) + SumFunctionOnSet(f, Z)
  <2>1. IsFiniteSet(Y) /\ IsFiniteSet(Z) /\ \A x \in Y \cup Z : f[x] \in Int
    BY <1>1, <1>2, TimesFinite
  <2> QED
    BY <1>1, <2>1, SumUnion
<1> QED
  BY <1>3, <1>4, <1>5, <1>6

\* Nothing granted: the counter may grow, a TTL may be set, a request may give up.
LEMMA EpochQuiet ==
    ASSUME NEW f \in [0 .. MaxTime -> Nat], NEW c \in Counters, NEW d \in Counters, NEW p \in Nat,
           NEW m \in Nat, NEW b \in Nat, NEW L \in Nat, NEW W \in Nat, Epoch(f, c, p, b, L, W),
           m <= p, c.count <= d.count, d.expires = c.expires \/ b + W <= d.expires
    PROVE  Epoch(f, d, m, b, L, W)
<1>1. Since(f, b) \in Nat /\ c.count \in Nat /\ d.count \in Nat
  BY SpansNat DEF Counters
<1>2. Since(f, b) + m <= d.count /\ Since(f, b) + m <= L
  BY <1>1 DEF Epoch
<1> QED
  BY <1>2 DEF Epoch

\* The first request of a window counted, and is about to set the TTL.
LEMMA EpochBegun ==
    ASSUME NEW f \in [0 .. MaxTime -> Nat], NEW c \in Counters, NEW d \in Counters, NEW p \in Nat,
           NEW b \in Nat, NEW L \in Nat \ {0}, NEW W \in Nat, Epoch(f, c, p, b, L, W),
           c.count = 0, d.count = 1, d.expires = c.expires
    PROVE  Epoch(f, d, 1, b, L, W)
<1>1. Since(f, b) \in Nat
  BY SpansNat
<1>2. Since(f, b) = 0
  BY <1>1 DEF Epoch
<1>3. Since(f, b) + 1 <= d.count /\ Since(f, b) + 1 <= L
  BY <1>2
<1> QED
  BY <1>3 DEF Epoch

\* One grant more, at u.
Added(g, f, u) ==
    /\ g \in [0 .. MaxTime -> Nat]
    /\ g[u] = f[u] + 1
    /\ \A x \in 0 .. MaxTime : x # u => g[x] = f[x]

\* A grant since the counter began.
LEMMA EpochGrant ==
    ASSUME NEW f \in [0 .. MaxTime -> Nat], NEW c \in Counters, NEW d \in Counters, NEW p \in Nat,
           NEW m \in Nat, NEW b \in Nat, NEW L \in Nat, NEW W \in Nat, Epoch(f, c, p, b, L, W),
           NEW u \in 0 .. MaxTime, b <= u, NEW g, Added(g, f, u),
           Since(f, b) + 1 + m <= d.count, Since(f, b) + 1 + m <= L,
           d.expires = c.expires \/ b + W <= d.expires
    PROVE  Epoch(g, d, m, b, L, W)
<1>1. /\ g \in [0 .. MaxTime -> Nat] /\ g[u] = f[u] + 1 /\ f[u] \in Nat
      /\ \A x \in 0 .. MaxTime : x # u => g[x] = f[x]
  BY DEF Added
<1>2. Since(g, b) = Since(f, b) + 1
  <2> DEFINE Z == {v \in 0 .. MaxTime : b <= v}
  <2>1. u \in Z /\ Z \subseteq 0 .. MaxTime
    OBVIOUS
  <2>2. /\ \A x \in Z : f[x] \in Int
        /\ \A x \in Z : x # u => g[x] = f[x]
        /\ g[u] \in Int
    BY <1>1
  <2>3. Since(g, b) = SumFunctionOnSet(g, Z) /\ Since(f, b) = SumFunctionOnSet(f, Z)
    BY DEF Since
  <2> HIDE DEF Z
  <2>4. SumFunctionOnSet(g, Z) = SumFunctionOnSet(f, Z) - f[u] + g[u]
    <3>1. IsFiniteSet(Z)
      BY <2>1, TimesFinite
    <3> QED
      BY <2>1, <2>2, <3>1, SumChange
  <2>5. Since(f, b) \in Nat
    BY SpansNat
  <2> QED
    BY <1>1, <2>3, <2>4, <2>5
<1>3. ASSUME NEW t \in Int, NEW w \in Int, w <= b
      PROVE  Within(g, t, w) = Within(f, t, w)
  <2> DEFINE Y == {v \in 0 .. MaxTime : t <= v /\ v < w}
  <2>1. Y \subseteq 0 .. MaxTime /\ \A x \in Y : g[x] = f[x]
    BY <1>1, <1>3
  <2> HIDE DEF Y
  <2>2. SumFunctionOnSet(g, Y) = SumFunctionOnSet(f, Y)
    BY <2>1, TimesFinite, SumSame
  <2> QED
    BY <2>2 DEF Within, Y
<1>4. \A t \in 0 .. MaxTime : b < t + W => Within(g, t, b) <= L
  <2> SUFFICES ASSUME NEW t \in 0 .. MaxTime, b < t + W PROVE Within(g, t, b) <= L
    OBVIOUS
  <2>1. t \in Int /\ b \in Int /\ b <= b
    OBVIOUS
  <2>2. Within(g, t, b) = Within(f, t, b)
    BY <1>3, <2>1
  <2> QED
    BY <2>2 DEF Epoch
<1>5. Since(g, b) + m <= d.count /\ Since(g, b) + m <= L
  BY <1>2
<1>6. ASSUME NEW t \in 0 .. MaxTime
      PROVE  Within(g, t, t + W) <= 2 * L
  <2>0. t \in Int /\ b \in Int /\ t + W \in Int
    OBVIOUS
  <2>1. CASE t + W <= b
    <3>1. Within(g, t, t + W) = Within(f, t, t + W)
      BY <1>3, <2>0, <2>1
    <3> QED
      BY <3>1 DEF Epoch
  <2>2. CASE b < t + W
    <3>1. Within(g, t, t + W) <= Within(g, t, b) + Since(g, b)
      BY <1>1, <2>0, WindowSplits
    <3>2. /\ Within(g, t, t + W) \in Nat /\ Within(g, t, b) \in Nat /\ Since(g, b) \in Nat
      BY <1>1, SpansNat
    <3>3. Within(g, t, b) <= L
      BY <1>4, <2>2
    <3>4. Since(g, b) <= L
      BY <1>5, <3>2
    <3> QED
      BY <3>1, <3>2, <3>3, <3>4
  <2> QED
    BY <2>1, <2>2
<1> QED
  BY <1>4, <1>5, <1>6 DEF Epoch

\* Redis drops the key a window or more after it began, when nothing was granted
\* later than now: the next counter begins then.
LEMMA EpochEnds ==
    ASSUME NEW f \in [0 .. MaxTime -> Nat], NEW c \in Counters, NEW p \in Nat, NEW b \in Nat,
           NEW L \in Nat, NEW W \in Nat, Epoch(f, c, p, b, L, W), NEW n \in Nat,
           c.expires # None, c.expires <= n, \A u \in 0 .. MaxTime : u >= n => f[u] = 0
    PROVE  Epoch(f, NoCounter, 0, n, L, W)
<1>1. c.expires \in Nat /\ b + W <= n
  BY StartupAssumption DEF Epoch, Counters
<1>2. Since(f, n) = 0
  <2> DEFINE Z == {v \in 0 .. MaxTime : n <= v}
  <2>1. /\ Z \subseteq 0 .. MaxTime /\ {} \in SUBSET Z /\ \A x \in Z : f[x] \in Nat
        /\ \A x \in Z : x \notin {} => f[x] = 0
    OBVIOUS
  <2>2. Since(f, n) = SumFunctionOnSet(f, Z)
    BY DEF Since
  <2> HIDE DEF Z
  <2>3. SumFunctionOnSet(f, Z) = SumFunctionOnSet(f, {})
    BY <2>1, TimesFinite, SumSupport
  <2> QED
    BY <2>2, <2>3, SumEmpty
<1>3. ASSUME NEW t \in 0 .. MaxTime, n < t + W
      PROVE  Within(f, t, n) <= L
  <2>1. b <= t
    BY <1>1, <1>3
  <2> DEFINE Y == {v \in 0 .. MaxTime : t <= v /\ v < n}
             Z == {v \in 0 .. MaxTime : b <= v}
  <2>2. Y \subseteq Z /\ Z \subseteq 0 .. MaxTime
    BY <2>1
  <2>3. Within(f, t, n) = SumFunctionOnSet(f, Y) /\ Since(f, b) = SumFunctionOnSet(f, Z)
    BY DEF Within, Since
  <2> HIDE DEF Y, Z
  <2>4. SumFunctionOnSet(f, Y) <= SumFunctionOnSet(f, Z)
    BY <2>2, GrantsLess
  <2>5. Within(f, t, n) \in Nat /\ Since(f, b) \in Nat
    BY SpansNat
  <2>6. Since(f, b) <= L
    BY <2>5 DEF Epoch
  <2> QED
    BY <2>3, <2>4, <2>5, <2>6
<1>4. NoCounter.count = 0 /\ NoCounter.expires = None
  BY DEF NoCounter
<1> QED
  BY <1>2, <1>3, <1>4 DEF Epoch

LEMMA KeyLimits ==
    ASSUME NEW k \in Keys
    PROVE  /\ k[1] \in Phases
           /\ LIMIT[k[1]] \in Nat \ {0} /\ LIMIT[k[1]] \in Nat
           /\ WINDOW[k[1]] \in Nat
<1>1. k[1] \in Phases
  BY DEF Keys, Phases
<1> QED
  BY <1>1, AdmissionAssumption

LEMMA PendingNat ==
    ASSUME NEW k
    PROVE  Pending(k) \in Nat /\ Pending(k)' \in Nat /\ (Expiring(k) # {} => Pending(k) = 1)
BY DEF Pending

\* A key of which nothing is granted and whose TTL no new request is to set.
LEMMA EpochFrame ==
    ASSUME CounterInv, CounterInv', StagesOK, NEW k \in Keys, NEW b \in Nat, EpochAt(k, b),
           granted'[k] = granted[k],
           counter[k].count <= counter'[k].count,
           counter'[k].expires = counter[k].expires \/ b + WINDOW[k[1]] <= counter'[k].expires,
           \A q \in Expiring(k)' : q \in Expiring(k) /\ creation'[q] = creation[q]
    PROVE  EpochAt(k, b)'
<1>1. /\ counter[k] \in Counters /\ counter'[k] \in Counters /\ granted[k] \in [0 .. MaxTime -> Nat]
  BY DEF CounterInv, CountersOK, Counters, StagesOK
<1>2. Pending(k)' <= Pending(k) /\ Pending(k) \in Nat /\ Pending(k)' \in Nat
  BY DEF Pending
<1>3. Epoch(granted[k], counter[k], Pending(k), b, LIMIT[k[1]], WINDOW[k[1]])
  BY DEF EpochAt
<1>4. Epoch(granted[k], counter'[k], Pending(k)', b, LIMIT[k[1]], WINDOW[k[1]])
  BY <1>1, <1>2, <1>3, KeyLimits, EpochQuiet
<1>5. \A q \in Expiring(k)' : b <= creation'[q].at
  BY DEF EpochAt
<1> QED
  BY <1>4, <1>5 DEF EpochAt

\* The requests about to set a key's TTL, before and after a step of one request.
LEMMA ExpiringMoves ==
    ASSUME StagesOK, NEW q \in Creations, NEW s, NEW c, Move(q, s, c), NEW k \in Keys
    PROVE  \/ \A p \in Expiring(k)' : p \in Expiring(k) /\ p # q /\ creation'[p] = creation[p]
           \/ /\ k = Key(creation[q]) /\ creation'[q].at = now /\ granted' = granted
              /\ creation[q].step = "incr" /\ counter[k].count = 0 /\ c.count = 1
              /\ c.expires = counter[k].expires
              /\ q \in Expiring(k)'
              /\ \A p \in Expiring(k)' : p # q => p \in Expiring(k) /\ creation'[p] = creation[p]
<1>1. /\ creation'[q] = s
      /\ Limited(q)' <=> OnLimit(s)
      /\ \A p \in Creations : p # q => creation'[p] = creation[p] /\ (Limited(p)' <=> Limited(p))
  BY OnlyRequest DEF Move
<1>2. \A p \in Expiring(k)' : p # q => p \in Expiring(k) /\ creation'[p] = creation[p]
  BY <1>1 DEF Expiring, Key
<1>3. ASSUME q \in Expiring(k)'
      PROVE  /\ k = Key(creation[q]) /\ creation'[q].at = now /\ granted' = granted
             /\ creation[q].step = "incr" /\ counter[k].count = 0 /\ c.count = 1
             /\ c.expires = counter[k].expires
  <2>1. OnLimit(s) /\ s.step = "expire" /\ Key(s) = k
    BY <1>1, <1>3 DEF Expiring, Key
  <2>2. /\ s.at = now /\ Key(s) = Key(creation[q]) /\ granted' = granted
        /\ creation[q].step = "incr" /\ counter[Key(creation[q])].count = 0 /\ c.count = 1
    BY <2>1 DEF Move
  <2>3. c.expires = counter[Key(creation[q])].expires
    BY <2>2 DEF Move
  <2> QED
    BY <1>1, <2>1, <2>2, <2>3
<1> QED
  BY <1>2, <1>3

\* A step of a request at a limit, for its own key.
LEMMA EpochOwn ==
    ASSUME CounterInv, CounterInv', StagesOK, now \in 0 .. MaxTime,
           NEW q \in Creations, NEW s, NEW c, Move(q, s, c),
           NEW k \in Keys, k = Key(creation[q]), NEW b \in 0 .. now, EpochAt(k, b)
    PROVE  EpochAt(k, b)'
<1> DEFINE r == creation[q]
           L == LIMIT[k[1]]
           W == WINDOW[k[1]]
<1>1. /\ counter[k] \in Counters /\ counter'[k] = c /\ c \in Counters
      /\ granted[k] \in [0 .. MaxTime -> Nat]
  BY DEF CounterInv, CountersOK, Counters, StagesOK, Move
<1>2. /\ b \in Nat /\ L \in Nat \ {0} /\ L \in Nat /\ W \in Nat /\ r.phase = k[1]
      /\ r \in AtLimit /\ Limited(q) /\ r.at <= now /\ r.at \in 0 .. MaxTime
  <2>1. r \in AtLimit /\ Limited(q) /\ r.at <= now
    BY DEF Move, StagesOK
  <2>2. r.at \in 0 .. MaxTime
    BY <2>1, StartupAssumption DEF AtLimit
  <2> QED
    BY <2>1, <2>2, KeyLimits DEF Key
<1>3. Epoch(granted[k], counter[k], Pending(k), b, L, W)
  BY DEF EpochAt
<1>4. Pending(k) \in Nat /\ Pending(k)' \in Nat /\ c.count \in Nat /\ counter[k].count \in Nat
  BY <1>1, PendingNat DEF Counters
<1>5. c.expires = counter[k].expires \/ b + W <= c.expires
  BY <1>2 DEF Move
<1>6. counter[k].count <= c.count
  BY <1>4 DEF Move
<1>7. CASE /\ creation'[q].at = now /\ granted' = granted
           /\ counter[k].count = 0 /\ c.count = 1
           /\ c.expires = counter[k].expires
           /\ q \in Expiring(k)'
           /\ \A p \in Expiring(k)' : p # q => p \in Expiring(k) /\ creation'[p] = creation[p]
  <2>1. Pending(k)' = 1
    BY <1>7 DEF Pending
  <2>2. Epoch(granted[k], c, 1, b, L, W)
    <3> HIDE DEF L, W
    <3> QED
      BY <1>1, <1>2, <1>3, <1>4, <1>7, EpochBegun
  <2>3. \A p \in Expiring(k)' : b <= creation'[p].at
    BY <1>7 DEF EpochAt
  <2> QED
    BY <1>1, <1>7, <2>1, <2>2, <2>3 DEF EpochAt
<1>8. CASE \A p \in Expiring(k)' : p \in Expiring(k) /\ p # q /\ creation'[p] = creation[p]
  <2>1. CASE granted' = granted
    <3>1. counter'[k].expires = counter[k].expires \/ b + WINDOW[k[1]] <= counter'[k].expires
      BY <1>1, <1>5
    <3>2. counter[k].count <= counter'[k].count /\ granted'[k] = granted[k]
      BY <1>1, <1>6, <2>1
    <3> QED
      BY <1>2, <1>8, <3>1, <3>2, EpochFrame
  <2>2. ASSUME NEW u \in 0 .. MaxTime, b <= u,
               granted' = [granted EXCEPT ![k] = [granted[k] EXCEPT ![u] = @ + 1]],
               Since(granted[k], b) + 1 + Pending(k)' <= c.count,
               Since(granted[k], b) + 1 + Pending(k)' <= L
        PROVE  EpochAt(k, b)'
    <3>1. granted'[k] = [granted[k] EXCEPT ![u] = @ + 1]
      BY <2>2 DEF StagesOK
    <3>2. Added(granted'[k], granted[k], u)
      <4>1. granted[k][u] \in Nat
        BY <1>1
      <4>2. granted[k][u] + 1 \in Nat
        BY <4>1
      <4> QED
        BY <1>1, <3>1, <4>2 DEF Added
    <3>3. Epoch(granted'[k], c, Pending(k)', b, L, W)
      <4> DEFINE f == granted[k]
                 g == granted'[k]
                 d == counter[k]
                 m == Pending(k)'
                 n == Pending(k)
      <4>1. /\ f \in [0 .. MaxTime -> Nat] /\ d \in Counters /\ c \in Counters
            /\ m \in Nat /\ n \in Nat /\ b \in Nat /\ L \in Nat /\ W \in Nat
            /\ Added(g, f, u) /\ Epoch(f, d, n, b, L, W)
        BY <1>1, <1>2, <1>3, <1>4, <3>2
      <4>2. /\ Since(f, b) + 1 + m <= c.count /\ Since(f, b) + 1 + m <= L
            /\ c.expires = d.expires \/ b + W <= c.expires
            /\ u \in 0 .. MaxTime /\ b <= u
        BY <1>5, <2>2
      <4> HIDE DEF L, W, f, g, d, m, n
      <4>3. Epoch(g, c, m, b, L, W)
        BY <4>1, <4>2, EpochGrant
      <4> QED
        BY <4>3 DEF g, m
    <3> HIDE DEF L, W
    <3>4. \A p \in Expiring(k)' : b <= creation'[p].at
      BY <1>8 DEF EpochAt
    <3> QED
      BY <1>1, <3>3, <3>4 DEF EpochAt, L, W
  <2>3. CASE /\ c.count = counter[k].count + 1 /\ c.count <= LIMIT[r.phase]
             /\ granted' = [granted EXCEPT ![k] = [granted[k] EXCEPT ![now] = @ + 1]]
    <3>1. Pending(k)' <= Pending(k)
      BY <1>8 DEF Pending
    <3>2. Since(granted[k], b) \in Nat /\ Since(granted[k], b) + Pending(k) <= counter[k].count
      BY <1>1, <1>3, SpansNat DEF Epoch
    <3>3. /\ Since(granted[k], b) + 1 + Pending(k)' <= c.count
          /\ Since(granted[k], b) + 1 + Pending(k)' <= L
      BY <1>2, <1>4, <2>3, <3>1, <3>2
    <3>4. now \in 0 .. MaxTime /\ b <= now
      BY <1>2
    <3> QED
      BY <2>2, <2>3, <3>3, <3>4
  <2>4. CASE /\ r.step = "expire" /\ c.count = counter[k].count
             /\ granted' = [granted EXCEPT ![k] = [granted[k] EXCEPT ![r.at] = @ + 1]]
    <3>1. q \in Expiring(k)
      BY <1>2, <2>4 DEF Expiring
    <3>2. Expiring(k)' = {}
      BY <1>8, <3>1 DEF CounterInv, TtlsOK
    <3>3. Pending(k) = 1 /\ Pending(k)' = 0 /\ b <= r.at
      BY <3>1, <3>2 DEF Pending, EpochAt
    <3>4. /\ Since(granted[k], b) \in Nat /\ Since(granted[k], b) + Pending(k) <= counter[k].count
          /\ Since(granted[k], b) + Pending(k) <= L
      BY <1>1, <1>3, SpansNat DEF Epoch
    <3>5. /\ Since(granted[k], b) + 1 + Pending(k)' <= c.count
          /\ Since(granted[k], b) + 1 + Pending(k)' <= L
      BY <1>4, <2>4, <3>3, <3>4
    <3> QED
      BY <1>2, <2>2, <2>4, <3>3, <3>5
  <2> QED
    BY <2>1, <2>3, <2>4 DEF Move, Granting
<1> QED
  BY <1>7, <1>8, ExpiringMoves

LEMMA EpochMove ==
    ASSUME CounterInv, CounterInv', StagesOK, EpochOK, now \in 0 .. MaxTime,
           NEW q \in Creations, NEW s, NEW c, Move(q, s, c)
    PROVE  EpochOK'
<1> SUFFICES ASSUME NEW k \in Keys
             PROVE  NothingAhead(k)' /\ \E b \in 0 .. now' : EpochAt(k, b)'
  BY DEF EpochOK
<1> DEFINE j == Key(creation[q])
<1>1. /\ now' = now /\ counter' = [counter EXCEPT ![j] = c] /\ j \in Keys
      /\ Limited(q) /\ creation[q] \in AtLimit /\ creation[q].at <= now
  BY DEF Move, StagesOK
<1>2. PICK b \in 0 .. now : EpochAt(k, b)
  BY DEF EpochOK
<1>3. \/ granted' = granted
      \/ \E u \in 0 .. now : granted' = [granted EXCEPT ![j] = [granted[j] EXCEPT ![u] = @ + 1]]
  <2>1. now \in 0 .. now /\ creation[q].at \in 0 .. now
    BY <1>1 DEF AtLimit
  <2> QED
    BY <2>1 DEF Move, Granting
<1>4. NothingAhead(k)'
  <2>1. NothingAhead(k)
    BY DEF EpochOK
  <2>2. CASE granted' = granted
    BY <1>1, <2>1, <2>2 DEF NothingAhead
  <2>3. CASE \E u \in 0 .. now : granted' = [granted EXCEPT ![j] = [granted[j] EXCEPT ![u] = @ + 1]]
    <3>1. PICK u \in 0 .. now : granted' = [granted EXCEPT ![j] = [granted[j] EXCEPT ![u] = @ + 1]]
      BY <2>3
    <3>2. granted[k] \in [0 .. MaxTime -> Nat] /\ granted \in [Keys -> [0 .. MaxTime -> Nat]]
      BY DEF StagesOK
    <3>3. \A v \in 0 .. MaxTime : v > now => granted'[k][v] = granted[k][v]
      <4>1. CASE k # j
        BY <3>1, <3>2, <4>1
      <4>2. CASE k = j
        <5>1. granted'[k] = [granted[k] EXCEPT ![u] = @ + 1]
          BY <3>1, <3>2, <4>2
        <5>2. u <= now
          BY <3>1
        <5> QED
          BY <3>2, <5>1, <5>2
      <4> QED
        BY <4>1, <4>2
    <3> QED
      BY <1>1, <2>1, <3>3 DEF NothingAhead
  <2> QED
    BY <1>3, <2>2, <2>3
<1>5. EpochAt(k, b)'
  <2>1. CASE k = j
    BY <1>2, <2>1, EpochOwn
  <2>2. CASE k # j
    <3>1. granted'[k] = granted[k]
      BY <1>3, <2>2 DEF StagesOK
    <3>2. counter'[k] = counter[k] /\ counter[k].count \in Nat
      BY <1>1, <2>2 DEF CounterInv, CountersOK
    <3>3. \A p \in Expiring(k)' : p \in Expiring(k) /\ creation'[p] = creation[p]
      BY <2>2, ExpiringMoves
    <3>4. counter[k].count <= counter'[k].count /\ b \in Nat
      BY <1>2, <3>2
    <3> QED
      BY <1>2, <3>1, <3>2, <3>3, <3>4, EpochFrame
  <2> QED
    BY <2>1, <2>2
<1> QED
  BY <1>1, <1>2, <1>4, <1>5

LEMMA EpochStep ==
    ASSUME CounterInv, CounterInv', StagesOK, EpochOK, now \in 0 .. MaxTime,
           [AccessNext]_accessVars
    PROVE  EpochOK'
<1>1. ASSUME now' = now, granted' = granted, counter' = counter,
             \A k \in Keys : \A p \in Expiring(k)' : p \in Expiring(k) /\ creation'[p] = creation[p]
      PROVE  EpochOK'
  <2> SUFFICES ASSUME NEW k \in Keys
               PROVE  NothingAhead(k)' /\ \E b \in 0 .. now' : EpochAt(k, b)'
    BY DEF EpochOK
  <2>1. PICK b \in 0 .. now : EpochAt(k, b)
    BY DEF EpochOK
  <2>2. b \in Nat /\ counter[k].count \in Nat
    BY <2>1 DEF CounterInv, CountersOK
  <2>3. /\ counter[k].count <= counter'[k].count /\ counter'[k].expires = counter[k].expires
        /\ granted'[k] = granted[k]
    BY <1>1, <2>2
  <2>4. EpochAt(k, b)'
    BY <1>1, <2>1, <2>2, <2>3, EpochFrame
  <2>5. NothingAhead(k)'
    BY <1>1 DEF NothingAhead, EpochOK
  <2> QED
    BY <1>1, <2>1, <2>4, <2>5
<1>2. CASE Aside
  <2>1. now' = now /\ granted' = granted /\ counter' = counter /\ creation' = creation
    BY <1>2 DEF Aside
  <2>2. \A k \in Keys : \A p \in Expiring(k)' : p \in Expiring(k) /\ creation'[p] = creation[p]
    BY <2>1 DEF Expiring, Limited
  <2> QED
    BY <1>1, <2>1, <2>2
<1>3. CASE Crash
  <2>1. /\ now' = now /\ granted' = granted /\ counter' = counter
        /\ creation' = [q \in Creations |-> None]
    BY <1>3 DEF Crash, AdmissionLost
  <2>2. \A k \in Keys : \A p \in Expiring(k)' : p \in Expiring(k) /\ creation'[p] = creation[p]
    BY <2>1 DEF Expiring, Limited
  <2> QED
    BY <1>1, <2>1, <2>2
<1>4. ASSUME NEW q \in Creations, NEW s, Pass(q, s) PROVE EpochOK'
  <2>1. now' = now /\ granted' = granted /\ counter' = counter
    BY <1>4 DEF Pass
  <2>2. /\ creation'[q] = s
        /\ Limited(q)' <=> OnLimit(s)
        /\ \A p \in Creations : p # q => creation'[p] = creation[p] /\ (Limited(p)' <=> Limited(p))
    BY <1>4, OnlyRequest DEF Pass
  <2>3. OnLimit(s) => s.step = "incr"
    BY <1>4 DEF Pass
  <2>4. \A k \in Keys : \A p \in Expiring(k)' : p \in Expiring(k) /\ creation'[p] = creation[p]
    BY <2>2, <2>3 DEF Expiring, Key
  <2> QED
    BY <1>1, <2>1, <2>4
<1>5. CASE Tick
  <2>1. /\ now' = now + 1 /\ UNCHANGED <<creation, granted>>
        /\ counter' = [k \in Keys |->
               IF counter[k].expires # None /\ counter[k].expires <= now'
               THEN NoCounter ELSE counter[k]]
    BY <1>5 DEF Tick, ExpireKeys
  <2> SUFFICES ASSUME NEW k \in Keys
               PROVE  NothingAhead(k)' /\ \E b \in 0 .. now' : EpochAt(k, b)'
    BY DEF EpochOK
  <2>2. PICK b \in 0 .. now : EpochAt(k, b)
    BY DEF EpochOK
  <2>3. NothingAhead(k)
    BY DEF EpochOK
  <2>4. NothingAhead(k)'
    BY <2>1, <2>3 DEF NothingAhead
  <2>5. Expiring(k)' = Expiring(k)
    BY <2>1 DEF Expiring, Limited
  <2>6. CASE counter'[k] = counter[k]
    <3>1. b \in 0 .. now' /\ b \in Nat /\ counter[k].count \in Nat
      BY <2>1, <2>2 DEF CounterInv, CountersOK
    <3>2. /\ counter[k].count <= counter'[k].count /\ counter'[k].expires = counter[k].expires
          /\ granted'[k] = granted[k]
          /\ \A p \in Expiring(k)' : p \in Expiring(k) /\ creation'[p] = creation[p]
      BY <2>1, <2>5, <2>6, <3>1
    <3>3. EpochAt(k, b)'
      BY <2>2, <3>1, <3>2, EpochFrame
    <3> QED
      BY <2>4, <3>1, <3>3
  <2>7. CASE counter[k].expires # None /\ counter[k].expires <= now' /\ counter'[k] = NoCounter
    <3>1. Expiring(k)' = {}
      BY <2>5, <2>7 DEF CounterInv, TtlsOK
    <3>2. Pending(k)' = 0
      BY <3>1 DEF Pending
    <3>3. /\ Epoch(granted[k], counter[k], Pending(k), b, LIMIT[k[1]], WINDOW[k[1]])
          /\ granted[k] \in [0 .. MaxTime -> Nat] /\ counter[k] \in Counters /\ b \in Nat
          /\ now' \in Nat
      BY <2>1, <2>2 DEF EpochAt, StagesOK, CounterInv, CountersOK, Counters
    <3>4. \A u \in 0 .. MaxTime : u >= now' => granted[k][u] = 0
      BY <2>1, <2>3 DEF NothingAhead
    <3>5. Epoch(granted[k], NoCounter, 0, now', LIMIT[k[1]], WINDOW[k[1]])
      BY <2>7, <3>3, <3>4, KeyLimits, PendingNat, EpochEnds
    <3>6. now' \in 0 .. now'
      BY <3>3
    <3>7. \A n : n = now' => EpochAt(k, n)'
      BY <2>1, <2>7, <3>1, <3>2, <3>5 DEF EpochAt
    <3> QED
      BY <2>4, <3>6, <3>7
  <2> QED
    BY <2>1, <2>6, <2>7
<1> QED
  BY <1>2, <1>3, <1>4, <1>5, StepKinds, EpochMove

LEMMA EpochInit == AccessInit => EpochOK
<1> SUFFICES ASSUME AccessInit, NEW k \in Keys
             PROVE  NothingAhead(k) /\ \E b \in 0 .. now : EpochAt(k, b)
  BY DEF EpochOK
<1>1. /\ now = 0 /\ counter[k] = NoCounter /\ granted[k] = [t \in 0 .. MaxTime |-> 0]
      /\ creation = [q \in Creations |-> None]
  BY DEF AccessInit, LifeInit, AdmissionInit
<1>2. NothingAhead(k)
  BY <1>1 DEF NothingAhead
<1>3. Expiring(k) = {}
  BY <1>1 DEF Expiring, Limited
<1>4. Pending(k) = 0
  BY <1>3 DEF Pending
<1> DEFINE f == granted[k]
<1>5. f \in [0 .. MaxTime -> Nat] /\ \A x \in 0 .. MaxTime : f[x] = 0
  BY <1>1
<1> HIDE DEF f
<1>6. ASSUME NEW S \in SUBSET (0 .. MaxTime) PROVE SumFunctionOnSet(f, S) = 0
  <2>1. /\ IsFiniteSet(S) /\ {} \in SUBSET S /\ \A x \in S : f[x] \in Nat
        /\ \A x \in S : x \notin {} => f[x] = 0
    BY <1>5, TimesFinite
  <2>2. SumFunctionOnSet(f, S) = SumFunctionOnSet(f, {})
    BY <2>1, SumSupport
  <2> QED
    BY <2>2, SumEmpty
<1>7. Since(f, 0) = 0 /\ \A t, u : Within(f, t, u) = 0
  BY <1>6 DEF Since, Within
<1>8. Epoch(f, NoCounter, 0, 0, LIMIT[k[1]], WINDOW[k[1]])
  <2>1. NoCounter.count = 0 /\ NoCounter.expires = None
    BY DEF NoCounter
  <2> QED
    BY <1>7, <2>1, KeyLimits DEF Epoch
<1>9. EpochAt(k, 0)
  BY <1>1, <1>3, <1>4, <1>8 DEF EpochAt, f
<1> QED
  BY <1>1, <1>2, <1>9

\* check of the rate limiter: for any limits, windows and number of concurrent
\* requests, whichever commands of Redis fail and however often the service
\* crashes, at most two limits of requests are let through in any span of one
\* window, wherever it begins.
THEOREM RateLimits == AccessSpec => []LimitsHold
<1>1. ASSUME AdmissionInv, AdmissionInv', EpochOK, [AccessNext]_accessVars PROVE EpochOK'
  <2>1. now \in 0 .. MaxTime
    BY <1>1 DEF AdmissionInv, LoginInv, LifeTypeOK
  <2> QED
    BY <1>1, <2>1, EpochStep DEF AdmissionInv
<1>2. EpochOK => LimitsHold
  <2> SUFFICES ASSUME EpochOK, NEW k \in Keys, NEW t \in 0 .. MaxTime
               PROVE  Within(granted[k], t, t + WINDOW[k[1]]) <= 2 * LIMIT[k[1]]
    BY DEF LimitsHold, Within
  <2> QED
    BY DEF EpochOK, EpochAt, Epoch
<1> QED
  BY AdmissionInvariant, EpochInit, <1>1, <1>2, PTL DEF AccessSpec
=============================================================================
