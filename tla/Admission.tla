----------------------------- MODULE Admission ------------------------------
(***************************************************************************)
(* Admission of sessions and of their proofs: the rate limits of           *)
(* create_session (crates/rate-limiter, counters in Redis with INCR and    *)
(* EXPIRE as separate commands), the count of the wallet's open sessions   *)
(* that the new session's context keeps, and the pre-filter and anomaly    *)
(* scoring of submit_proof that read it (crates/proof-validator,           *)
(* crates/anomaly-engine).  A command of Redis may fail without an effect, *)
(* or take effect and lose its answer.                                     *)
(***************************************************************************)
EXTENDS Startup, Functions

CONSTANTS
    Ips,           \* client addresses
    Creations,     \* concurrent create_session requests
    Sessions,      \* session ids
    LIMIT,         \* requests per window, for "wallet" and for "ip"
    WINDOW,        \* window length, for "wallet" and for "ip"
    MAX_HASHRATE,  \* max_hashrate of the client type
    Hashrates,     \* hashrates a client may report
    PER_SIGNAL_BPS,
    MAX_ANOMALY_SCORE_BPS,
    MaxCount,      \* bound: requests counted on one key
    MaxPages       \* bound: pages of one SCAN

Phases == {"wallet", "ip"}
Keys == ({"wallet"} \X Wallets) \cup ({"ip"} \X Ips)

\* A request at one of its two limits.
AtLimit == [phase : Phases, step : {"incr", "expire"}, wallet : Wallets, ip : Ips, at : Nat]

\* A request past its limits: the pages its SCAN has read and the keys they had,
\* repeated ones included; first and named are history, the wallet's sessions
\* when the SCAN began and those some page named.
Scan(phase) == [phase : {phase}, wallet : Wallets, pages : Nat, count : Nat,
                first : SUBSET Sessions, named : SUBSET Sessions]
Counting == Scan("count")
Creating == Scan("create")

\* What a session keeps of its creation; pages and named are those of its SCAN,
\* beside the sessions of its wallet open from the SCAN's begin to its creation.
Context == [wallet : Wallets, active_sessions_count : Nat, pages : Nat,
            named : SUBSET Sessions, beside : SUBSET Sessions]

ASSUME AdmissionAssumption ==
    /\ IsFiniteSet(Creations)
    /\ IsFiniteSet(Sessions)
    /\ LIMIT \in [Phases -> Nat \ {0}]
    /\ WINDOW \in [Phases -> Nat \ {0}]
    /\ MAX_HASHRATE \in Nat
    /\ Hashrates \subseteq Nat
    /\ PER_SIGNAL_BPS \in Nat \ {0}
    /\ MAX_ANOMALY_SCORE_BPS \in Nat \ {0}
    /\ MaxCount \in Nat
    /\ MaxPages \in Nat
    /\ None \notin AtLimit \cup Counting \cup Creating \cup Context

VARIABLES
    counter,        \* Redis: per key its count and when it expires, None for never
    creation,       \* per create_session request, where it stands
    granted,        \* per key and time, the requests counted then and let through
    lost,           \* keys whose EXPIRE was lost with its request
    sessions,       \* per session, the context it was created with
    open,           \* sessions that are neither ended nor expired
    anomaly_events  \* Postgres: rows [session, level, score, triggers]

admissionVars == <<counter, creation, granted, lost, sessions, open, anomaly_events>>

Levels == {"Low", "Medium", "High"}

AdmissionTypeOK ==
    /\ counter \in [Keys -> [count : 0 .. MaxCount + Cardinality(Creations),
                             expires : Nat \cup {None}]]
    /\ creation \in [Creations -> AtLimit \cup Counting \cup Creating \cup {None}]
    /\ granted \in [Keys -> [0 .. MaxTime -> Nat]]
    /\ lost \subseteq Keys
    /\ sessions \in [Sessions -> Context \cup {None}]
    /\ open \subseteq Sessions
    /\ anomaly_events \subseteq [session : Sessions, level : Levels \ {"Low"},
           score : 1 .. MAX_ANOMALY_SCORE_BPS, triggers : SUBSET {"HashrateImpossible"}]

NoCounter == [count |-> 0, expires |-> None]

AdmissionInit ==
    /\ counter = [k \in Keys |-> NoCounter]
    /\ creation = [q \in Creations |-> None]
    /\ granted = [k \in Keys |-> [t \in 0 .. MaxTime |-> 0]]
    /\ lost = {}
    /\ sessions = [s \in Sessions |-> None]
    /\ open = {}
    /\ anomaly_events = {}

At(q, phase) == creation[q] # None /\ creation[q].phase = phase
Key(r) == <<r.phase, IF r.phase = "wallet" THEN r.wallet ELSE r.ip>>
Limited(q) == creation[q] # None /\ creation[q].phase \in Phases

\* Requests that counted on a key and have yet to set its TTL.
Expiring(k) ==
    {q \in Creations : Limited(q) /\ creation[q].step = "expire" /\ Key(creation[q]) = k}

OpenOf(w) == {s \in open : sessions[s].wallet = w}

Unscanned(w) ==
    [phase |-> "count", wallet |-> w, pages |-> 0, count |-> 0, first |-> {}, named |-> {}]
-----------------------------------------------------------------------------
(* Mutated forms, one plausible slip each.                                  *)

\* The verdict of the limiter is dropped.
Denied_Never(r, count) == FALSE

\* The TTL is set by the second request of a window.
SetsTtl_Second(count) == count = 2

\* The session about to be opened is counted as its own duplicate.
prefilter_checks_Itself(hashrate, ctx) ==
    IF hashrate > MAX_HASHRATE THEN "HashrateImpossible"
    ELSE IF ctx.active_sessions_count >= 1 THEN "Suspicious" ELSE "Valid"
-----------------------------------------------------------------------------
(* create_session, up to the session it hands to the session manager.       *)

\* The body parses: a wallet, a client type, a commit hash and a chain.
create_session(q, w, i) ==
    /\ creation[q] = None
    /\ service # None
    /\ counter[<<"wallet", w>>].count < MaxCount
    /\ counter[<<"ip", i>>].count < MaxCount
    /\ creation' = [creation EXCEPT ![q] =
           [phase |-> "wallet", step |-> "incr", wallet |-> w, ip |-> i, at |-> now]]
    /\ UNCHANGED <<counter, granted, lost, sessions, open, anomaly_events>>

\* The first request of a window starts the key's TTL.
SetsTtl(count) == count = 1

Denied(r, count) == count > LIMIT[r.phase]

\* enforce: 429, or on to the next limit and then to the session count.
Verdict(q, r, count) ==
    \/ /\ Denied(r, count)
       /\ creation' = [creation EXCEPT ![q] = None]
       /\ UNCHANGED granted
    \/ /\ ~Denied(r, count)
       /\ granted' = [granted EXCEPT ![Key(r)][r.at] = @ + 1]
       /\ creation' = [creation EXCEPT ![q] =
              IF r.phase = "wallet" THEN [r EXCEPT !.phase = "ip", !.step = "incr", !.at = now]
              ELSE Unscanned(r.wallet)]

\* check: INCR, which creates a key without a TTL.
Incr(q) ==
    LET r == [creation[q] EXCEPT !.at = now]
        count == counter[Key(r)].count + 1
    IN  /\ Limited(q)
        /\ creation[q].step = "incr"
        /\ counter' = [counter EXCEPT ![Key(r)].count = count]
        /\ \/ /\ SetsTtl(count)
              /\ creation' = [creation EXCEPT ![q] = [r EXCEPT !.step = "expire"]]
              /\ UNCHANGED granted
           \/ ~SetsTtl(count) /\ Verdict(q, r, count)
        /\ UNCHANGED <<lost, sessions, open, anomaly_events>>

\* check: EXPIRE.
Expire(q) ==
    LET r == creation[q] IN
    /\ Limited(q)
    /\ r.step = "expire"
    /\ counter' = [counter EXCEPT ![Key(r)].expires = now + WINDOW[r.phase]]
    /\ Verdict(q, r, 1)
    /\ UNCHANGED <<lost, sessions, open, anomaly_events>>

\* A command fails or its answer is lost: the request ends with a 500.
RedisFails(q) ==
    LET r == creation[q]
        k == Key(r)
    IN  /\ Limited(q)
        /\ creation' = [creation EXCEPT ![q] = None]
        /\ \/ UNCHANGED counter
           \/ r.step = "incr" /\ counter' = [counter EXCEPT ![k].count = @ + 1]
           \/ r.step = "expire" /\ counter' = [counter EXCEPT ![k].expires = now + WINDOW[r.phase]]
        /\ lost' = IF counter'[k].expires = None /\ counter'[k].count > 0
                      /\ (r.step = "expire" \/ counter[k].count = 0)
                   THEN lost \cup {k} ELSE lost
        /\ UNCHANGED <<granted, sessions, open, anomaly_events>>

\* One page of the SCAN loop: keys of sessions that are open now, added to the
\* count whether or not an earlier page had them.  The loop ends when every
\* session open since it began has been on a page; a session that was opened or
\* ended meanwhile may have been on one or not.
get_active_session_count(q) ==
    LET r == creation[q]
        first == IF r.pages = 0 THEN OpenOf(r.wallet) ELSE r.first
    IN  /\ At(q, "count")
        /\ r.pages < MaxPages
        /\ \E keys \in SUBSET OpenOf(r.wallet) :
              LET named == r.named \cup keys
                  Page(phase) == [phase |-> phase, wallet |-> r.wallet, pages |-> r.pages + 1,
                                  count |-> r.count + Cardinality(keys),
                                  first |-> first, named |-> named]
              IN  \/ creation' = [creation EXCEPT ![q] = Page("count")]
                  \/ /\ first \cap open \subseteq named
                     /\ creation' = [creation EXCEPT ![q] = Page("create")]
        /\ UNCHANGED <<counter, granted, lost, sessions, open, anomaly_events>>

\* The session manager writes the context, the count in it, or fails.
Create(q, s) ==
    LET r == creation[q] IN
    /\ At(q, "create")
    /\ sessions[s] = None
    /\ sessions' = [sessions EXCEPT ![s] =
           [wallet |-> r.wallet, active_sessions_count |-> r.count, pages |-> r.pages,
            named |-> r.named, beside |-> r.first \cap open]]
    /\ open' = open \cup {s}
    /\ creation' = [creation EXCEPT ![q] = None]
    /\ UNCHANGED <<counter, granted, lost, anomaly_events>>

CreateFails(q) ==
    /\ At(q, "count") \/ At(q, "create")
    /\ creation' = [creation EXCEPT ![q] = None]
    /\ UNCHANGED <<counter, granted, lost, sessions, open, anomaly_events>>

\* A session is ended, or its keys expire.
SessionEnds(s) ==
    /\ s \in open
    /\ open' = open \ {s}
    /\ UNCHANGED <<counter, creation, granted, lost, sessions, anomaly_events>>
-----------------------------------------------------------------------------
(* submit_proof, its verdict on the proof.                                  *)

\* last_submission_at of the context is never set, so the interval between two
\* proofs is not checked.
prefilter_checks(hashrate, ctx) ==
    IF hashrate > MAX_HASHRATE THEN "HashrateImpossible"
    ELSE IF ctx.active_sessions_count > 1 THEN "Suspicious" ELSE "Valid"

level_for(total_signals) ==
    CASE total_signals = 0 -> "Low" [] total_signals = 1 -> "Medium" [] OTHER -> "High"

anomaly_score_bps(total_signals) ==
    IF total_signals * PER_SIGNAL_BPS > MAX_ANOMALY_SCORE_BPS THEN MAX_ANOMALY_SCORE_BPS
    ELSE total_signals * PER_SIGNAL_BPS

\* process of the engine, on the one result a submission has.
process(result) ==
    LET triggers == {result} \ {"Valid", "Suspicious"}
        total_signals == Cardinality(triggers) + (IF result = "Suspicious" THEN 1 ELSE 0)
    IN  [level |-> level_for(total_signals), score |-> anomaly_score_bps(total_signals),
         triggers |-> triggers]

\* A level other than Low is a row, unless Postgres fails.
submit_proof(s, hashrate) ==
    LET assessment == process(prefilter_checks(hashrate, sessions[s])) IN
    /\ service # None
    /\ s \in open
    /\ assessment.level # "Low"
    /\ anomaly_events' = anomaly_events \cup
           {[session |-> s, level |-> assessment.level, score |-> assessment.score,
             triggers |-> assessment.triggers]}
    /\ UNCHANGED <<counter, creation, granted, lost, sessions, open>>
-----------------------------------------------------------------------------
\* Redis drops a key whose TTL is over.
ExpireKeys ==
    /\ counter' = [k \in Keys |->
           IF counter[k].expires # None /\ counter[k].expires <= now'
           THEN NoCounter ELSE counter[k]]
    /\ UNCHANGED <<creation, granted, lost, sessions, open, anomaly_events>>

\* The process is gone; Redis and Postgres stay.
AdmissionLost ==
    /\ creation' = [q \in Creations |-> None]
    /\ lost' = lost \cup {k \in Keys : Expiring(k) # {}}
    /\ UNCHANGED <<counter, granted, sessions, open, anomaly_events>>

AdmissionNext ==
    /\ \/ \E q \in Creations :
             \/ \E w \in Wallets, i \in Ips : create_session(q, w, i)
             \/ Incr(q)
             \/ Expire(q)
             \/ RedisFails(q)
             \/ get_active_session_count(q)
             \/ \E s \in Sessions : Create(q, s)
             \/ CreateFails(q)
       \/ \E s \in Sessions :
             \/ SessionEnds(s)
             \/ \E hashrate \in Hashrates : submit_proof(s, hashrate)
    /\ UNCHANGED lifeVars
-----------------------------------------------------------------------------
(* Properties.                                                              *)

\* The limits hold for every window, wherever it begins: of the requests counted
\* in any WINDOW of time at most two limits are let through (one before and one
\* after the key expired), however concurrent requests order their INCR and
\* EXPIRE, whichever of them fail, and across restarts.
LimitsHold ==
    \A k \in Keys : \A t \in 0 .. MaxTime :
        SumFunctionOnSet(granted[k], {u \in 0 .. MaxTime : t <= u /\ u < t + WINDOW[k[1]]})
            <= 2 * LIMIT[k[1]]

\* Nobody is shut out for good unless a command failed: a counter that does not
\* expire has exactly one request on its way to set its TTL, or that request was
\* lost between its INCR and its EXPIRE.  A late EXPIRE never reaches the counter
\* of a later window.
CountersExpire ==
    \A k \in Keys :
        /\ counter[k].expires = None /\ counter[k].count > 0 /\ k \notin lost
               => Cardinality(Expiring(k)) = 1
        /\ counter[k].expires # None \/ counter[k].count = 0 => Expiring(k) = {}

\* A review flag for a duplicate session is earned, and due.  A session is in
\* anomaly_events without an impossible hashrate only when two other sessions of
\* its wallet were open while its creation counted them, though not at the same
\* time when one ended during the SCAN; or one, when a later page repeated its
\* key.  A wallet with nothing else open is never flagged.  And two others open
\* all along are never missed, however sessions come and go between the pages.
FlagsAreEarned ==
    /\ \A e \in anomaly_events :
          LET ctx == sessions[e.session]
          IN  e.triggers = {} =>
                  \/ Cardinality(ctx.named) >= 2
                  \/ Cardinality(ctx.named) = 1 /\ ctx.pages >= 2
    /\ \A s \in open, hashrate \in Hashrates :
          Cardinality(sessions[s].beside) >= 2
              => process(prefilter_checks(hashrate, sessions[s])).level # "Low"
=============================================================================
