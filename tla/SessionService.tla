--------------------------- MODULE SessionService ---------------------------
(***************************************************************************)
(* The session handlers of the verification service,                       *)
(* crates/verification-service/src/lib.rs: create, submit proof, pause,    *)
(* resume, end.  Handlers run concurrently; every await is the end of a    *)
(* step.  Redis and Postgres outlive the process, the map of TWAP          *)
(* calculators and its lock do not.  A call of Redis, Postgres, the oracle,*)
(* the chain or the nodes may fail, and the handler then does what its     *)
(* code does on that error.                                                *)
(***************************************************************************)
EXTENDS SessionStore

CONSTANTS
    Requests,      \* HTTP requests on a session, each handled once
    Absent,        \* the map of TWAP calculators has no entry
    Nobody,        \* nobody holds the map's write lock
    NoRow,         \* mint_proposals has no row for the session
    MaxSamples,    \* bound: samples counted per calculator
    MaxRestarts    \* bound: process restarts

ASSUME ServiceAssumption ==
    /\ Proofs = Requests
    /\ Nobody \notin Requests
    /\ MaxSamples \in Nat \ {0}
    /\ MaxRestarts \in Nat
    /\ Absent \notin Nat

VARIABLES
    creating,      \* per session, where its create_session handler stands
    hasNode,       \* per session, whether it was created with an assigned node
    twapSessions,  \* per session, the number of samples of its calculator
    twapLock,      \* holder of the write lock of the map across an await
    activeCount,   \* the gauge SESSION_ACTIVE_COUNT
    pc,            \* per request, the step it stands before
    target,        \* per request, the session it is about
    body,          \* per request, what its body says
    local,         \* per request, what it read and uses later
    outcome,       \* per request, the answer
    rows,          \* mint_proposals: per session, the evidence its row rests on
    signedBy,      \* per session, the requests that signed a proposal for it
    shut,          \* submissions that met a paused session, not resumed since
    restarts       \* process restarts so far

memoryVars == <<twapSessions, twapLock, activeCount>>
requestVars == <<pc, target, body, local, outcome>>
ghostVars == <<signedBy, shut>>
serviceVars == <<storeVars, memoryVars, requestVars, ghostVars, creating, hasNode,
                 rows, restarts>>

SubmitSteps == {"s_lookup", "s_paused", "s_count", "s_record", "s_read", "s_store",
                "s_lock", "s_sample"}
EndSteps == {"e_lookup", "e_reveal", "e_twap", "e_proofs", "e_attest", "e_ceiling",
             "e_insert", "e_delete"}
ControlSteps == {"p_auth", "p_write"}
Outcomes == {"none", "accepted", "not_found", "conflict", "error", "rejected",
             "no_assigned_node", "no_samples", "attestation_failed",
             "mint_ceiling_unverified", "mint_ceiling_exceeded", "completed",
             "paused", "resumed", "aborted"}

Evidence == [by : Requests, revealed : BOOLEAN, samples : Nat, attested : BOOLEAN,
             proven : BOOLEAN]

ServiceTypeOK ==
    /\ StoreTypeOK
    /\ creating \in [Sessions -> {"unborn", "commit", "insert", "live", "failed"}]
    /\ hasNode \in [Sessions -> BOOLEAN]
    /\ twapSessions \in [Sessions -> (0 .. MaxSamples) \cup {Absent}]
    /\ twapLock \in Requests \cup {Nobody}
    /\ activeCount \in Int
    /\ pc \in [Requests -> {"new", "done"} \cup SubmitSteps \cup EndSteps \cup ControlSteps]
    /\ target \in [Requests -> Sessions]
    /\ body \in [Requests -> BOOLEAN]
    /\ local \in [Requests -> [proofs : SUBSET Proofs, revealed : BOOLEAN,
                               samples : Nat, attested : BOOLEAN]]
    /\ outcome \in [Requests -> Outcomes]
    /\ rows \in [Sessions -> Evidence \cup {NoRow}]
    /\ signedBy \in [Sessions -> SUBSET Requests]
    /\ shut \subseteq Requests
    /\ restarts \in 0 .. MaxRestarts

EmptyLocal == [proofs |-> {}, revealed |-> FALSE, samples |-> 0, attested |-> FALSE]

ServiceInit ==
    /\ StoreInit
    /\ creating = [s \in Sessions |-> "unborn"]
    /\ hasNode \in [Sessions -> BOOLEAN]
    /\ twapSessions = [s \in Sessions |-> Absent]
    /\ twapLock = Nobody
    /\ activeCount = 0
    /\ pc = [r \in Requests |-> "new"]
    /\ target \in [Requests -> Sessions]
    /\ body = [r \in Requests |-> FALSE]
    /\ local = [r \in Requests |-> EmptyLocal]
    /\ outcome = [r \in Requests |-> "none"]
    /\ rows = [s \in Sessions |-> NoRow]
    /\ signedBy = [s \in Sessions |-> {}]
    /\ shut = {}
    /\ restarts = 0

\* Moving on, and answering.
Goto(r, step) ==
    /\ pc' = [pc EXCEPT ![r] = step]
    /\ UNCHANGED <<target, body, outcome>>

Answer(r, what) ==
    /\ pc' = [pc EXCEPT ![r] = "done"]
    /\ outcome' = [outcome EXCEPT ![r] = what]
    /\ local' = [local EXCEPT ![r] = EmptyLocal]
    /\ UNCHANGED <<target, body>>

At(r, step) == pc[r] = step

\* A request arrives for a session whose id the client has been told.
Arrive(r, step) ==
    /\ At(r, "new")
    /\ creating[target[r]] = "live"
    /\ pc' = [pc EXCEPT ![r] = step]
    /\ body' \in {[body EXCEPT ![r] = b] : b \in BOOLEAN}
    /\ UNCHANGED <<storeVars, memoryVars, creating, hasNode, target, local, outcome,
                   rows, signedBy, restarts>>

\* get_session of a request: the context, 404, or a Redis error.
Lookup(r, from, to) ==
    /\ At(r, from)
    /\ \/ HasSession(target[r]) /\ Goto(r, to) /\ UNCHANGED local
       \/ ~HasSession(target[r]) /\ Answer(r, "not_found")
       \/ Answer(r, "error")
    /\ UNCHANGED <<storeVars, memoryVars, ghostVars, creating, hasNode, rows, restarts>>
-----------------------------------------------------------------------------
(* create_session, past its parsing and its rate limits.                    *)

CreateKeys(s) ==
    /\ creating[s] = "unborn"
    /\ creating' = [creating EXCEPT ![s] = "commit"]
    /\ create_session(s)
    /\ UNCHANGED <<memoryVars, requestVars, ghostVars, hasNode, rows, restarts>>

CreateCommit(s) ==
    /\ creating[s] = "commit"
    /\ creating' = [creating EXCEPT ![s] = "insert"]
    /\ set_commit(s)
    /\ UNCHANGED <<memoryVars, requestVars, ghostVars, hasNode, rows, restarts>>

\* A failed command, or a client that goes away, leaves the keys written so far
\* under an id nobody knows.
CreateFails(s) ==
    /\ creating[s] \in {"commit", "insert"}
    /\ creating' = [creating EXCEPT ![s] = "failed"]
    /\ UNCHANGED <<storeVars, memoryVars, requestVars, ghostVars, hasNode, rows, restarts>>

CreateCalculator(s) ==
    /\ creating[s] = "insert"
    /\ twapLock = Nobody
    /\ creating' = [creating EXCEPT ![s] = "live"]
    /\ twapSessions' = [twapSessions EXCEPT ![s] = 0]
    /\ activeCount' = activeCount + 1
    /\ UNCHANGED <<storeVars, twapLock, requestVars, ghostVars, hasNode, rows, restarts>>
-----------------------------------------------------------------------------
(* submit_proof.  body: whether the pre-filter lets the proof pass.         *)

SubmitArrives(r) ==
    /\ Arrive(r, "s_lookup")
    /\ shut' = IF is_paused(target[r]) THEN shut \cup {r} ELSE shut

SubmitLookup(r) == Lookup(r, "s_lookup", "s_paused")

\* A mutated form: the answer of is_paused is not looked at.
SubmitPaused_Ignored(r) ==
    /\ At(r, "s_paused")
    /\ Goto(r, "s_count")
    /\ UNCHANGED <<storeVars, memoryVars, ghostVars, creating, hasNode, rows, restarts, local>>

SubmitPaused(r) ==
    /\ At(r, "s_paused")
    /\ \/ is_paused(target[r]) /\ Answer(r, "conflict")
       \/ ~is_paused(target[r]) /\ Goto(r, "s_count") /\ UNCHANGED local
       \/ Answer(r, "error")
    /\ UNCHANGED <<storeVars, memoryVars, ghostVars, creating, hasNode, rows, restarts>>

\* increment_proof_count; an error is logged and passed over.
SubmitCount(r) ==
    /\ At(r, "s_count")
    /\ Goto(r, "s_record")
    /\ \/ WriteKeys(target[r], {"proof_count"})
       \/ UNCHANGED storeVars
    /\ UNCHANGED <<memoryVars, ghostVars, creating, hasNode, rows, restarts, local>>

\* record_accepted_proof, touch_last_activity and the counter of the verdict;
\* any of them may fail and is passed over.
SubmitRecord(r) ==
    LET s == target[r]
        writes == IF body[r] THEN {"hashrate", "verdicts"} ELSE {"verdicts"}
    IN  /\ At(r, "s_record")
        /\ Goto(r, "s_read")
        /\ \E done \in SUBSET writes : WriteKeys(s, done)
        /\ UNCHANGED <<memoryVars, ghostVars, creating, hasNode, rows, restarts, local>>

\* store_proof is a GET, a push and a SET: two commands with an await between.
SubmitRead(r) ==
    /\ At(r, "s_read")
    /\ \/ /\ Goto(r, "s_store")
          /\ local' = [local EXCEPT ![r].proofs = proofList[target[r]]]
       \/ Answer(r, "error")
    /\ UNCHANGED <<storeVars, memoryVars, ghostVars, creating, hasNode, rows, restarts>>

SubmitStore(r) ==
    /\ At(r, "s_store")
    /\ \/ Goto(r, "s_lock") /\ StoreProofs(target[r], local[r].proofs \cup {r})
          /\ UNCHANGED local
       \/ Answer(r, "error") /\ UNCHANGED storeVars
    /\ UNCHANGED <<memoryVars, ghostVars, creating, hasNode, rows, restarts>>

\* The write lock of the map is taken and, if the session has a calculator,
\* held while the oracle is read.
SubmitLock(r) ==
    /\ At(r, "s_lock")
    /\ twapLock = Nobody
    /\ IF twapSessions[target[r]] = Absent
       THEN Answer(r, "accepted") /\ UNCHANGED twapLock
       ELSE Goto(r, "s_sample") /\ twapLock' = r /\ UNCHANGED local
    /\ UNCHANGED <<storeVars, twapSessions, activeCount, ghostVars, creating, hasNode,
                   rows, restarts>>

\* A mutated form: a failed oracle read returns with the lock still held.
SubmitSample_LockLeaks(r) ==
    LET s == target[r] IN
    /\ At(r, "s_sample")
    /\ Answer(r, "accepted")
    /\ \/ twapLock' = Nobody /\ twapSessions' = [twapSessions EXCEPT ![s] =
              IF @ < MaxSamples THEN @ + 1 ELSE @]
       \/ UNCHANGED <<twapLock, twapSessions>>
    /\ UNCHANGED <<storeVars, activeCount, ghostVars, creating, hasNode, rows, restarts>>

\* A read that fails is skipped; the lock is released either way.
SubmitSample(r) ==
    LET s == target[r] IN
    /\ At(r, "s_sample")
    /\ Answer(r, "accepted")
    /\ twapLock' = Nobody
    /\ \/ twapSessions' = [twapSessions EXCEPT ![s] = IF @ < MaxSamples THEN @ + 1 ELSE @]
       \/ UNCHANGED twapSessions
    /\ UNCHANGED <<storeVars, activeCount, ghostVars, creating, hasNode, rows, restarts>>
-----------------------------------------------------------------------------
(* pause_session and resume_session.  body: pause or resume.                *)

ControlArrives(r) ==
    /\ Arrive(r, "p_auth")
    /\ UNCHANGED shut

ControlAuthorize(r) == Lookup(r, "p_auth", "p_write")

PauseWrite(r) ==
    /\ At(r, "p_write")
    /\ body[r]
    /\ \/ WriteKeys(target[r], {"paused"}) /\ Answer(r, "paused")
       \/ UNCHANGED storeVars /\ Answer(r, "error")
    /\ UNCHANGED <<memoryVars, ghostVars, creating, hasNode, rows, restarts>>

ResumeWrite(r) ==
    /\ At(r, "p_write")
    /\ ~body[r]
    /\ \/ /\ clear_paused(target[r])
          /\ Answer(r, "resumed")
          /\ shut' = {q \in shut : target[q] # target[r]}
       \/ UNCHANGED <<storeVars, shut>> /\ Answer(r, "error")
    /\ UNCHANGED <<memoryVars, signedBy, creating, hasNode, rows, restarts>>
-----------------------------------------------------------------------------
(* end_session.  body: whether the nonce hashes to the commitment.          *)

EndArrives(r) ==
    /\ Arrive(r, "e_lookup")
    /\ UNCHANGED shut

EndLookup(r) == Lookup(r, "e_lookup", "e_reveal")

EndReveal(r) ==
    LET s == target[r]
        verified == RevealVerified(s, body[r])
    IN  /\ At(r, "e_reveal")
        /\ \/ ~verified /\ Answer(r, "rejected")
           \/ verified /\ ~hasNode[s] /\ Answer(r, "no_assigned_node")
           \/ /\ verified /\ hasNode[s]
              /\ Goto(r, "e_twap")
              /\ local' = [local EXCEPT ![r].revealed = (committed[s] /\ body[r])]
           \/ Answer(r, "error")
        /\ UNCHANGED <<storeVars, memoryVars, ghostVars, creating, hasNode, rows, restarts>>

\* A mutated form: the calculator is read and stays in the map.
EndTakeTwap_Copied(r) ==
    LET s == target[r] IN
    /\ At(r, "e_twap")
    /\ twapLock = Nobody
    /\ IF twapSessions[s] \in {Absent, 0}
       THEN Answer(r, "no_samples")
       ELSE /\ Goto(r, "e_proofs")
            /\ local' = [local EXCEPT ![r].samples = twapSessions[s]]
    /\ UNCHANGED <<twapSessions, storeVars, twapLock, activeCount, ghostVars, creating,
                   hasNode, rows, restarts>>

\* A mutated form: a session that is not in the map is taken for one with samples.
EndTakeTwap_NoAbsentCheck(r) ==
    LET s == target[r] IN
    /\ At(r, "e_twap")
    /\ twapLock = Nobody
    /\ twapSessions' = [twapSessions EXCEPT ![s] = Absent]
    /\ IF twapSessions[s] \in {0}
       THEN Answer(r, "no_samples")
       ELSE /\ Goto(r, "e_proofs")
            /\ local' = [local EXCEPT ![r].samples = twapSessions[s]]
    /\ UNCHANGED <<storeVars, twapLock, activeCount, ghostVars, creating, hasNode, rows,
                   restarts>>

\* Removing the calculator is what admits one end_session of a session only.
EndTakeTwap(r) ==
    LET s == target[r] IN
    /\ At(r, "e_twap")
    /\ twapLock = Nobody
    /\ twapSessions' = [twapSessions EXCEPT ![s] = Absent]
    /\ IF twapSessions[s] \in {Absent, 0}
       THEN Answer(r, "no_samples")
       ELSE /\ Goto(r, "e_proofs")
            /\ local' = [local EXCEPT ![r].samples = twapSessions[s]]
    /\ UNCHANGED <<storeVars, twapLock, activeCount, ghostVars, creating, hasNode, rows,
                   restarts>>

\* The TWAP is sent to the oracles (errors are logged), the proofs and a block
\* hash are read.
EndProofs(r) ==
    /\ At(r, "e_proofs")
    /\ \/ /\ Goto(r, "e_attest")
          /\ local' = [local EXCEPT ![r].proofs = proofList[target[r]]]
       \/ Answer(r, "error")
    /\ UNCHANGED <<storeVars, memoryVars, ghostVars, creating, hasNode, rows, restarts>>

\* coordinate_attestation finds three signers or does not; without a proof there
\* is no message to check a signature against.
EndAttest(r) ==
    /\ At(r, "e_attest")
    /\ \/ /\ local[r].proofs # {}
          /\ Goto(r, "e_ceiling")
          /\ local' = [local EXCEPT ![r].attested = TRUE]
       \/ Answer(r, "attestation_failed")
    /\ UNCHANGED <<storeVars, memoryVars, ghostVars, creating, hasNode, rows, restarts>>

\* The payout is computed, the 24h total read and compared, the proposal signed.
EndCeiling(r) ==
    LET s == target[r] IN
    /\ At(r, "e_ceiling")
    /\ \/ /\ Goto(r, "e_insert")
          /\ signedBy' = [signedBy EXCEPT ![s] = @ \cup {r}]
          /\ UNCHANGED local
       \/ /\ \E answer \in {"mint_ceiling_unverified", "mint_ceiling_exceeded", "error"} :
                Answer(r, answer)
          /\ UNCHANGED signedBy
    /\ UNCHANGED <<storeVars, memoryVars, shut, creating, hasNode, rows, restarts>>

\* A failed insert is logged and passed over.
EndInsert(r) ==
    LET s == target[r]
        row == [by |-> r, revealed |-> local[r].revealed, samples |-> local[r].samples,
                attested |-> local[r].attested, proven |-> local[r].proofs # {}]
    IN  /\ At(r, "e_insert")
        /\ Goto(r, "e_delete")
        /\ activeCount' = activeCount - 1
        /\ \/ rows[s] = NoRow /\ rows' = [rows EXCEPT ![s] = row]
           \/ UNCHANGED rows
        /\ UNCHANGED <<storeVars, twapSessions, twapLock, ghostVars, creating, hasNode,
                       restarts, local>>

\* A mutated form: the proposal row is the end of it, the keys stay.
EndDelete_KeysStay(r) ==
    /\ At(r, "e_delete")
    /\ Answer(r, "completed")
    /\ UNCHANGED <<storeVars, memoryVars, ghostVars, creating, hasNode, rows, restarts>>

EndDelete(r) ==
    /\ At(r, "e_delete")
    /\ \/ delete_session(target[r]) /\ Answer(r, "completed")
       \/ UNCHANGED storeVars /\ Answer(r, "error")
    /\ UNCHANGED <<memoryVars, ghostVars, creating, hasNode, rows, restarts>>
-----------------------------------------------------------------------------
(* Time and failure.                                                        *)

\* One hour after creation the keys of the context go.
ContextExpires(s) ==
    /\ creating[s] # "unborn"
    /\ HasSession(s)
    /\ DeleteKeys(s, ContextKeys)
    /\ UNCHANGED <<memoryVars, requestVars, ghostVars, creating, hasNode, rows, restarts>>

\* Keys written later have their hour still, and go later.
DataExpires(s, k) ==
    /\ creating[s] # "unborn"
    /\ ~HasSession(s)
    /\ k \in keys[s] \cap KeysWithTTL
    /\ DeleteKeys(s, {k})
    /\ shut' = IF k = "paused" THEN {q \in shut : target[q] # s} ELSE shut
    /\ UNCHANGED <<memoryVars, requestVars, signedBy, creating, hasNode, rows, restarts>>

\* The client goes away and the server drops its handler at an await, with the
\* lock if it had it.
Disconnect(r) ==
    /\ pc[r] \notin {"new", "done"}
    /\ Answer(r, "aborted")
    /\ twapLock' = IF twapLock = r THEN Nobody ELSE twapLock
    /\ UNCHANGED <<storeVars, twapSessions, activeCount, ghostVars, creating, hasNode,
                   rows, restarts>>

\* The process restarts: the map, the lock, the gauge and every handler go.
Restart ==
    /\ restarts < MaxRestarts
    /\ restarts' = restarts + 1
    /\ twapSessions' = [s \in Sessions |-> Absent]
    /\ twapLock' = Nobody
    /\ activeCount' = 0
    /\ pc' = [r \in Requests |-> IF pc[r] = "new" THEN "new" ELSE "done"]
    /\ outcome' = [r \in Requests |->
           IF pc[r] \in {"new", "done"} THEN outcome[r] ELSE "aborted"]
    /\ local' = [r \in Requests |-> EmptyLocal]
    /\ creating' = [s \in Sessions |->
           IF creating[s] \in {"commit", "insert"} THEN "failed" ELSE creating[s]]
    /\ UNCHANGED <<storeVars, target, body, ghostVars, hasNode, rows>>

\* The steps that do not wait for the oracle.
Step(r) ==
    \/ SubmitLookup(r) \/ SubmitPaused(r) \/ SubmitCount(r) \/ SubmitRecord(r)
    \/ SubmitRead(r) \/ SubmitStore(r) \/ SubmitLock(r)
    \/ ControlAuthorize(r) \/ PauseWrite(r) \/ ResumeWrite(r)
    \/ EndLookup(r) \/ EndReveal(r) \/ EndTakeTwap(r) \/ EndProofs(r) \/ EndAttest(r)
    \/ EndCeiling(r) \/ EndInsert(r) \/ EndDelete(r)

ServiceNext ==
    \/ \E r \in Requests : SubmitArrives(r) \/ ControlArrives(r) \/ EndArrives(r) \/ Step(r)
                         \/ SubmitSample(r) \/ Disconnect(r)
    \/ \E s \in Sessions :
          \/ CreateKeys(s) \/ CreateCommit(s) \/ CreateFails(s) \/ CreateCalculator(s)
          \/ ContextExpires(s)
          \/ \E k \in DataKeys \cup {"commit"} : DataExpires(s, k)
    \/ Restart

ServiceSpec == ServiceInit /\ [][ServiceNext]_serviceVars

\* Tokio polls a ready task again, and the Redis, Postgres, chain and node calls
\* a request makes for itself answer or fail: each request in progress takes its
\* next step sooner or later.
HandlersRun == \A r \in Requests : WF_serviceVars(Step(r))

\* The oracle answers or fails every read made under the lock.  An assumption on
\* the outside world: the code sets no timeout on this read.
OracleAnswers == \A r \in Requests : WF_serviceVars(SubmitSample(r))

FairSpec == ServiceSpec /\ HandlersRun /\ OracleAnswers
-----------------------------------------------------------------------------
(* Properties.                                                              *)

\* At most one end_session ever signs a mint proposal for a session, however
\* many run at once, fail, are retried or meet a restart (the removal from
\* twap_sessions in end_session).
OneProposalPerSession == \A s \in Sessions : Cardinality(signedBy[s]) <= 1

\* Every row of mint_proposals rests on a reveal that matched the stored
\* commitment, at least one price sample, at least one stored proof and a full
\* attestation, all of the request that wrote it, whatever expired meanwhile
\* (the early returns of end_session).
RowsAreEarned ==
    \A s \in Sessions : rows[s] # NoRow =>
        /\ rows[s].revealed
        /\ rows[s].samples > 0
        /\ rows[s].attested
        /\ rows[s].proven

\* A session answered `completed` is gone: no later request finds it
\* (delete_session as the last step of end_session).
CompletedIsGone ==
    \A r \in Requests : outcome[r] = "completed" => ~HasSession(target[r])

\* A submission that meets a paused session and no resume afterwards stores
\* nothing (is_paused in submit_proof).
PauseHolds ==
    \A r \in shut : pc[r] \notin {"s_count", "s_record", "s_read", "s_store", "s_lock",
                                  "s_sample"}

\* Every request is answered as long as the oracle is: no handler waits for the
\* write lock of the map forever, although submit_proof holds it, for all
\* sessions, while the oracle is read (the lock scopes of submit_proof,
\* end_session and create_session).
EveryRequestAnswered ==
    \A r \in Requests : pc[r] \notin {"new", "done"} ~> pc[r] = "done"

\* verification-service/src/lib.rs:855 logs "deferring mint" when the 24h total
\* cannot be read: the session can be ended again later, while the process runs.
DeferredMintCanBeRetried ==
    \A r \in Requests :
        outcome[r] = "mint_ceiling_unverified" /\ restarts = 0
            => twapSessions[target[r]] # Absent

\* session-manager/src/lib.rs:225 says store_proof "Appends a partial proof to
\* the session's stored proof list": while the list exists, a proof accepted
\* into it is there.
StoredProofsAreKept ==
    \A r \in Requests :
        /\ outcome[r] = "accepted"
        /\ HasSession(target[r])
        => r \in proofList[target[r]]
=============================================================================
