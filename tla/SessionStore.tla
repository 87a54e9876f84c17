---------------------------- MODULE SessionStore ----------------------------
(***************************************************************************)
(* The Redis keys of mining sessions, crates/session-manager.  Every       *)
(* operator stands for one Redis command or one run of commands that no    *)
(* other handler can tell apart; the handlers of SessionService use them   *)
(* as parts of their steps.                                                *)
(***************************************************************************)
EXTENDS Integers, FiniteSets

CONSTANTS
    Sessions,    \* session ids (fresh UUIDs)
    Proofs       \* what tells submitted proofs apart

VARIABLES
    keys,        \* per session, the kinds of keys that exist
    committed,   \* per session, whether commit:{id} holds a hash and not "pending"
    proofList    \* per session, the proofs in the JSON array under proofs:{id}

storeVars == <<keys, committed, proofList>>

\* session:{wallet}:{id}, session_lookup:{id} and commit:{id} get one hour at
\* creation and are never refreshed, so they go before the keys written later.
ContextKeys == {"session", "lookup", "commit"}
\* Keys a submission or a pause writes; "hashrate" stands for hashrate_first_at,
\* expected_hashes_sum and last_activity, "verdicts" for verified_proof_count and
\* rejected_proof_count.  proof_count is the one without a TTL.
DataKeys == {"proofs", "proof_count", "hashrate", "verdicts", "paused"}
KeysWithTTL == (ContextKeys \cup DataKeys) \ {"proof_count"}
\* The keys the DEL of delete_session names.
DeletedKeys == (ContextKeys \cup DataKeys) \ {"verdicts", "paused"}

StoreTypeOK ==
    /\ keys \in [Sessions -> SUBSET (ContextKeys \cup DataKeys)]
    /\ committed \in [Sessions -> BOOLEAN]
    /\ proofList \in [Sessions -> SUBSET Proofs]

StoreInit ==
    /\ keys = [s \in Sessions |-> {}]
    /\ committed = [s \in Sessions |-> FALSE]
    /\ proofList = [s \in Sessions |-> {}]

\* The three SETs of create_session: nobody knows the id before they are done.
create_session(s) ==
    /\ keys' = [keys EXCEPT ![s] = @ \cup ContextKeys]
    /\ UNCHANGED <<committed, proofList>>

set_commit(s) ==
    /\ keys' = [keys EXCEPT ![s] = @ \cup {"commit"}]
    /\ committed' = [committed EXCEPT ![s] = TRUE]
    /\ UNCHANGED proofList

\* get_session answers with the context.
HasSession(s) == {"lookup", "session"} \subseteq keys[s]

\* A mutated form: any nonce passes once a hash is stored.
RevealVerified_AnyNonce(s, nonceMatches) ==
    "commit" \in keys[s] /\ committed[s] /\ nonceMatches \in BOOLEAN

\* verify_reveal: a stored hash that is not "pending" and matches the nonce.
RevealVerified(s, nonceMatches) ==
    "commit" \in keys[s] /\ committed[s] /\ nonceMatches

is_paused(s) == "paused" \in keys[s]

\* Setting or incrementing keys.
WriteKeys(s, written) ==
    /\ keys' = [keys EXCEPT ![s] = @ \cup written]
    /\ UNCHANGED <<committed, proofList>>

\* The second half of store_proof: the list read before, with the proof pushed,
\* replaces whatever is stored now.
StoreProofs(s, proofs) ==
    /\ keys' = [keys EXCEPT ![s] = @ \cup {"proofs"}]
    /\ proofList' = [proofList EXCEPT ![s] = proofs]
    /\ UNCHANGED committed

DeleteKeys(s, gone) ==
    /\ keys' = [keys EXCEPT ![s] = @ \ gone]
    /\ committed' = [committed EXCEPT ![s] = @ /\ "commit" \notin gone]
    /\ proofList' = [proofList EXCEPT ![s] = IF "proofs" \in gone THEN {} ELSE @]

delete_session(s) == DeleteKeys(s, DeletedKeys)

clear_paused(s) == DeleteKeys(s, {"paused"})
=============================================================================
