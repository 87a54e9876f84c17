------------------------ MODULE SessionServiceProofs ------------------------
(***************************************************************************)
(* Theorems about SessionService: for any number of sessions and requests, *)
(* restarts, failing calls, disconnects and expired keys.                  *)
(***************************************************************************)
EXTENDS SessionService, FiniteSetTheorems, TLAPS

\* The steps of end_session that come after the calculator was taken.
ClaimSteps == {"e_proofs", "e_attest", "e_ceiling", "e_insert", "e_delete"}

\* The requests that took the session's calculator and have not failed before
\* signing, and those that signed.
Claims(s) == {r \in Requests : target[r] = s /\ pc[r] \in ClaimSteps} \cup signedBy[s]

\* A request is about a session whose creation was finished.
Started == \A r \in Requests : pc[r] # "new" => creating[target[r]] = "live"

\* The calculator is the one right to sign: before it exists and while it is in
\* the map nobody has a claim, and nobody ever shares one.
OneClaim ==
    \A s \in Sessions :
        /\ creating[s] # "live" => twapSessions[s] = Absent
        /\ creating[s] # "live" \/ twapSessions[s] # Absent => Claims(s) = {}
        /\ \A p, q \in Claims(s) : p = q

\* The lock of the map is held by the submission that samples, by nobody else,
\* and the calculator it samples into is in the map.
LockHeld ==
    \A r \in Requests :
        /\ pc[r] = "s_sample" <=> twapLock = r
        /\ pc[r] = "s_sample" => twapSessions[target[r]] # Absent

\* What end_session has in hand at each of its steps.
Backed(step, held) ==
    /\ step \in ClaimSteps \cup {"e_twap"} => held.revealed
    /\ step \in ClaimSteps => held.samples > 0
    /\ step \in {"e_ceiling", "e_insert", "e_delete"} => held.attested /\ held.proofs # {}

EvidenceHeld == \A r \in Requests : Backed(pc[r], local[r])

\* A session that was answered completed has lost its context, and every
\* answered request is done.
Gone ==
    \A r \in Requests :
        outcome[r] = "completed" => pc[r] = "done" /\ ~HasSession(target[r])

\* The flag a submission met is still set until the submission is forgotten.
ShutOut ==
    \A r \in shut : pc[r] \in {"s_lookup", "s_paused", "done"} /\ is_paused(target[r])

\* The type invariant in three parts, beside StoreTypeOK.
Steps == {"new", "done"} \cup SubmitSteps \cup EndSteps \cup ControlSteps
Locals == [proofs : SUBSET Proofs, revealed : BOOLEAN, samples : Nat, attested : BOOLEAN]

RequestsOK ==
    /\ pc \in [Requests -> Steps]
    /\ target \in [Requests -> Sessions]
    /\ body \in [Requests -> BOOLEAN]
    /\ local \in [Requests -> Locals]
    /\ outcome \in [Requests -> Outcomes]

MemoryOK ==
    /\ twapSessions \in [Sessions -> (0 .. MaxSamples) \cup {Absent}]
    /\ twapLock \in Requests \cup {Nobody}
    /\ activeCount \in Int

TablesOK ==
    /\ creating \in [Sessions -> {"unborn", "commit", "insert", "live", "failed"}]
    /\ hasNode \in [Sessions -> BOOLEAN]
    /\ rows \in [Sessions -> Evidence \cup {NoRow}]
    /\ signedBy \in [Sessions -> SUBSET Requests]
    /\ shut \subseteq Requests
    /\ restarts \in 0 .. MaxRestarts

ServiceInv ==
    /\ StoreTypeOK /\ RequestsOK /\ MemoryOK /\ TablesOK
    /\ Started
    /\ OneClaim
    /\ LockHeld
    /\ EvidenceHeld
    /\ RowsAreEarned
    /\ Gone
    /\ ShutOut
-----------------------------------------------------------------------------
(* What a step of a handler may do.                                         *)

\* Request r, and no other, moves to step x with locals l and answer o.
Moves(r, x, l, o) ==
    /\ pc' = [pc EXCEPT ![r] = x]
    /\ local' = [local EXCEPT ![r] = l]
    /\ outcome' = [outcome EXCEPT ![r] = o]
    /\ target' = target
    /\ body' \in [Requests -> BOOLEAN]

\* end_session finds the calculator in the map and removes it.
Takes(r) ==
    /\ twapSessions[target[r]] # Absent
    /\ twapSessions'[target[r]] = Absent

RequestStep(r) ==
    \E x \in Steps \ {"new"}, l \in Locals, o \in Outcomes :
        /\ Moves(r, x, l, o)
        /\ Backed(x, l)
        /\ x \in ClaimSteps => pc[r] \in ClaimSteps \/ Takes(r)
        /\ o = "completed" => x = "done" /\ HasSession(target[r])' = FALSE
        /\ r \in shut' => x \in {"s_lookup", "s_paused", "done"}
        /\ x = "s_sample" <=> twapLock' = r
        /\ x = "s_sample" => twapSessions'[target[r]] # Absent

NoNewContext == \A s \in Sessions : HasSession(s)' => HasSession(s)
PauseKept == \A s \in Sessions : is_paused(s) => is_paused(s)'
StoreStep == StoreTypeOK' /\ NoNewContext /\ PauseKept

\* No calculator appears; none goes while somebody else has the lock.
MemoryStep(r) ==
    /\ MemoryOK'
    /\ twapLock' \in {twapLock, r, Nobody}
    /\ \A s \in Sessions : twapSessions'[s] # Absent => twapSessions[s] # Absent
    /\ twapLock \notin {r, Nobody} =>
           /\ twapLock' = twapLock
           /\ \A s \in Sessions : twapSessions[s] # Absent => twapSessions'[s] # Absent

RestUnchanged == UNCHANGED <<creating, hasNode, rows, restarts, shut, signedBy>>

LEMMA TypeParts == ServiceTypeOK <=> StoreTypeOK /\ RequestsOK /\ MemoryOK /\ TablesOK
BY DEF ServiceTypeOK, RequestsOK, MemoryOK, TablesOK, Steps, Locals

LEMMA ServiceInvInit == ServiceInit => ServiceInv
<1> SUFFICES ASSUME ServiceInit PROVE ServiceInv
  OBVIOUS
<1>1. StoreTypeOK
  BY DEF ServiceInit, StoreInit, StoreTypeOK
<1>2. RequestsOK
  BY DEF ServiceInit, RequestsOK, Steps, Locals, EmptyLocal, Outcomes
<1>3. MemoryOK /\ TablesOK
  BY ServiceAssumption DEF ServiceInit, MemoryOK, TablesOK
<1>4. \A s \in Sessions : Claims(s) = {}
  BY DEF ServiceInit, Claims, ClaimSteps
<1>5. Started /\ OneClaim /\ LockHeld /\ RowsAreEarned /\ Gone /\ ShutOut
  BY <1>4, ServiceAssumption DEF LockHeld, ServiceInit, Started, OneClaim, RowsAreEarned, Gone, ShutOut
<1>6. EvidenceHeld
  BY DEF ServiceInit, EvidenceHeld, Backed, ClaimSteps
<1> QED
  BY <1>1, <1>2, <1>3, <1>5, <1>6 DEF ServiceInv

\* One request moved, the others did not.
LEMMA MovesOne ==
    ASSUME RequestsOK, NEW r \in Requests, NEW x \in Steps, NEW l \in Locals,
           NEW o \in Outcomes, Moves(r, x, l, o)
    PROVE  /\ RequestsOK'
           /\ pc'[r] = x /\ local'[r] = l /\ outcome'[r] = o /\ target' = target
           /\ \A q \in Requests : q # r => /\ pc'[q] = pc[q]
                                          /\ local'[q] = local[q]
                                          /\ outcome'[q] = outcome[q]
BY DEF RequestsOK, Moves

LEMMA EmptyLocalType == EmptyLocal \in Locals
BY DEF EmptyLocal, Locals

\* An answer forgets the locals, so it needs no evidence.
LEMMA AnswerMoves ==
    ASSUME RequestsOK, NEW r \in Requests, NEW o \in Outcomes \ {"completed"}, Answer(r, o),
           twapLock' # r
    PROVE  RequestStep(r)
<1>1. Moves(r, "done", EmptyLocal, o)
  BY DEF Answer, Moves, RequestsOK
<1>2. "done" \in Steps \ {"new"} /\ "done" \notin ClaimSteps \cup {"e_twap"}
  BY DEF Steps, ClaimSteps
<1>3. Backed("done", EmptyLocal)
  BY <1>2 DEF Backed
<1> QED
  BY <1>1, <1>2, <1>3, EmptyLocalType DEF RequestStep

\* Going on with the same locals.
LEMMA GotoMoves ==
    ASSUME ServiceInv, NEW r \in Requests, NEW x \in Steps \ {"new"}, Goto(r, x),
           local' = local, Backed(x, local[r]), pc[r] # "done",
           x = "s_sample" <=> twapLock' = r,
           x = "s_sample" => twapSessions'[target[r]] # Absent,
           x \in ClaimSteps => pc[r] \in ClaimSteps,
           r \in shut' => x \in {"s_lookup", "s_paused", "done"}
    PROVE  RequestStep(r)
<1>1. RequestsOK
  BY DEF ServiceInv
<1>2. local[r] \in Locals /\ outcome[r] \in Outcomes
  BY <1>1 DEF RequestsOK
<1>3. Moves(r, x, local[r], outcome[r])
  BY <1>1 DEF Goto, Moves, RequestsOK
<1>4. outcome[r] # "completed"
  BY DEF ServiceInv, Gone
<1> QED
  BY <1>2, <1>3, <1>4 DEF RequestStep

\* Going on with locals l.
LEMMA GotoWith ==
    ASSUME ServiceInv, NEW r \in Requests, NEW x \in Steps \ {"new"}, NEW l \in Locals,
           Goto(r, x), local' = [local EXCEPT ![r] = l], Backed(x, l),
           pc[r] # "done", r \notin shut', x # "s_sample", twapLock' # r,
           x \in ClaimSteps => pc[r] \in ClaimSteps \/ Takes(r)
    PROVE  RequestStep(r)
<1>1. RequestsOK
  BY DEF ServiceInv
<1>2. outcome[r] \in Outcomes /\ outcome[r] # "completed"
  BY <1>1 DEF RequestsOK, ServiceInv, Gone
<1>3. Moves(r, x, l, outcome[r])
  BY <1>1 DEF Goto, Moves, RequestsOK
<1> QED
  BY <1>2, <1>3 DEF RequestStep

\* One field of the locals is overwritten.
LEMMA LocalUpdate ==
    ASSUME RequestsOK, NEW r \in Requests
    PROVE  /\ \A v : [local EXCEPT ![r].proofs = v] = [local EXCEPT ![r] = [local[r] EXCEPT !.proofs = v]]
           /\ \A v : [local EXCEPT ![r].revealed = v] = [local EXCEPT ![r] = [local[r] EXCEPT !.revealed = v]]
           /\ \A v : [local EXCEPT ![r].samples = v] = [local EXCEPT ![r] = [local[r] EXCEPT !.samples = v]]
           /\ \A v : [local EXCEPT ![r].attested = v] = [local EXCEPT ![r] = [local[r] EXCEPT !.attested = v]]
BY DEF RequestsOK

\* A handler's step that leaves the tables alone keeps the invariant.
LEMMA HandlerStep ==
    ASSUME ServiceInv, NEW r \in Requests, RequestStep(r), creating[target[r]] = "live",
           StoreTypeOK', NoNewContext, MemoryStep(r), TablesOK', creating' = creating,
           \A s \in Sessions : \/ signedBy'[s] = signedBy[s]
                               \/ /\ s = target[r] /\ pc[r] \in ClaimSteps
                                  /\ signedBy'[s] = signedBy[s] \cup {r},
           RowsAreEarned', shut' \subseteq shut \cup {r}, \A q \in shut' : is_paused(target[q])'
    PROVE  ServiceInv'
<1>1. PICK x \in Steps \ {"new"}, l \in Locals, o \in Outcomes :
        /\ Moves(r, x, l, o)
        /\ Backed(x, l)
        /\ x \in ClaimSteps => pc[r] \in ClaimSteps \/ Takes(r)
        /\ o = "completed" => x = "done" /\ HasSession(target[r])' = FALSE
        /\ r \in shut' => x \in {"s_lookup", "s_paused", "done"}
        /\ x = "s_sample" <=> twapLock' = r
        /\ x = "s_sample" => twapSessions'[target[r]] # Absent
  BY DEF RequestStep
<1>2. /\ RequestsOK'
      /\ pc'[r] = x /\ local'[r] = l /\ outcome'[r] = o /\ target' = target
      /\ \A q \in Requests : q # r => /\ pc'[q] = pc[q]
                                     /\ local'[q] = local[q]
                                     /\ outcome'[q] = outcome[q]
  BY <1>1, MovesOne DEF ServiceInv
<1>3. target[r] \in Sessions
  BY DEF ServiceInv, RequestsOK
<1>4. Started'
  BY <1>2, <1>3 DEF ServiceInv, Started
<1>5. EvidenceHeld'
  BY <1>1, <1>2 DEF ServiceInv, EvidenceHeld
<1>6. OneClaim'
  <2> SUFFICES ASSUME NEW s \in Sessions
               PROVE  /\ creating'[s] # "live" => twapSessions'[s] = Absent
                      /\ creating'[s] # "live" \/ twapSessions'[s] # Absent => Claims(s)' = {}
                      /\ \A p, q \in Claims(s)' : p = q
    BY DEF OneClaim
  <2>1. /\ creating[s] # "live" => twapSessions[s] = Absent
        /\ creating[s] # "live" \/ twapSessions[s] # Absent => Claims(s) = {}
        /\ \A p, q \in Claims(s) : p = q
    BY DEF ServiceInv, OneClaim
  <2>2. CASE s = target[r] /\ x \in ClaimSteps /\ pc[r] \notin ClaimSteps
    <3>1. Takes(r)
      BY <1>1, <2>2
    <3>2. Claims(s) = {} /\ twapSessions'[s] = Absent
      BY <2>1, <2>2, <3>1 DEF Takes
    <3>3. Claims(s)' \subseteq {r}
      BY <1>2, <2>2, <3>2 DEF Claims
    <3> QED
      BY <1>3, <2>2, <3>2, <3>3
  <2>3. CASE ~(s = target[r] /\ x \in ClaimSteps /\ pc[r] \notin ClaimSteps)
    <3>1. Claims(s)' \subseteq Claims(s)
      BY <1>2, <2>3 DEF Claims
    <3> QED
      BY <2>1, <3>1 DEF MemoryStep
  <2> QED
    BY <2>2, <2>3
<1>7. Gone'
  BY <1>1, <1>2 DEF ServiceInv, Gone, NoNewContext, RequestsOK
<1>8. ShutOut'
  BY <1>1, <1>2 DEF ServiceInv, ShutOut, TablesOK
<1>9. LockHeld'
  <2> SUFFICES ASSUME NEW q \in Requests
               PROVE  /\ pc'[q] = "s_sample" <=> twapLock' = q
                      /\ pc'[q] = "s_sample" => twapSessions'[target[q]] # Absent
    BY <1>2 DEF LockHeld
  <2>1. CASE q = r
    BY <1>1, <1>2, <2>1
  <2>2. CASE q # r
    <3>1. /\ pc[q] = "s_sample" <=> twapLock = q
          /\ pc[q] = "s_sample" => twapSessions[target[q]] # Absent
          /\ target[q] \in Sessions /\ q # Nobody
      BY ServiceAssumption DEF ServiceInv, LockHeld, RequestsOK
    <3> QED
      BY <1>2, <2>2, <3>1 DEF MemoryStep
  <2> QED
    BY <2>1, <2>2
<1> QED
  BY <1>2, <1>4, <1>5, <1>6, <1>7, <1>8, <1>9 DEF ServiceInv, MemoryStep

\* A handler that is running belongs to a session that was created.
LEMMA RestStep ==
    ASSUME ServiceInv, NEW r \in Requests, RequestStep(r), pc[r] # "new",
           StoreStep, MemoryStep(r), RestUnchanged
    PROVE  ServiceInv'
<1>1. creating[target[r]] = "live"
  BY DEF ServiceInv, Started
<1>2. TablesOK' /\ creating' = creating /\ signedBy' = signedBy /\ shut' = shut
  BY DEF ServiceInv, TablesOK, RestUnchanged
<1>3. RowsAreEarned'
  BY DEF ServiceInv, RowsAreEarned, RestUnchanged
<1>4. target' = target
  BY DEF RequestStep, Moves
<1>5. \A q \in shut' : is_paused(target[q])'
  BY <1>2, <1>4 DEF ServiceInv, ShutOut, TablesOK, RequestsOK, StoreStep, PauseKept
<1> QED
  BY <1>1, <1>2, <1>3, <1>5, HandlerStep DEF StoreStep
-----------------------------------------------------------------------------
(* Redis and memory, for themselves.                                        *)

LEMMA StoreAlone == StoreTypeOK /\ UNCHANGED storeVars => StoreStep
BY DEF StoreTypeOK, storeVars, StoreStep, NoNewContext, PauseKept, HasSession, is_paused

LEMMA MemoryAlone ==
    ASSUME ServiceInv, UNCHANGED memoryVars, NEW r \in Requests, pc[r] # "s_sample"
    PROVE  MemoryStep(r) /\ twapLock' # r
BY DEF ServiceInv, LockHeld, MemoryOK, memoryVars, MemoryStep

LEMMA WriteStep ==
    ASSUME StoreTypeOK, NEW s \in Sessions, NEW w \in SUBSET DataKeys, WriteKeys(s, w)
    PROVE  StoreStep
<1>1. /\ keys'[s] = keys[s] \cup w
      /\ \A t \in Sessions : t # s => keys'[t] = keys[t]
      /\ keys' \in [Sessions -> SUBSET (ContextKeys \cup DataKeys)]
  BY DEF WriteKeys, StoreTypeOK
<1>2. StoreTypeOK'
  BY <1>1 DEF WriteKeys, StoreTypeOK
<1>3. NoNewContext /\ PauseKept
  BY <1>1 DEF NoNewContext, PauseKept, HasSession, is_paused, DataKeys
<1> QED
  BY <1>2, <1>3 DEF StoreStep

LEMMA StoreProofsStep ==
    ASSUME StoreTypeOK, NEW s \in Sessions, NEW list \in SUBSET Proofs, StoreProofs(s, list)
    PROVE  StoreStep
<1>1. /\ keys'[s] = keys[s] \cup {"proofs"}
      /\ \A t \in Sessions : t # s => keys'[t] = keys[t]
      /\ keys' \in [Sessions -> SUBSET (ContextKeys \cup DataKeys)]
  BY DEF StoreProofs, StoreTypeOK, DataKeys
<1>2. StoreTypeOK'
  BY <1>1 DEF StoreProofs, StoreTypeOK
<1>3. NoNewContext /\ PauseKept
  BY <1>1 DEF NoNewContext, PauseKept, HasSession, is_paused
<1> QED
  BY <1>2, <1>3 DEF StoreStep

\* Deleting keys: the flag goes only where it is named.
LEMMA DeleteStep ==
    ASSUME StoreTypeOK, NEW s \in Sessions, NEW gone, DeleteKeys(s, gone)
    PROVE  /\ StoreTypeOK' /\ NoNewContext
           /\ \A t \in Sessions : is_paused(t) /\ (t # s \/ "paused" \notin gone) => is_paused(t)'
           /\ "lookup" \in gone => HasSession(s)' = FALSE
<1>1. /\ keys'[s] = keys[s] \ gone
      /\ \A t \in Sessions : t # s => keys'[t] = keys[t]
      /\ keys' \in [Sessions -> SUBSET (ContextKeys \cup DataKeys)]
  BY DEF DeleteKeys, StoreTypeOK
<1>2. committed' \in [Sessions -> BOOLEAN] /\ proofList' \in [Sessions -> SUBSET Proofs]
  BY DEF DeleteKeys, StoreTypeOK
<1> QED
  BY <1>1, <1>2 DEF StoreTypeOK, NoNewContext, HasSession, is_paused
-----------------------------------------------------------------------------
(* The handlers, one lemma per operation.                                   *)

\* get_session of the three handlers that begin with it.
LEMMA LookupInv ==
    ASSUME ServiceInv, NEW r \in Requests, NEW from \in {"s_lookup", "p_auth", "e_lookup"},
           NEW to \in {"s_paused", "p_write", "e_reveal"},
           Lookup(r, from, to), r \in shut => to = "s_paused"
    PROVE  ServiceInv'
<1>1. pc[r] = from
  BY DEF Lookup, At
<1>2. StoreStep /\ MemoryStep(r) /\ RestUnchanged /\ twapLock' # r
  BY <1>1, StoreAlone, MemoryAlone DEF Lookup, ServiceInv, RestUnchanged, ghostVars
<1>3. RequestStep(r)
  <2>1. CASE \E o \in {"not_found", "error"} : Answer(r, o)
    BY <1>2, <2>1, AnswerMoves DEF ServiceInv, Outcomes
  <2>2. CASE Goto(r, to) /\ UNCHANGED local
    <3>1. to \in Steps \ {"new"} /\ Backed(to, local[r]) /\ to \notin ClaimSteps
      BY DEF Steps, SubmitSteps, EndSteps, ControlSteps, Backed, ClaimSteps
    <3> QED
      BY <1>1, <1>2, <2>2, <3>1, GotoMoves DEF RestUnchanged
  <2> QED
    BY <2>1, <2>2 DEF Lookup
<1> QED
  BY <1>1, <1>2, <1>3, RestStep

\* A submission that met the flag meets it again here.
LEMMA SubmitPausedInv ==
    ASSUME ServiceInv, NEW r \in Requests, SubmitPaused(r)
    PROVE  ServiceInv'
<1>1. pc[r] = "s_paused"
  BY DEF SubmitPaused, At
<1>2. StoreStep /\ MemoryStep(r) /\ RestUnchanged /\ twapLock' # r
  BY <1>1, StoreAlone, MemoryAlone DEF SubmitPaused, ServiceInv, RestUnchanged, ghostVars
<1>3. RequestStep(r)
  <2>1. CASE \E o \in {"conflict", "error"} : Answer(r, o)
    BY <1>2, <2>1, AnswerMoves DEF ServiceInv, Outcomes
  <2>2. CASE ~is_paused(target[r]) /\ Goto(r, "s_count") /\ UNCHANGED local
    <3>1. "s_count" \in Steps \ {"new"} /\ Backed("s_count", local[r]) /\ "s_count" \notin ClaimSteps
      BY DEF Steps, SubmitSteps, Backed, ClaimSteps
    <3>2. r \notin shut'
      BY <1>2, <2>2 DEF ServiceInv, ShutOut, RestUnchanged
    <3> QED
      BY <1>1, <1>2, <2>2, <3>1, <3>2, GotoMoves
  <2> QED
    BY <2>1, <2>2 DEF SubmitPaused
<1> QED
  BY <1>1, <1>2, <1>3, RestStep

\* Past is_paused a submission met no flag.
LEMMA NotShut ==
    ASSUME ServiceInv, NEW r \in Requests, pc[r] \notin {"s_lookup", "s_paused", "done"}
    PROVE  r \notin shut
BY DEF ServiceInv, ShutOut

LEMMA SubmitCountInv ==
    ASSUME ServiceInv, NEW r \in Requests, SubmitCount(r)
    PROVE  ServiceInv'
<1>1. pc[r] = "s_count" /\ Goto(r, "s_record") /\ UNCHANGED local
  BY DEF SubmitCount, At
<1>2. MemoryStep(r) /\ RestUnchanged /\ twapLock' # r
  BY <1>1, MemoryAlone DEF SubmitCount, ServiceInv, RestUnchanged, ghostVars
<1>3. target[r] \in Sessions /\ {"proof_count"} \in SUBSET DataKeys
  BY DEF ServiceInv, RequestsOK, DataKeys
<1>4. StoreStep
  BY <1>3, WriteStep, StoreAlone DEF SubmitCount, ServiceInv
<1>5. "s_record" \in Steps \ {"new"} /\ Backed("s_record", local[r]) /\ "s_record" \notin ClaimSteps
  BY DEF Steps, SubmitSteps, Backed, ClaimSteps
<1>6. r \notin shut'
  BY <1>1, <1>2, NotShut DEF RestUnchanged
<1>7. RequestStep(r)
  BY <1>1, <1>2, <1>5, <1>6, GotoMoves
<1> QED
  BY <1>1, <1>2, <1>4, <1>7, RestStep

LEMMA SubmitRecordInv ==
    ASSUME ServiceInv, NEW r \in Requests, SubmitRecord(r)
    PROVE  ServiceInv'
<1>1. pc[r] = "s_record" /\ Goto(r, "s_read") /\ UNCHANGED local
  BY DEF SubmitRecord, At
<1>2. MemoryStep(r) /\ RestUnchanged /\ twapLock' # r
  BY <1>1, MemoryAlone DEF SubmitRecord, ServiceInv, RestUnchanged, ghostVars
<1>3. target[r] \in Sessions
  BY DEF ServiceInv, RequestsOK
<1>4. PICK w \in SUBSET DataKeys : WriteKeys(target[r], w)
  BY DEF SubmitRecord, DataKeys
<1>5. StoreStep
  BY <1>3, <1>4, WriteStep DEF ServiceInv
<1>6. "s_read" \in Steps \ {"new"} /\ Backed("s_read", local[r]) /\ "s_read" \notin ClaimSteps
  BY DEF Steps, SubmitSteps, Backed, ClaimSteps
<1>7. r \notin shut'
  BY <1>1, <1>2, NotShut DEF RestUnchanged
<1>8. RequestStep(r)
  BY <1>1, <1>2, <1>6, <1>7, GotoMoves
<1> QED
  BY <1>1, <1>2, <1>5, <1>8, RestStep

\* A list that was read is a list of proofs.
LEMMA ListRead ==
    ASSUME ServiceInv, NEW r \in Requests
    PROVE  [local[r] EXCEPT !.proofs = proofList[target[r]]] \in Locals
BY DEF ServiceInv, RequestsOK, StoreTypeOK, Locals

LEMMA SubmitReadInv ==
    ASSUME ServiceInv, NEW r \in Requests, SubmitRead(r)
    PROVE  ServiceInv'
<1>1. pc[r] = "s_read"
  BY DEF SubmitRead, At
<1>2. StoreStep /\ MemoryStep(r) /\ RestUnchanged /\ twapLock' # r
  BY <1>1, StoreAlone, MemoryAlone DEF SubmitRead, ServiceInv, RestUnchanged, ghostVars
<1>3. RequestStep(r)
  <2>1. CASE Answer(r, "error")
    BY <1>2, <2>1, AnswerMoves DEF ServiceInv, Outcomes
  <2>2. CASE Goto(r, "s_store") /\ local' = [local EXCEPT ![r].proofs = proofList[target[r]]]
    <3> DEFINE l == [local[r] EXCEPT !.proofs = proofList[target[r]]]
    <3>1. local' = [local EXCEPT ![r] = l]
      BY <2>2, LocalUpdate DEF ServiceInv
    <3>2. "s_store" \in Steps \ {"new"} /\ Backed("s_store", l) /\ "s_store" \notin ClaimSteps
      BY DEF Steps, SubmitSteps, Backed, ClaimSteps
    <3>3. l \in Locals
      BY ListRead
    <3>4. r \notin shut'
      BY <1>1, <1>2, NotShut DEF RestUnchanged
    <3> QED
      BY <1>1, <1>2, <2>2, <3>1, <3>2, <3>3, <3>4, GotoWith
  <2> QED
    BY <2>1, <2>2 DEF SubmitRead
<1> QED
  BY <1>1, <1>2, <1>3, RestStep

LEMMA SubmitStoreInv ==
    ASSUME ServiceInv, NEW r \in Requests, SubmitStore(r)
    PROVE  ServiceInv'
<1>1. pc[r] = "s_store"
  BY DEF SubmitStore, At
<1>2. MemoryStep(r) /\ RestUnchanged /\ twapLock' # r
  BY <1>1, MemoryAlone DEF SubmitStore, ServiceInv, RestUnchanged, ghostVars
<1>3. target[r] \in Sessions /\ local[r].proofs \cup {r} \in SUBSET Proofs
  BY ServiceAssumption DEF ServiceInv, RequestsOK, Locals
<1>4. CASE Answer(r, "error") /\ UNCHANGED storeVars
  <2>1. RequestStep(r) /\ StoreStep
    BY <1>2, <1>4, AnswerMoves, StoreAlone DEF ServiceInv, Outcomes
  <2> QED
    BY <1>1, <1>2, <2>1, RestStep
<1>5. CASE Goto(r, "s_lock") /\ StoreProofs(target[r], local[r].proofs \cup {r}) /\ UNCHANGED local
  <2>1. StoreStep
    BY <1>3, <1>5, StoreProofsStep DEF ServiceInv
  <2>2. "s_lock" \in Steps \ {"new"} /\ Backed("s_lock", local[r]) /\ "s_lock" \notin ClaimSteps
    BY DEF Steps, SubmitSteps, Backed, ClaimSteps
  <2>3. r \notin shut'
    BY <1>1, <1>2, NotShut DEF RestUnchanged
  <2>4. RequestStep(r)
    BY <1>1, <1>2, <1>5, <2>2, <2>3, GotoMoves
  <2> QED
    BY <1>1, <1>2, <2>1, <2>4, RestStep
<1> QED
  BY <1>4, <1>5 DEF SubmitStore

LEMMA SubmitLockInv ==
    ASSUME ServiceInv, NEW r \in Requests, SubmitLock(r)
    PROVE  ServiceInv'
<1>1. pc[r] = "s_lock"
  BY DEF SubmitLock, At
<1>2. StoreStep /\ RestUnchanged
  BY StoreAlone DEF SubmitLock, ServiceInv, RestUnchanged, ghostVars
<1>3. MemoryStep(r)
  BY DEF SubmitLock, ServiceInv, MemoryOK, MemoryStep
<1>4. RequestStep(r)
  <2>1. CASE Answer(r, "accepted") /\ UNCHANGED twapLock
    <3>1. twapLock' # r
      BY <2>1, ServiceAssumption DEF SubmitLock
    <3> QED
      BY <2>1, <3>1, AnswerMoves DEF ServiceInv, Outcomes
  <2>2. CASE /\ Goto(r, "s_sample") /\ UNCHANGED local
             /\ twapLock' = r /\ twapSessions[target[r]] # Absent
    <3>1. "s_sample" \in Steps \ {"new"} /\ Backed("s_sample", local[r]) /\ "s_sample" \notin ClaimSteps
      BY DEF Steps, SubmitSteps, Backed, ClaimSteps
    <3>2. r \notin shut'
      BY <1>1, <1>2, NotShut DEF RestUnchanged
    <3> QED
      BY <1>1, <2>2, <3>1, <3>2, GotoMoves DEF SubmitLock
  <2> QED
    BY <2>1, <2>2 DEF SubmitLock
<1> QED
  BY <1>1, <1>2, <1>3, <1>4, RestStep

\* The lock kept the calculator in the map, so the sample goes into one.
LEMMA SubmitSampleInv ==
    ASSUME ServiceInv, NEW r \in Requests, SubmitSample(r)
    PROVE  ServiceInv'
<1>1. pc[r] = "s_sample" /\ Answer(r, "accepted") /\ twapLock' = Nobody
  BY DEF SubmitSample, At
<1>2. StoreStep /\ RestUnchanged
  BY StoreAlone DEF SubmitSample, ServiceInv, RestUnchanged, ghostVars
<1>3. /\ twapLock = r /\ target[r] \in Sessions
      /\ twapSessions[target[r]] \in 0 .. MaxSamples
  BY <1>1 DEF ServiceInv, LockHeld, RequestsOK, MemoryOK
<1>4. MemoryStep(r)
  <2>1. \/ twapSessions' = [twapSessions EXCEPT ![target[r]] =
               IF twapSessions[target[r]] < MaxSamples THEN twapSessions[target[r]] + 1
               ELSE twapSessions[target[r]]]
        \/ twapSessions' = twapSessions
    BY DEF SubmitSample
  <2>2. /\ twapSessions' \in [Sessions -> (0 .. MaxSamples) \cup {Absent}]
        /\ \A s \in Sessions : s # target[r] => twapSessions'[s] = twapSessions[s]
    BY <1>3, <2>1, ServiceAssumption DEF ServiceInv, MemoryOK
  <2>3. twapSessions[target[r]] # Absent
    BY <1>3, ServiceAssumption
  <2> QED
    BY <1>1, <1>3, <2>2, <2>3 DEF MemoryStep, ServiceInv, MemoryOK, SubmitSample
<1>5. RequestStep(r)
  BY <1>1, AnswerMoves, ServiceAssumption DEF ServiceInv, Outcomes
<1> QED
  BY <1>1, <1>2, <1>4, <1>5, RestStep

LEMMA PauseWriteInv ==
    ASSUME ServiceInv, NEW r \in Requests, PauseWrite(r)
    PROVE  ServiceInv'
<1>1. pc[r] = "p_write"
  BY DEF PauseWrite, At
<1>2. MemoryStep(r) /\ RestUnchanged /\ twapLock' # r
  BY <1>1, MemoryAlone DEF PauseWrite, ServiceInv, RestUnchanged, ghostVars
<1>3. target[r] \in Sessions /\ {"paused"} \in SUBSET DataKeys
  BY DEF ServiceInv, RequestsOK, DataKeys
<1>4. StoreStep
  BY <1>3, WriteStep, StoreAlone DEF PauseWrite, ServiceInv
<1>5. RequestStep(r)
  BY <1>2, AnswerMoves DEF PauseWrite, ServiceInv, Outcomes
<1> QED
  BY <1>1, <1>2, <1>4, <1>5, RestStep

\* Resuming a session forgets the submissions that met its flag.
LEMMA ResumeWriteInv ==
    ASSUME ServiceInv, NEW r \in Requests, ResumeWrite(r)
    PROVE  ServiceInv'
<1>1. pc[r] = "p_write" /\ rows' = rows
  BY DEF ResumeWrite, At
<1>2. MemoryStep(r) /\ twapLock' # r
  BY <1>1, MemoryAlone DEF ResumeWrite, ServiceInv
<1>3. RequestStep(r)
  BY <1>2, AnswerMoves DEF ResumeWrite, ServiceInv, Outcomes
<1>4. CASE UNCHANGED <<storeVars, shut>>
  <2>1. StoreStep /\ RestUnchanged
    BY <1>4, StoreAlone DEF ResumeWrite, ServiceInv, RestUnchanged
  <2> QED
    BY <1>1, <1>2, <1>3, <2>1, RestStep
<1>5. CASE clear_paused(target[r]) /\ shut' = {q \in shut : target[q] # target[r]}
  <2>1. target[r] \in Sessions /\ creating[target[r]] = "live" /\ target' = target
    BY <1>1, <1>3 DEF ServiceInv, RequestsOK, Started, RequestStep, Moves
  <2>2. /\ StoreTypeOK' /\ NoNewContext
        /\ \A t \in Sessions : is_paused(t) /\ t # target[r] => is_paused(t)'
    BY <1>5, <2>1, DeleteStep DEF ServiceInv, clear_paused
  <2>3. /\ TablesOK' /\ creating' = creating /\ signedBy' = signedBy
        /\ shut' \subseteq shut
    BY <1>5 DEF ResumeWrite, ServiceInv, TablesOK
  <2>4. RowsAreEarned'
    BY <1>1 DEF ServiceInv, RowsAreEarned
  <2>5. \A q \in shut' : is_paused(target[q])'
    BY <1>5, <2>1, <2>2 DEF ServiceInv, ShutOut, TablesOK, RequestsOK
  <2> QED
    BY <1>2, <1>3, <2>1, <2>2, <2>3, <2>4, <2>5, HandlerStep
<1> QED
  BY <1>4, <1>5 DEF ResumeWrite

\* The reveal that is remembered is the one that matched.
LEMMA EndRevealInv ==
    ASSUME ServiceInv, NEW r \in Requests, EndReveal(r)
    PROVE  ServiceInv'
<1>1. pc[r] = "e_reveal"
  BY DEF EndReveal, At
<1>2. StoreStep /\ MemoryStep(r) /\ RestUnchanged /\ twapLock' # r
  BY <1>1, StoreAlone, MemoryAlone DEF EndReveal, ServiceInv, RestUnchanged, ghostVars
<1>3. RequestStep(r)
  <2>1. CASE \E o \in {"rejected", "no_assigned_node", "error"} : Answer(r, o)
    BY <1>2, <2>1, AnswerMoves DEF ServiceInv, Outcomes
  <2>2. CASE /\ RevealVerified(target[r], body[r]) /\ Goto(r, "e_twap")
             /\ local' = [local EXCEPT ![r].revealed = (committed[target[r]] /\ body[r])]
    <3> DEFINE l == [local[r] EXCEPT !.revealed = (committed[target[r]] /\ body[r])]
    <3>1. local' = [local EXCEPT ![r] = l]
      BY <2>2, LocalUpdate DEF ServiceInv
    <3>2. l \in Locals /\ l.revealed
      BY <2>2 DEF RevealVerified, ServiceInv, RequestsOK, Locals
    <3>3. "e_twap" \in Steps \ {"new"} /\ Backed("e_twap", l) /\ "e_twap" \notin ClaimSteps
      BY <3>2 DEF Steps, EndSteps, Backed, ClaimSteps
    <3>4. r \notin shut'
      BY <1>1, <1>2, NotShut DEF RestUnchanged
    <3> HIDE DEF l
    <3> QED
      BY <1>1, <1>2, <2>2, <3>1, <3>2, <3>3, <3>4, GotoWith
  <2> QED
    BY <2>1, <2>2 DEF EndReveal
<1> QED
  BY <1>1, <1>2, <1>3, RestStep

\* Whoever goes on from here removed the calculator in this very step.
LEMMA EndTakeTwapInv ==
    ASSUME ServiceInv, NEW r \in Requests, EndTakeTwap(r)
    PROVE  ServiceInv'
<1>1. /\ pc[r] = "e_twap" /\ twapLock = Nobody /\ twapLock' = twapLock
      /\ twapSessions' = [twapSessions EXCEPT ![target[r]] = Absent]
  BY DEF EndTakeTwap, At
<1>2. StoreStep /\ RestUnchanged
  BY StoreAlone DEF EndTakeTwap, ServiceInv, RestUnchanged, ghostVars
<1>3. target[r] \in Sessions /\ twapSessions[target[r]] \in (0 .. MaxSamples) \cup {Absent}
  BY DEF ServiceInv, RequestsOK, MemoryOK
<1>4. /\ twapSessions'[target[r]] = Absent
      /\ \A s \in Sessions : s # target[r] => twapSessions'[s] = twapSessions[s]
      /\ twapSessions' \in [Sessions -> (0 .. MaxSamples) \cup {Absent}]
  BY <1>1, <1>3 DEF ServiceInv, MemoryOK
<1>5. MemoryStep(r) /\ twapLock' # r
  BY <1>1, <1>4, ServiceAssumption DEF EndTakeTwap, ServiceInv, MemoryOK, MemoryStep
<1>6. RequestStep(r)
  <2>1. CASE Answer(r, "no_samples")
    BY <1>5, <2>1, AnswerMoves DEF ServiceInv, Outcomes
  <2>2. CASE /\ twapSessions[target[r]] \notin {Absent, 0} /\ Goto(r, "e_proofs")
             /\ local' = [local EXCEPT ![r].samples = twapSessions[target[r]]]
    <3> DEFINE l == [local[r] EXCEPT !.samples = twapSessions[target[r]]]
    <3>1. local' = [local EXCEPT ![r] = l]
      BY <2>2, LocalUpdate DEF ServiceInv
    <3>2. l \in Locals /\ l.samples > 0 /\ l.revealed = local[r].revealed
      BY <1>3, <2>2, ServiceAssumption DEF ServiceInv, RequestsOK, Locals
    <3>3. Backed("e_twap", local[r])
      BY <1>1 DEF ServiceInv, EvidenceHeld
    <3>4. "e_proofs" \in Steps \ {"new"} /\ Backed("e_proofs", l)
      BY <3>2, <3>3 DEF Steps, EndSteps, Backed, ClaimSteps
    <3>5. r \notin shut' /\ Takes(r)
      BY <1>1, <1>2, <1>4, <2>2, NotShut DEF RestUnchanged, Takes
    <3> HIDE DEF l
    <3> QED
      BY <1>1, <1>5, <2>2, <3>1, <3>2, <3>4, <3>5, GotoWith
  <2> QED
    BY <2>1, <2>2 DEF EndTakeTwap
<1> QED
  BY <1>1, <1>2, <1>5, <1>6, RestStep

LEMMA EndProofsInv ==
    ASSUME ServiceInv, NEW r \in Requests, EndProofs(r)
    PROVE  ServiceInv'
<1>1. pc[r] = "e_proofs"
  BY DEF EndProofs, At
<1>2. StoreStep /\ MemoryStep(r) /\ RestUnchanged /\ twapLock' # r
  BY <1>1, StoreAlone, MemoryAlone DEF EndProofs, ServiceInv, RestUnchanged, ghostVars
<1>3. RequestStep(r)
  <2>1. CASE Answer(r, "error")
    BY <1>2, <2>1, AnswerMoves DEF ServiceInv, Outcomes
  <2>2. CASE Goto(r, "e_attest") /\ local' = [local EXCEPT ![r].proofs = proofList[target[r]]]
    <3> DEFINE l == [local[r] EXCEPT !.proofs = proofList[target[r]]]
    <3>1. local' = [local EXCEPT ![r] = l]
      BY <2>2, LocalUpdate DEF ServiceInv
    <3>2. l \in Locals
      BY ListRead
    <3>3. Backed("e_proofs", local[r]) /\ local[r] \in Locals
      BY <1>1 DEF ServiceInv, EvidenceHeld, RequestsOK
    <3>4. "e_attest" \in Steps \ {"new"} /\ Backed("e_attest", l) /\ "e_proofs" \in ClaimSteps
      BY <3>3 DEF Steps, EndSteps, Backed, ClaimSteps, Locals
    <3>5. r \notin shut'
      BY <1>1, <1>2, NotShut DEF RestUnchanged
    <3> HIDE DEF l
    <3> QED
      BY <1>1, <1>2, <2>2, <3>1, <3>2, <3>4, <3>5, GotoWith
  <2> QED
    BY <2>1, <2>2 DEF EndProofs
<1> QED
  BY <1>1, <1>2, <1>3, RestStep

LEMMA EndAttestInv ==
    ASSUME ServiceInv, NEW r \in Requests, EndAttest(r)
    PROVE  ServiceInv'
<1>1. pc[r] = "e_attest"
  BY DEF EndAttest, At
<1>2. StoreStep /\ MemoryStep(r) /\ RestUnchanged /\ twapLock' # r
  BY <1>1, StoreAlone, MemoryAlone DEF EndAttest, ServiceInv, RestUnchanged, ghostVars
<1>3. RequestStep(r)
  <2>1. CASE Answer(r, "attestation_failed")
    BY <1>2, <2>1, AnswerMoves DEF ServiceInv, Outcomes
  <2>2. CASE /\ local[r].proofs # {} /\ Goto(r, "e_ceiling")
             /\ local' = [local EXCEPT ![r].attested = TRUE]
    <3> DEFINE l == [local[r] EXCEPT !.attested = TRUE]
    <3>1. local' = [local EXCEPT ![r] = l]
      BY <2>2, LocalUpdate DEF ServiceInv
    <3>2. Backed("e_attest", local[r]) /\ local[r] \in Locals
      BY <1>1 DEF ServiceInv, EvidenceHeld, RequestsOK
    <3>3. l \in Locals
      BY <3>2 DEF Locals
    <3>4. "e_ceiling" \in Steps \ {"new"} /\ Backed("e_ceiling", l) /\ "e_attest" \in ClaimSteps
      BY <2>2, <3>2 DEF Steps, EndSteps, Backed, ClaimSteps, Locals
    <3>5. r \notin shut'
      BY <1>1, <1>2, NotShut DEF RestUnchanged
    <3> HIDE DEF l
    <3> QED
      BY <1>1, <1>2, <2>2, <3>1, <3>3, <3>4, <3>5, GotoWith
  <2> QED
    BY <2>1, <2>2 DEF EndAttest
<1> QED
  BY <1>1, <1>2, <1>3, RestStep

\* Only a request with a claim signs.
LEMMA EndCeilingInv ==
    ASSUME ServiceInv, NEW r \in Requests, EndCeiling(r)
    PROVE  ServiceInv'
<1>1. pc[r] = "e_ceiling" /\ rows' = rows /\ creating' = creating /\ shut' = shut
  BY DEF EndCeiling, At
<1>2. StoreStep /\ MemoryStep(r) /\ twapLock' # r
  BY <1>1, StoreAlone, MemoryAlone DEF EndCeiling, ServiceInv
<1>3. r \notin shut'
  BY <1>1, NotShut
<1>4. RequestStep(r)
  <2>1. CASE \E o \in {"mint_ceiling_unverified", "mint_ceiling_exceeded", "error"} : Answer(r, o)
    BY <1>2, <2>1, AnswerMoves DEF ServiceInv, Outcomes
  <2>2. CASE Goto(r, "e_insert") /\ UNCHANGED local
    <3>1. Backed("e_ceiling", local[r])
      BY <1>1 DEF ServiceInv, EvidenceHeld
    <3>2. "e_insert" \in Steps \ {"new"} /\ Backed("e_insert", local[r]) /\ "e_ceiling" \in ClaimSteps
      BY <3>1 DEF Steps, EndSteps, Backed, ClaimSteps
    <3> QED
      BY <1>1, <1>2, <1>3, <2>2, <3>2, GotoMoves
  <2> QED
    BY <2>1, <2>2 DEF EndCeiling
<1>5. target[r] \in Sessions /\ creating[target[r]] = "live" /\ target' = target
  BY <1>1, <1>4 DEF ServiceInv, RequestsOK, Started, RequestStep, Moves
<1>6. \/ signedBy' = signedBy
      \/ signedBy' = [signedBy EXCEPT ![target[r]] = signedBy[target[r]] \cup {r}]
  BY DEF EndCeiling
<1>7. /\ \A s \in Sessions : \/ signedBy'[s] = signedBy[s]
                             \/ /\ s = target[r] /\ pc[r] \in ClaimSteps
                                /\ signedBy'[s] = signedBy[s] \cup {r}
      /\ signedBy' \in [Sessions -> SUBSET Requests]
  BY <1>1, <1>5, <1>6 DEF ServiceInv, TablesOK, ClaimSteps
<1>8. TablesOK'
  BY <1>7 DEF EndCeiling, ServiceInv, TablesOK
<1>9. RowsAreEarned'
  BY <1>1 DEF ServiceInv, RowsAreEarned
<1>10. \A q \in shut' : is_paused(target[q])'
  BY <1>1, <1>2, <1>5 DEF ServiceInv, ShutOut, TablesOK, RequestsOK, StoreStep, PauseKept
<1> QED
  BY <1>1, <1>2, <1>4, <1>5, <1>7, <1>8, <1>9, <1>10, HandlerStep DEF StoreStep

\* The row is written from what the request has in hand.
LEMMA EndInsertInv ==
    ASSUME ServiceInv, NEW r \in Requests, EndInsert(r)
    PROVE  ServiceInv'
<1> DEFINE row == [by |-> r, revealed |-> local[r].revealed, samples |-> local[r].samples,
                   attested |-> local[r].attested, proven |-> local[r].proofs # {}]
<1>1. /\ pc[r] = "e_insert" /\ Goto(r, "e_delete") /\ UNCHANGED local
      /\ creating' = creating /\ shut' = shut /\ signedBy' = signedBy
      /\ rows' = rows \/ rows' = [rows EXCEPT ![target[r]] = row]
  BY DEF EndInsert, At, ghostVars
<1>2. StoreStep
  BY StoreAlone DEF EndInsert, ServiceInv
<1>3. MemoryStep(r) /\ twapLock' # r
  BY <1>1 DEF EndInsert, ServiceInv, LockHeld, MemoryOK, MemoryStep
<1>4. local[r] \in Locals /\ Backed("e_insert", local[r])
  BY <1>1 DEF ServiceInv, RequestsOK, EvidenceHeld
<1>5. RequestStep(r)
  <2>1. /\ "e_delete" \in Steps \ {"new"} /\ Backed("e_delete", local[r])
        /\ "e_insert" \in ClaimSteps
    BY <1>4 DEF Steps, EndSteps, Backed, ClaimSteps
  <2>2. r \notin shut'
    BY <1>1, NotShut
  <2> QED
    BY <1>1, <1>3, <2>1, <2>2, GotoMoves
<1>6. target[r] \in Sessions /\ creating[target[r]] = "live" /\ target' = target
  BY <1>1, <1>5 DEF ServiceInv, RequestsOK, Started, RequestStep, Moves
<1>7. row \in Evidence /\ row.revealed /\ row.samples > 0 /\ row.attested /\ row.proven
  BY <1>4 DEF Evidence, Locals, Backed, ClaimSteps
<1>8. rows' \in [Sessions -> Evidence \cup {NoRow}] /\ RowsAreEarned'
  <2> HIDE DEF row
  <2>1. rows \in [Sessions -> Evidence \cup {NoRow}] /\ RowsAreEarned
    BY DEF ServiceInv, TablesOK
  <2>2. CASE rows' = rows
    BY <2>1, <2>2 DEF RowsAreEarned
  <2>3. CASE rows' = [rows EXCEPT ![target[r]] = row]
    <3>1. /\ rows' \in [Sessions -> Evidence \cup {NoRow}] /\ rows'[target[r]] = row
          /\ \A s \in Sessions : s # target[r] => rows'[s] = rows[s]
      BY <1>6, <1>7, <2>1, <2>3
    <3> QED
      BY <1>7, <2>1, <3>1 DEF RowsAreEarned
  <2> QED
    BY <1>1, <2>2, <2>3
<1>9. TablesOK'
  BY <1>1, <1>8 DEF EndInsert, ServiceInv, TablesOK
<1>10. \A q \in shut' : is_paused(target[q])'
  BY <1>1, <1>2, <1>6 DEF ServiceInv, ShutOut, TablesOK, RequestsOK, StoreStep, PauseKept
<1> QED
  BY <1>1, <1>2, <1>3, <1>5, <1>6, <1>8, <1>9, <1>10, HandlerStep DEF StoreStep

\* The answer `completed` comes with the deletion of the context.
LEMMA EndDeleteInv ==
    ASSUME ServiceInv, NEW r \in Requests, EndDelete(r)
    PROVE  ServiceInv'
<1>1. pc[r] = "e_delete"
  BY DEF EndDelete, At
<1>2. MemoryStep(r) /\ RestUnchanged /\ twapLock' # r
  BY <1>1, MemoryAlone DEF EndDelete, ServiceInv, RestUnchanged, ghostVars
<1>3. CASE UNCHANGED storeVars /\ Answer(r, "error")
  <2>1. StoreStep /\ RequestStep(r)
    BY <1>2, <1>3, StoreAlone, AnswerMoves DEF ServiceInv, Outcomes
  <2> QED
    BY <1>1, <1>2, <2>1, RestStep
<1>4. CASE delete_session(target[r]) /\ Answer(r, "completed")
  <2>1. target[r] \in Sessions /\ target' = target
    BY <1>4 DEF ServiceInv, RequestsOK, Answer
  <2>2. "lookup" \in DeletedKeys /\ "paused" \notin DeletedKeys
    BY DEF DeletedKeys, ContextKeys, DataKeys
  <2>3. StoreStep /\ HasSession(target[r])' = FALSE
    <3>1. DeleteKeys(target[r], DeletedKeys) /\ StoreTypeOK
      BY <1>4 DEF delete_session, ServiceInv
    <3>2. /\ StoreTypeOK' /\ NoNewContext
          /\ \A t \in Sessions : is_paused(t) => is_paused(t)'
      BY <2>1, <2>2, <3>1, DeleteStep
    <3>3. keys'[target[r]] = keys[target[r]] \ DeletedKeys
      BY <2>1, <3>1 DEF DeleteKeys, StoreTypeOK
    <3> QED
      BY <2>1, <2>2, <3>2, <3>3 DEF StoreStep, PauseKept, HasSession
  <2>4. RequestStep(r)
    <3>1. Moves(r, "done", EmptyLocal, "completed")
      BY <1>4 DEF Answer, Moves, ServiceInv, RequestsOK
    <3>2. /\ "done" \in Steps \ {"new"} /\ "done" \notin ClaimSteps \cup {"e_twap"}
          /\ "completed" \in Outcomes
      BY DEF Steps, ClaimSteps, Outcomes
    <3>3. Backed("done", EmptyLocal)
      BY <3>2 DEF Backed
    <3> QED
      BY <1>2, <2>3, <3>1, <3>2, <3>3, EmptyLocalType DEF RequestStep
  <2> QED
    BY <1>1, <1>2, <2>3, <2>4, RestStep
<1> QED
  BY <1>3, <1>4 DEF EndDelete

\* A dropped handler gives the lock back.
LEMMA DisconnectInv ==
    ASSUME ServiceInv, NEW r \in Requests, Disconnect(r)
    PROVE  ServiceInv'
<1>1. /\ pc[r] \notin {"new", "done"} /\ Answer(r, "aborted")
      /\ twapLock' = (IF twapLock = r THEN Nobody ELSE twapLock)
      /\ twapSessions' = twapSessions /\ activeCount' = activeCount
  BY DEF Disconnect
<1>2. StoreStep /\ RestUnchanged
  BY StoreAlone DEF Disconnect, ServiceInv, RestUnchanged, ghostVars
<1>3. MemoryStep(r) /\ twapLock' # r
  BY <1>1, ServiceAssumption DEF ServiceInv, MemoryOK, MemoryStep
<1>4. RequestStep(r)
  BY <1>1, <1>3, AnswerMoves DEF ServiceInv, Outcomes
<1> QED
  BY <1>1, <1>2, <1>3, <1>4, RestStep

\* A request arrives: it holds nothing yet, and remembers a flag that is set.
LEMMA ArriveInv ==
    ASSUME ServiceInv, NEW r \in Requests, NEW x \in {"s_lookup", "p_auth", "e_lookup"},
           Arrive(r, x),
           \/ shut' = shut
           \/ x = "s_lookup" /\ is_paused(target[r]) /\ shut' = shut \cup {r}
    PROVE  ServiceInv'
<1>1. /\ pc[r] = "new" /\ creating[target[r]] = "live" /\ target' = target
      /\ rows' = rows /\ creating' = creating /\ signedBy' = signedBy
  BY DEF Arrive, At
<1>2. StoreStep /\ MemoryStep(r) /\ twapLock' # r
  BY <1>1, StoreAlone, MemoryAlone DEF Arrive, ServiceInv
<1>3. r \notin shut
  BY <1>1, NotShut
<1>4. RequestStep(r)
  <2>1. local[r] \in Locals /\ outcome[r] \in Outcomes /\ outcome[r] # "completed"
    BY <1>1 DEF ServiceInv, RequestsOK, Gone
  <2>2. Moves(r, x, local[r], outcome[r])
    BY DEF Arrive, Moves, ServiceInv, RequestsOK
  <2>3. x \in Steps \ {"new"} /\ x \notin ClaimSteps \cup {"e_twap"} /\ x # "s_sample"
    BY DEF Steps, SubmitSteps, ControlSteps, EndSteps, ClaimSteps
  <2>4. Backed(x, local[r])
    BY <2>3 DEF Backed, ClaimSteps
  <2> QED
    BY <1>2, <1>3, <2>1, <2>2, <2>3, <2>4 DEF RequestStep
<1>5. TablesOK'
  BY DEF Arrive, ServiceInv, TablesOK
<1>6. RowsAreEarned'
  BY <1>1 DEF ServiceInv, RowsAreEarned
<1>7. \A q \in shut' : is_paused(target[q])'
  BY <1>1, <1>2 DEF ServiceInv, ShutOut, TablesOK, RequestsOK, StoreStep, PauseKept
<1> QED
  BY <1>1, <1>2, <1>4, <1>5, <1>6, <1>7, HandlerStep DEF StoreStep
-----------------------------------------------------------------------------
(* Creation, time and failure.                                              *)

\* A step of one session, of no request: a context or a calculator appears only
\* while the session is being created, when no request is about it.
LEMMA SessionStep ==
    ASSUME ServiceInv, NEW s \in Sessions,
           NEW c \in {"commit", "insert", "live", "failed"},
           UNCHANGED <<requestVars, signedBy, rows, hasNode, restarts, twapLock>>,
           StoreTypeOK', MemoryOK',
           creating' = [creating EXCEPT ![s] = c], creating[s] = "live" => c = "live",
           \A t \in Sessions : HasSession(t)' =>
               HasSession(t) \/ (t = s /\ creating[s] # "live"),
           \A t \in Sessions : \/ twapSessions'[t] = twapSessions[t]
                               \/ t = s /\ creating[s] # "live" /\ c = "live",
           shut' \subseteq shut, \A q \in shut' : is_paused(target[q])'
    PROVE  ServiceInv'
<1>1. /\ creating \in [Sessions -> {"unborn", "commit", "insert", "live", "failed"}]
      /\ creating'[s] = c
      /\ \A t \in Sessions : t # s => creating'[t] = creating[t]
  BY DEF ServiceInv, TablesOK
<1>2. /\ pc' = pc /\ target' = target /\ local' = local /\ outcome' = outcome
      /\ rows' = rows /\ signedBy' = signedBy
      /\ target \in [Requests -> Sessions]
  BY DEF ServiceInv, RequestsOK, requestVars
<1>3. RequestsOK'
  BY DEF ServiceInv, RequestsOK, requestVars
<1>4. TablesOK'
  BY <1>1 DEF ServiceInv, TablesOK
<1>5. Started'
  BY <1>1, <1>2 DEF ServiceInv, Started
<1>6. OneClaim'
  <2> SUFFICES ASSUME NEW t \in Sessions
               PROVE  /\ creating'[t] # "live" => twapSessions'[t] = Absent
                      /\ creating'[t] # "live" \/ twapSessions'[t] # Absent => Claims(t)' = {}
                      /\ \A p, q \in Claims(t)' : p = q
    BY DEF OneClaim
  <2>1. Claims(t)' = Claims(t)
    BY <1>2 DEF Claims
  <2>2. /\ creating[t] # "live" => twapSessions[t] = Absent
        /\ creating[t] # "live" \/ twapSessions[t] # Absent => Claims(t) = {}
        /\ \A p, q \in Claims(t) : p = q
    BY DEF ServiceInv, OneClaim
  <2> QED
    BY <1>1, <2>1, <2>2
<1>7. LockHeld'
  BY <1>2 DEF ServiceInv, LockHeld, Started
<1>8. EvidenceHeld' /\ RowsAreEarned'
  BY <1>2 DEF ServiceInv, EvidenceHeld, RowsAreEarned
<1>9. Gone'
  BY <1>2 DEF ServiceInv, Gone, Started
<1>10. ShutOut'
  BY <1>2 DEF ServiceInv, ShutOut
<1> QED
  BY <1>3, <1>4, <1>5, <1>6, <1>7, <1>8, <1>9, <1>10 DEF ServiceInv

\* A context or a commitment is written.
LEMMA CreateStore ==
    ASSUME StoreTypeOK, NEW s \in Sessions, create_session(s) \/ set_commit(s)
    PROVE  /\ StoreTypeOK' /\ PauseKept
           /\ \A t \in Sessions : HasSession(t)' => HasSession(t) \/ t = s
<1>1. PICK new \in SUBSET ContextKeys : keys' = [keys EXCEPT ![s] = keys[s] \cup new]
  BY DEF create_session, set_commit, ContextKeys
<1>2. /\ keys'[s] = keys[s] \cup new
      /\ \A t \in Sessions : t # s => keys'[t] = keys[t]
      /\ keys' \in [Sessions -> SUBSET (ContextKeys \cup DataKeys)]
  BY <1>1 DEF StoreTypeOK
<1>3. committed' \in [Sessions -> BOOLEAN] /\ proofList' \in [Sessions -> SUBSET Proofs]
  BY DEF create_session, set_commit, StoreTypeOK
<1> QED
  BY <1>2, <1>3 DEF StoreTypeOK, PauseKept, HasSession, is_paused

LEMMA CreateInv ==
    ASSUME ServiceInv, NEW s \in Sessions,
           CreateKeys(s) \/ CreateCommit(s) \/ CreateFails(s) \/ CreateCalculator(s)
    PROVE  ServiceInv'
<1>1. PICK c \in {"commit", "insert", "live", "failed"} :
        creating' = [creating EXCEPT ![s] = c]
  BY DEF CreateKeys, CreateCommit, CreateFails, CreateCalculator
<1>2. /\ creating[s] # "live" /\ shut' = shut /\ target' = target
      /\ UNCHANGED <<requestVars, signedBy, rows, hasNode, restarts, twapLock>>
  BY DEF CreateKeys, CreateCommit, CreateFails, CreateCalculator, ghostVars, memoryVars, requestVars
<1>3. /\ StoreTypeOK' /\ PauseKept
      /\ \A t \in Sessions : HasSession(t)' => HasSession(t) \/ t = s
  BY CreateStore, StoreAlone
     DEF CreateKeys, CreateCommit, CreateFails, CreateCalculator, ServiceInv, StoreStep, NoNewContext
<1>4. \A q \in shut' : is_paused(target[q])'
  BY <1>2, <1>3 DEF ServiceInv, ShutOut, TablesOK, RequestsOK, PauseKept
<1>5. MemoryOK' /\ \A t \in Sessions : \/ twapSessions'[t] = twapSessions[t]
                                       \/ t = s /\ creating'[s] = "live"
  <2>1. CASE UNCHANGED memoryVars
    <3>1. twapSessions' = twapSessions /\ twapLock' = twapLock /\ activeCount' = activeCount
      BY <2>1 DEF memoryVars
    <3>2. MemoryOK'
      BY <3>1 DEF ServiceInv, MemoryOK
    <3> QED
      BY <3>1, <3>2
  <2>2. CASE CreateCalculator(s)
    BY <2>2, ServiceAssumption DEF CreateCalculator, ServiceInv, MemoryOK, TablesOK
  <2> QED
    BY <2>1, <2>2 DEF CreateKeys, CreateCommit, CreateFails
<1>6. creating'[s] = c
  BY <1>1 DEF ServiceInv, TablesOK
<1> QED
  BY <1>1, <1>2, <1>3, <1>4, <1>5, <1>6, SessionStep

\* Keys expire.  The flag takes the submissions that met it along.
LEMMA ExpiryInv ==
    ASSUME ServiceInv, NEW s \in Sessions, NEW k \in DataKeys \cup {"commit"},
           ContextExpires(s) \/ DataExpires(s, k)
    PROVE  ServiceInv'
<1>1. /\ creating[s] \in {"commit", "insert", "live", "failed"} /\ creating' = creating
      /\ target' = target /\ UNCHANGED memoryVars
      /\ UNCHANGED <<requestVars, signedBy, rows, hasNode, restarts, twapLock>>
  BY DEF ContextExpires, DataExpires, ghostVars, memoryVars, requestVars, ServiceInv, TablesOK
<1>2. PICK gone : /\ DeleteKeys(s, gone)
                  /\ shut' = (IF "paused" \in gone THEN {q \in shut : target[q] # s} ELSE shut)
  <2>1. CASE ContextExpires(s)
    BY <2>1 DEF ContextExpires, ContextKeys, ghostVars
  <2>2. CASE DataExpires(s, k)
    BY <2>2 DEF DataExpires
  <2> QED
    BY <2>1, <2>2
<1>3. /\ StoreTypeOK' /\ NoNewContext
      /\ \A t \in Sessions : is_paused(t) /\ (t # s \/ "paused" \notin gone) => is_paused(t)'
  BY <1>2, DeleteStep DEF ServiceInv
<1>4. shut' \subseteq shut /\ \A q \in shut' : is_paused(target[q])'
  BY <1>1, <1>2, <1>3 DEF ServiceInv, ShutOut, TablesOK, RequestsOK
<1>5. creating' = [creating EXCEPT ![s] = creating[s]]
  BY <1>1 DEF ServiceInv, TablesOK
<1>6. MemoryOK' /\ twapSessions' = twapSessions
  BY <1>1 DEF ServiceInv, MemoryOK, memoryVars
<1>7. \A t \in Sessions : /\ HasSession(t)' => HasSession(t) \/ (t = s /\ creating[s] # "live")
                          /\ \/ twapSessions'[t] = twapSessions[t]
                             \/ t = s /\ creating[s] # "live" /\ creating[s] = "live"
  BY <1>3, <1>6 DEF NoNewContext
<1>8. PICK c \in {"commit", "insert", "live", "failed"} : c = creating[s]
  BY <1>1
<1> QED
  BY <1>1, <1>3, <1>4, <1>5, <1>6, <1>7, <1>8, SessionStep

\* A restart takes every calculator, the lock and every handler.
LEMMA RestartInv ==
    ASSUME ServiceInv, Restart
    PROVE  ServiceInv'
<1>1. /\ target' = target /\ signedBy' = signedBy /\ shut' = shut /\ rows' = rows
      /\ keys' = keys
  BY DEF Restart, ghostVars, storeVars
<1>2. \A r \in Requests : /\ pc'[r] = (IF pc[r] = "new" THEN "new" ELSE "done")
                          /\ local'[r] = EmptyLocal
                          /\ outcome'[r] = (IF pc[r] \in {"new", "done"} THEN outcome[r] ELSE "aborted")
  BY DEF Restart
<1>3. /\ twapLock' = Nobody /\ \A s \in Sessions : twapSessions'[s] = Absent
      /\ \A s \in Sessions : creating[s] = "live" => creating'[s] = "live"
  BY DEF Restart
<1>4. StoreTypeOK'
  BY DEF Restart, ServiceInv, StoreTypeOK, storeVars
<1>5. RequestsOK'
  BY EmptyLocalType DEF Restart, ServiceInv, RequestsOK, Steps, Outcomes
<1>6. MemoryOK'
  BY DEF Restart, MemoryOK
<1>7. TablesOK'
  BY ServiceAssumption DEF Restart, ServiceInv, TablesOK, ghostVars
<1>8. Started'
  BY <1>1, <1>2, <1>3 DEF ServiceInv, Started, RequestsOK
<1>9. OneClaim'
  <2> SUFFICES ASSUME NEW s \in Sessions
               PROVE  /\ creating'[s] # "live" => Claims(s)' = {}
                      /\ \A p, q \in Claims(s)' : p = q
    BY <1>3 DEF OneClaim
  <2>1. Claims(s)' \subseteq Claims(s)
    BY <1>1, <1>2 DEF Claims, ClaimSteps
  <2>2. /\ creating[s] # "live" => Claims(s) = {}
        /\ \A p, q \in Claims(s) : p = q
    BY DEF ServiceInv, OneClaim
  <2> QED
    BY <1>3, <2>1, <2>2
<1>10. LockHeld'
  BY <1>2, <1>3, ServiceAssumption DEF LockHeld
<1>11. EvidenceHeld'
  BY <1>2 DEF EvidenceHeld, Backed, ClaimSteps
<1>12. RowsAreEarned'
  BY <1>1 DEF ServiceInv, RowsAreEarned
<1>13. Gone'
  BY <1>1, <1>2 DEF ServiceInv, Gone, HasSession
<1>14. ShutOut'
  BY <1>1, <1>2 DEF ServiceInv, ShutOut, TablesOK, is_paused
<1> QED
  BY <1>4, <1>5, <1>6, <1>7, <1>8, <1>9, <1>10, <1>11, <1>12, <1>13, <1>14 DEF ServiceInv

\* Every step of the service keeps the invariant.
LEMMA ServiceInvStep == ServiceInv /\ [ServiceNext]_serviceVars => ServiceInv'
<1> SUFFICES ASSUME ServiceInv, [ServiceNext]_serviceVars
             PROVE  ServiceInv'
  OBVIOUS
<1>1. ASSUME NEW r \in Requests, SubmitArrives(r) \/ ControlArrives(r) \/ EndArrives(r)
      PROVE  ServiceInv'
  BY <1>1, ArriveInv DEF SubmitArrives, ControlArrives, EndArrives
<1>2. ASSUME NEW r \in Requests, SubmitLookup(r) \/ ControlAuthorize(r) \/ EndLookup(r)
      PROVE  ServiceInv'
  <2>1. CASE SubmitLookup(r)
    BY <2>1, LookupInv DEF SubmitLookup
  <2>2. CASE ControlAuthorize(r)
    <3>1. r \notin shut
      BY <2>2, NotShut DEF ControlAuthorize, Lookup, At
    <3> QED
      BY <2>2, <3>1, LookupInv DEF ControlAuthorize
  <2>3. CASE EndLookup(r)
    <3>1. r \notin shut
      BY <2>3, NotShut DEF EndLookup, Lookup, At
    <3> QED
      BY <2>3, <3>1, LookupInv DEF EndLookup
  <2> QED
    BY <1>2, <2>1, <2>2, <2>3
<1>3. ASSUME NEW r \in Requests, Step(r)
      PROVE  ServiceInv'
  BY <1>2, <1>3, SubmitPausedInv, SubmitCountInv, SubmitRecordInv, SubmitReadInv, SubmitStoreInv,
     SubmitLockInv, PauseWriteInv, ResumeWriteInv, EndRevealInv, EndTakeTwapInv, EndProofsInv,
     EndAttestInv, EndCeilingInv, EndInsertInv, EndDeleteInv DEF Step
<1>4. ASSUME NEW s \in Sessions,
             \/ CreateKeys(s) \/ CreateCommit(s) \/ CreateFails(s) \/ CreateCalculator(s)
             \/ ContextExpires(s)
             \/ \E k \in DataKeys \cup {"commit"} : DataExpires(s, k)
      PROVE  ServiceInv'
  <2>1. DataKeys \cup {"commit"} # {}
    OBVIOUS
  <2> QED
    BY <1>4, <2>1, CreateInv, ExpiryInv
<1>5. CASE UNCHANGED serviceVars
  <2>1. \A s \in Sessions : Claims(s)' = Claims(s)
    BY <1>5 DEF serviceVars, requestVars, ghostVars, Claims
  <2>2. OneClaim'
    BY <1>5, <2>1 DEF ServiceInv, OneClaim, serviceVars, memoryVars
  <2> QED
    BY <1>5, <2>2 DEF serviceVars, storeVars, memoryVars, requestVars, ghostVars, ServiceInv, StoreTypeOK,
       RequestsOK, MemoryOK, TablesOK, Started, LockHeld, EvidenceHeld, RowsAreEarned, Gone, ShutOut,
       HasSession, is_paused
<1> QED
  BY <1>1, <1>3, <1>4, <1>5, SubmitSampleInv, DisconnectInv, RestartInv DEF ServiceNext
-----------------------------------------------------------------------------
(* The theorems.                                                            *)

\* The inductive invariant of the session handlers: the calculator in the map is
\* the one right to sign, the map's lock belongs to the submission that samples,
\* and end_session has its evidence in hand at every step
\* (verification-service/src/lib.rs, create_session to end_session).
THEOREM ServiceInvariant == ServiceSpec => []ServiceInv
BY ServiceInvInit, ServiceInvStep, PTL DEF ServiceSpec

\* The state of the handlers, of Redis and of mint_proposals is well typed; in
\* particular a sample is never added to a calculator that is not in the map
\* (the write lock submit_proof holds while it reads the oracle).
THEOREM ServiceTypes == ServiceSpec => []ServiceTypeOK
<1>1. ServiceInv => ServiceTypeOK
  BY TypeParts DEF ServiceInv
<1> QED
  BY <1>1, ServiceInvariant, PTL

\* However many end_session requests race, fail, are retried or meet a restart,
\* at most one of them signs a mint proposal for a session (the removal from
\* twap_sessions in end_session).
THEOREM OneProposal == ServiceSpec => []OneProposalPerSession
<1>1. ServiceInv => OneProposalPerSession
  <2> SUFFICES ASSUME ServiceInv, NEW s \in Sessions
               PROVE  Cardinality(signedBy[s]) <= 1
    BY DEF OneProposalPerSession
  <2>1. \A p, q \in signedBy[s] : p = q
    BY DEF ServiceInv, OneClaim, Claims
  <2>2. CASE signedBy[s] = {}
    BY <2>2, FS_EmptySet
  <2>3. CASE signedBy[s] # {}
    <3>1. PICK q : signedBy[s] = {q}
      BY <2>1, <2>3
    <3>2. Cardinality({q}) = 1
      BY FS_Singleton
    <3> QED
      BY <3>1, <3>2
  <2> QED
    BY <2>2, <2>3
<1> QED
  BY <1>1, ServiceInvariant, PTL

\* Every row of mint_proposals rests on a matching reveal, a price sample, a
\* stored proof and a full attestation of the request that wrote it (the early
\* returns of end_session).
THEOREM EarnedRows == ServiceSpec => []RowsAreEarned
<1>1. ServiceInv => RowsAreEarned
  BY DEF ServiceInv
<1> QED
  BY <1>1, ServiceInvariant, PTL

\* Once end_session answered `completed` the session is never found again
\* (delete_session as its last step; ids are not created twice).
THEOREM CompletedStaysGone == ServiceSpec => []CompletedIsGone
<1>1. ServiceInv => CompletedIsGone
  BY DEF ServiceInv, Gone, CompletedIsGone
<1> QED
  BY <1>1, ServiceInvariant, PTL

\* A submission that met the paused flag gets nothing past is_paused until the
\* session is resumed or the flag expires (is_paused in submit_proof).
THEOREM PauseShutsOut == ServiceSpec => []PauseHolds
<1>1. ServiceInv => PauseHolds
  BY DEF ServiceInv, ShutOut, PauseHolds
<1> QED
  BY <1>1, ServiceInvariant, PTL
=============================================================================
