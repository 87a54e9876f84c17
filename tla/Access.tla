------------------------------- MODULE Access -------------------------------
(***************************************************************************)
(* Who gets in: the admin layer and the admission of sessions in one       *)
(* process that crashes, restarts and may find another environment.        *)
(***************************************************************************)
EXTENDS AdminAuth, Admission

accessVars == <<lifeVars, authVars, admissionVars>>

\* The admin layer and the admission of sessions keep to their types, and the
\* running service to what main builds.
AccessTypeOK ==
    /\ LifeTypeOK
    /\ AuthTypeOK
    /\ AdmissionTypeOK

AccessInit ==
    /\ LifeInit
    /\ AuthInit
    /\ AdmissionInit

Start(env) ==
    /\ main(env)
    /\ UNCHANGED <<authVars, admissionVars>>

Crash ==
    /\ service # None
    /\ service' = None
    /\ UNCHANGED <<now, starts>>
    /\ AuthLost
    /\ AdmissionLost

Tick ==
    /\ now < MaxTime
    /\ now' = now + 1
    /\ UNCHANGED <<service, starts, authVars>>
    /\ ExpireKeys

AccessNext ==
    \/ \E env \in Environments : Start(env)
    \/ Crash
    \/ Tick
    \/ AuthNext /\ UNCHANGED admissionVars
    \/ AdmissionNext /\ UNCHANGED authVars

AccessSpec == AccessInit /\ [][AccessNext]_accessVars
=============================================================================
