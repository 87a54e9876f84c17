---------------------------- MODULE PayoutLedger ----------------------------
(***************************************************************************)
(* What the mint pipeline promises, with nothing of how it works: the      *)
(* backend settles a session for an amount, once; a settled session is     *)
(* paid at most once, exactly that amount, or never.                       *)
(***************************************************************************)
EXTENDS Integers

CONSTANTS
    Sessions,
    Amounts,    \* amounts a session may be settled for
    Unsettled   \* what `due` holds for a session that was not settled

VARIABLES
    due,        \* per session, the amount settled
    paid        \* per session, what was minted for it, 0 if nothing

LedgerInit ==
    /\ due = [s \in Sessions |-> Unsettled]
    /\ paid = [s \in Sessions |-> 0]

SettleSession(s, amount) ==
    /\ due[s] = Unsettled
    /\ due' = [due EXCEPT ![s] = amount]
    /\ UNCHANGED paid

PaySession(s) ==
    /\ due[s] # Unsettled
    /\ paid[s] = 0
    /\ paid' = [paid EXCEPT ![s] = due[s]]
    /\ UNCHANGED due

LedgerNext ==
    \E s \in Sessions :
        \/ \E amount \in Amounts : SettleSession(s, amount)
        \/ PaySession(s)

LedgerSpec == LedgerInit /\ [][LedgerNext]_<<due, paid>>
=============================================================================
