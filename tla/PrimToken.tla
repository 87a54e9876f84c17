------------------------------ MODULE PrimToken ------------------------------
(***************************************************************************)
(* The PRM token, contracts/src/PrimToken.sol: an ERC-20 with one minter   *)
(* and one burner, both set by the owner.  A call that reverts leaves the  *)
(* chain as it was, so it is no step: every check is a conjunct.           *)
(* A call of another contract uses Mint and Burn as part of its own step.  *)
(***************************************************************************)
EXTENDS Integers, Functions

CONSTANTS
    Accounts,      \* every address the model tells apart
    ZeroAddress    \* address(0)

ASSUME AccountsAssumption == ZeroAddress \notin Accounts

VARIABLES
    minter,        \* the one address that may mint
    burner,        \* the one address that may burn
    balanceOf,     \* ERC-20 balances
    totalSupply,   \* ERC-20 total supply
    issued,        \* history: what each account minted as the caller of mint
    retired        \* history: what each account burned as the caller of burn

books == <<balanceOf, totalSupply, issued, retired>>
tokenVars == <<minter, burner, books>>

TokenTypeOK ==
    /\ minter \in Accounts \cup {ZeroAddress}
    /\ burner \in Accounts \cup {ZeroAddress}
    /\ balanceOf \in [Accounts -> Nat]
    /\ totalSupply \in Nat
    /\ issued \in [Accounts -> Nat]
    /\ retired \in [Accounts -> Nat]

\* No pre-mint: the supply starts at zero and nobody may mint yet.
TokenInit ==
    /\ minter = ZeroAddress
    /\ burner = ZeroAddress
    /\ balanceOf = [a \in Accounts |-> 0]
    /\ totalSupply = 0
    /\ issued = [a \in Accounts |-> 0]
    /\ retired = [a \in Accounts |-> 0]

SetMinter(newMinter) ==
    /\ newMinter # ZeroAddress
    /\ minter' = newMinter
    /\ UNCHANGED <<burner, books>>

SetBurner(newBurner) ==
    /\ newBurner # ZeroAddress
    /\ burner' = newBurner
    /\ UNCHANGED <<minter, books>>

\* A mutated form of Mint: the supply is not raised with the balance.
Mint_SupplyForgotten(sender, to, amount) ==
    /\ sender = minter
    /\ to # ZeroAddress
    /\ balanceOf' = [balanceOf EXCEPT ![to] = @ + amount]
    /\ issued' = [issued EXCEPT ![sender] = @ + amount]
    /\ UNCHANGED <<minter, burner, totalSupply, retired>>

Mint(sender, to, amount) ==
    /\ sender = minter
    /\ to # ZeroAddress
    /\ balanceOf' = [balanceOf EXCEPT ![to] = @ + amount]
    /\ totalSupply' = totalSupply + amount
    /\ issued' = [issued EXCEPT ![sender] = @ + amount]
    /\ UNCHANGED <<minter, burner, retired>>

\* ERC-20 transfer and transferFrom (OpenZeppelin): the allowance is there, or
\* the call reverts and is no step.
Transfer(from, to, amount) ==
    /\ to # ZeroAddress
    /\ amount <= balanceOf[from]
    /\ balanceOf' = [a \in Accounts |->
           balanceOf[a] + (IF a = to THEN amount ELSE 0) - (IF a = from THEN amount ELSE 0)]
    /\ UNCHANGED <<minter, burner, totalSupply, issued, retired>>

Burn(sender, from, amount) ==
    /\ sender = burner
    /\ from # ZeroAddress
    /\ amount <= balanceOf[from]
    /\ balanceOf' = [balanceOf EXCEPT ![from] = @ - amount]
    /\ totalSupply' = totalSupply - amount
    /\ retired' = [retired EXCEPT ![sender] = @ + amount]
    /\ UNCHANGED <<minter, burner, issued>>

\* The books are closed: the balances add up to the supply, and the supply to
\* what was minted less what was burned.
BooksClosed ==
    /\ totalSupply = SumFunctionOnSet(balanceOf, Accounts)
    /\ totalSupply + SumFunctionOnSet(retired, Accounts) = SumFunctionOnSet(issued, Accounts)

\* What everybody but the given contract may do with the token: a holder sends
\* tokens to any account, the contract included; a minter or a burner other than
\* the contract mints to, or burns from, any account.
OutsideCall(contract, account, amount) ==
    \E caller \in Accounts \ {contract} :
        \/ Transfer(caller, account, amount)
        \/ Mint(caller, account, amount)
        \/ Burn(caller, account, amount)
=============================================================================
