------------------------------- MODULE Escrow -------------------------------
(***************************************************************************)
(* What the dca-anchor program promises to the wallets that deposit into   *)
(* it, with no account, rent or lamport in sight: a bookkeeping of orders  *)
(* over a store of value.  Nothing takes value out of it, as the one       *)
(* instruction that is meant to, swap_from_sol (lib.rs:95), always reverts.*)
(*                                                                         *)
(*   credit   what each vault holds of each asset                          *)
(*   order    the order that each dca account stands for, if any           *)
(*                                                                         *)
(* Dca.tla implements this specification (DcaProofs.tla proves it).        *)
(***************************************************************************)
EXTENDS Accounts

VARIABLES credit, order

escrowVars == <<credit, order>>

EscrowTypeOK ==
    /\ credit \in [Vaults -> [Assets -> U64]]
    /\ order \in [DcaAccounts -> Orders \cup {Absent}]

EscrowInit ==
    /\ credit = [v \in Vaults |-> [x \in Assets |-> 0]]
    /\ order = [d \in DcaAccounts |-> Absent]

(* Nothing but vault v's credit of x changes, and that grows by n or more. *)
Gain(v, x, n) ==
    /\ credit'[v][x] \in U64
    /\ credit'[v][x] >= credit[v][x] + n
    /\ credit' = [credit EXCEPT ![v][x] = credit'[v][x]]

(* s deposits a of x: d now stands for this order, which is not active     *)
(* whatever d stood for before, and the vault of s and d gains at least a. *)
Deposit(s, d, x, a) ==
    /\ order' = [order EXCEPT ![d] =
                    [owner |-> s, asset |-> x, amount |-> a, active |-> FALSE]]
    /\ Gain(<<s, d>>, x, a)

Activate(d) ==
    /\ order[d] # Absent
    /\ order' = [order EXCEPT ![d].active = TRUE]
    /\ UNCHANGED credit

(* Lamports sent to the vault from outside become wrapped SOL.             *)
Accrue(v) ==
    /\ UNCHANGED order
    /\ Gain(v, Wsol, 0)

EscrowNext ==
    \/ \E s \in Senders, d \in DcaAccounts, x \in Assets, a \in Amounts :
          Deposit(s, d, x, a)
    \/ \E d \in DcaAccounts : Activate(d)
    \/ \E v \in Vaults : Accrue(v)

EscrowSpec == EscrowInit /\ [][EscrowNext]_escrowVars

(* Every order is covered: the vault of its owner holds at least its       *)
(* amount, of its asset.                                                   *)
Covered ==
    \A d \in DcaAccounts :
        order[d] # Absent =>
            credit[<<order[d].owner, d>>][order[d].asset] >= order[d].amount

=============================================================================
