------------------------------ MODULE Accounts ------------------------------
(***************************************************************************)
(* The addresses and the numbers that Dca and Escrow speak of.             *)
(***************************************************************************)
EXTENDS Integers

CONSTANTS
    Senders,        \* the wallets that sign deposits and swaps
    DcaAccounts,    \* addresses (keypairs) usable as dca_account
    Mints,          \* SPL mints, the native mint excepted
    Wsol,           \* the native mint (So111...112)
    Absent,         \* an address with no account of the program
    Amounts,        \* amounts that deposits and swaps are called with
    MaxU64          \* the largest u64

Assets == Mints \cup {Wsol}
U64 == 0 .. MaxU64

(* A vault is the address derived from a sender and a dca account.         *)
Vaults == Senders \X DcaAccounts

(* What a dca account stands for.  active: its plan may be carried out.    *)
Orders == [owner: Senders, asset: Assets, amount: U64, active: BOOLEAN]

ASSUME AccountsAssumption ==
    /\ MaxU64 \in Nat
    /\ Amounts \subseteq U64
    /\ Wsol \notin Mints
    /\ Absent \notin Orders

=============================================================================
