-------------------------------- MODULE Dca --------------------------------
(***************************************************************************)
(* The dca-anchor program (src/programs/dca-anchor/src/lib.rs) together    *)
(* with the accounts it owns or moves value between.  One action is one    *)
(* transaction: the runtime validates the accounts of the instruction,     *)
(* creates the missing ones, runs the handler and the programs it calls,   *)
(* and either keeps everything or, on any error, nothing.                  *)
(*                                                                         *)
(* Account arguments are the ones the repository's clients derive: the     *)
(* vault is the address derived from the sender and the dca account, and   *)
(* token accounts are associated token accounts.  The runtime, the system, *)
(* token and associated-token programs and the AMM are not in the          *)
(* repository; they are modelled from how lib.rs calls them.               *)
(***************************************************************************)
EXTENDS Accounts

CONSTANTS
    Plans,          \* values of <<start_time, dca_amount, dca_time>>
    NoPlan,         \* the three plan fields, zero
    NoKey,          \* the default (all zero) Pubkey
    DcaRent,        \* rent of a 114-byte dca account
    VaultRent,      \* rent of a 0-byte vault account
    AtaRent,        \* rent of a token account, its rent_exempt_reserve
    SolSupply,      \* lamports every sender starts with
    TokenSupply     \* tokens of every mint every sender starts with

VARIABLES
    dca,        \* dca account -> its DcaData, or Absent
    vaults,     \* the vault accounts that exist
    open,       \* vault -> assets it has an associated token account for
    held,       \* vault -> mint -> amount in vault_token_ata
    wrap,       \* vault -> vault_wrap_ata: its lamports and its amount
    sol,        \* sender -> lamports
    purse,      \* sender -> mint -> amount in sender_ata
    last        \* the instruction that ran last, and how it ended

vars == <<dca, vaults, open, held, wrap, sol, purse, last>>
ledger == <<dca, vaults, open, held, wrap, sol, purse>>

DcaData == [total_amount: U64, sender_account: Senders \cup {NoKey},
            mint_address: Mints \cup {NoKey}, plan: Plans \cup {NoPlan},
            flag: 0 .. 2, state: BOOLEAN]

ASSUME DcaAssumption ==
    /\ {DcaRent, VaultRent, AtaRent, SolSupply, TokenSupply} \subseteq U64
    /\ NoPlan \notin Plans
    /\ NoKey \notin Senders \cup Mints
    /\ Absent \notin DcaData

(* A dca account as init_if_needed creates it: every field zero.           *)
ZeroDca == [total_amount |-> 0, sender_account |-> NoKey, mint_address |-> NoKey,
            plan |-> NoPlan, flag |-> 0, state |-> FALSE]

Operations == {"none", "ata", "lamports", "sync", "deposit_token", "deposit_sol",
               "initialize_dca", "swap_from_sol"}
Outcomes == {"ok", "refused", "cpi_failed"}

TypeOK ==
    /\ dca \in [DcaAccounts -> DcaData \cup {Absent}]
    /\ vaults \subseteq Vaults
    /\ open \in [Vaults -> SUBSET Assets]
    /\ held \in [Vaults -> [Mints -> U64]]
    /\ wrap \in [Vaults -> [lamports: U64, amount: U64]]
    /\ sol \in [Senders -> U64]
    /\ purse \in [Senders -> [Mints -> U64]]
    /\ last \in [op: Operations, outcome: Outcomes]

Init ==
    /\ dca = [d \in DcaAccounts |-> Absent]
    /\ vaults = {}
    /\ open = [v \in Vaults |-> {}]
    /\ held = [v \in Vaults |-> [m \in Mints |-> 0]]
    /\ wrap = [v \in Vaults |-> [lamports |-> 0, amount |-> 0]]
    /\ sol = [s \in Senders |-> SolSupply]
    /\ purse = [s \in Senders |-> [m \in Mints |-> TokenSupply]]
    /\ last = [op |-> "none", outcome |-> "ok"]

Ends(op, outcome) == last' = [op |-> op, outcome |-> outcome]

(* A transaction that fails is undone: accounts it created, fields it set  *)
(* and transfers it made included.                                         *)
Fails(op, outcome) == Ends(op, outcome) /\ UNCHANGED ledger

-----------------------------------------------------------------------------
(* Outside the program: the associated-token, system and token programs.   *)

(* s pays for the associated token account of a vault of its own.          *)
CreateAta(s, d, x) ==
    LET v == <<s, d>> IN
    /\ x \notin open[v]
    /\ sol[s] >= AtaRent
    /\ open' = [open EXCEPT ![v] = @ \cup {x}]
    /\ sol' = [sol EXCEPT ![s] = @ - AtaRent]
    /\ wrap' = IF x = Wsol THEN [wrap EXCEPT ![v] = [lamports |-> AtaRent, amount |-> 0]]
                           ELSE wrap
    /\ Ends("ata", "ok")
    /\ UNCHANGED <<dca, vaults, held, purse>>

(* s sends n lamports to the wrapped-SOL account of v, as anybody can.     *)
SendLamports(s, v, n) ==
    /\ Wsol \in open[v]
    /\ n <= sol[s]
    /\ wrap[v].lamports + n <= MaxU64
    /\ wrap' = [wrap EXCEPT ![v].lamports = @ + n]
    /\ sol' = [sol EXCEPT ![s] = @ - n]
    /\ Ends("lamports", "ok")
    /\ UNCHANGED <<dca, vaults, open, held, purse>>

(* sync_native: the amount becomes the lamports above the rent reserve, and*)
(* it is an error if that would lower it.                                  *)
CanSync(acct) ==
    /\ acct.lamports >= AtaRent
    /\ acct.lamports - AtaRent >= acct.amount
Synced(acct) == [acct EXCEPT !.amount = acct.lamports - AtaRent]

SyncNative(v) ==
    /\ Wsol \in open[v]
    /\ CanSync(wrap[v])
    /\ wrap' = [wrap EXCEPT ![v] = Synced(@)]
    /\ Ends("sync", "ok")
    /\ UNCHANGED <<dca, vaults, open, held, sol, purse>>

-----------------------------------------------------------------------------
(* Account validation.                                                     *)

(* The vault address: seeds = [sender_account, dca_account].               *)
VaultOf(s, d) == <<s, d>>

(* What s pays for the accounts that init_if_needed still has to create.   *)
DcaRentDue(d) == IF dca[d] = Absent THEN DcaRent ELSE 0
RentDue(s, d) == DcaRentDue(d) + (IF VaultOf(s, d) \in vaults THEN 0 ELSE VaultRent)

(* init_if_needed on dca_account: what the handler finds in it.            *)
Opened(d) == IF dca[d] = Absent THEN ZeroDca ELSE dca[d]

(* vault_token_ata and vault_wrap_ata must be token accounts already, and  *)
(* s must be able to pay for the accounts to create.                       *)
(* Variant: the two are not deserialized as token accounts.                 *)
DepositAccountsOKUnopened(s, d, m) == sol[s] >= RentDue(s, d)
DepositAccountsOK(s, d, m) ==
    /\ {m, Wsol} \subseteq open[VaultOf(s, d)]
    /\ sol[s] >= RentDue(s, d)

(* Variants: a deposit that leaves an active plan active, and one that     *)
(* takes the account for what it was created as.                           *)
RecordedStillActive(d, s, m, a, flag) ==
    [Opened(d) EXCEPT !.total_amount = a, !.sender_account = s,
                      !.mint_address = m, !.flag = flag]
RecordedFirstKind(d, s, m, a, flag) ==
    [Opened(d) EXCEPT !.total_amount = a, !.sender_account = s, !.mint_address = m,
                      !.flag = IF @ = 0 THEN flag ELSE @, !.state = FALSE]

(* What either deposit writes into the dca account.  The three plan fields *)
(* keep whatever an earlier initialize_dca left there.                     *)
Recorded(d, s, m, a, flag) ==
    [Opened(d) EXCEPT !.total_amount = a, !.sender_account = s,
                      !.mint_address = m, !.flag = flag, !.state = FALSE]

-----------------------------------------------------------------------------
(* deposit_token: record the deposit, then transfer the tokens.            *)

TokenTransferOK(s, v, m, a) ==
    /\ a <= purse[s][m]
    /\ held[v][m] + a <= MaxU64

DepositTokenOK(s, d, m, a) ==
    LET v == VaultOf(s, d) IN
    /\ DepositAccountsOK(s, d, m)
    /\ TokenTransferOK(s, v, m, a)
    /\ dca' = [dca EXCEPT ![d] = Recorded(d, s, m, a, 2)]
    /\ vaults' = vaults \cup {v}
    /\ sol' = [sol EXCEPT ![s] = @ - RentDue(s, d)]
    /\ purse' = [purse EXCEPT ![s][m] = @ - a]
    /\ held' = [held EXCEPT ![v][m] = @ + a]
    /\ Ends("deposit_token", "ok")
    /\ UNCHANGED <<open, wrap>>

DepositTokenFails(s, d, m, a) ==
    \/ /\ ~DepositAccountsOK(s, d, m)
       /\ Fails("deposit_token", "refused")
    \/ /\ DepositAccountsOK(s, d, m)
       /\ ~TokenTransferOK(s, VaultOf(s, d), m, a)
       /\ Fails("deposit_token", "cpi_failed")

(* deposit_sol: record the deposit, send the lamports to the wrapped-SOL   *)
(* account of the vault, and have the token program count them.  m is the  *)
(* mint to buy; what is deposited is SOL.                                  *)
Funded(acct, a) == [acct EXCEPT !.lamports = @ + a]

(* Variant: the balance is compared with the amount alone.                  *)
SolTransferOKNoRent(s, d, a) ==
    LET acct == wrap[VaultOf(s, d)] IN
    /\ a <= sol[s]
    /\ acct.lamports + a <= MaxU64
    /\ CanSync(Funded(acct, a))

SolTransferOK(s, d, a) ==
    LET acct == wrap[VaultOf(s, d)] IN
    /\ a + RentDue(s, d) <= sol[s]
    /\ acct.lamports + a <= MaxU64
    /\ CanSync(Funded(acct, a))

(* Variant: the call of sync_native is missing.                             *)
DepositSolNoSync(s, d, m, a) ==
    LET v == VaultOf(s, d) IN
    /\ DepositAccountsOK(s, d, m)
    /\ SolTransferOK(s, d, a)
    /\ dca' = [dca EXCEPT ![d] = Recorded(d, s, m, a, 1)]
    /\ vaults' = vaults \cup {v}
    /\ sol' = [sol EXCEPT ![s] = @ - RentDue(s, d) - a]
    /\ wrap' = [wrap EXCEPT ![v] = Funded(@, a)]
    /\ Ends("deposit_sol", "ok")
    /\ UNCHANGED <<open, held, purse>>

DepositSolOK(s, d, m, a) ==
    LET v == VaultOf(s, d) IN
    /\ DepositAccountsOK(s, d, m)
    /\ SolTransferOK(s, d, a)
    /\ dca' = [dca EXCEPT ![d] = Recorded(d, s, m, a, 1)]
    /\ vaults' = vaults \cup {v}
    /\ sol' = [sol EXCEPT ![s] = @ - RentDue(s, d) - a]
    /\ wrap' = [wrap EXCEPT ![v] = Synced(Funded(@, a))]
    /\ Ends("deposit_sol", "ok")
    /\ UNCHANGED <<open, held, purse>>

DepositSolFails(s, d, m, a) ==
    \/ /\ ~DepositAccountsOK(s, d, m)
       /\ Fails("deposit_sol", "refused")
    \/ /\ DepositAccountsOK(s, d, m)
       /\ ~SolTransferOK(s, d, a)
       /\ Fails("deposit_sol", "cpi_failed")

(* initialize_dca: set the plan of an existing dca account.  It compares   *)
(* the plan with nothing and needs no signature of the dca account.        *)
InitializeDca(d, p) ==
    \/ /\ dca[d] # Absent
       /\ dca' = [dca EXCEPT ![d].plan = p, ![d].state = TRUE]
       /\ Ends("initialize_dca", "ok")
       /\ UNCHANGED <<vaults, open, held, wrap, sol, purse>>
    \/ /\ dca[d] = Absent
       /\ Fails("initialize_dca", "refused")

-----------------------------------------------------------------------------
(* swap_from_sol: build the AMM's SwapBaseIn instruction, address it, and  *)
(* invoke it signed by the vault.                                          *)

(* The program the instruction is addressed to: swap_from_sol passes       *)
(* ctx.program_id to the builder, the id of dca-anchor itself.             *)
(* Variant: the id of the AMM.                                              *)
SwapProgramAmm == "amm"
SwapProgram == "dca-anchor"

(* The first byte of the instruction data, from AmmInstruction::pack.      *)
SwapBaseInTag == 9

(* First bytes that a program dispatches on: AmmInstruction::unpack's tags *)
(* for the AMM, the sighash discriminators of the four handlers for        *)
(* dca-anchor.                                                             *)
FirstBytes(program) == IF program = "amm" THEN {0, 3, 4, 9, 10, 11}
                                          ELSE {11, 50, 108, 213}

Dispatches(program, tag) == tag \in FirstBytes(program)

(* The swap the AMM makes when it gets the instruction: it takes exactly   *)
(* amount_in of the source and pays at least minimum_amount_out.           *)
AmmCanSwap(v, m, amountIn, minOut) ==
    /\ {m, Wsol} \subseteq open[v]
    /\ 0 < amountIn /\ amountIn <= wrap[v].amount
    /\ held[v][m] + minOut <= MaxU64

SwapAccountsOK(s, d) == sol[s] >= DcaRentDue(d)

SwapCpiOK(s, d, m, amountIn, minOut) ==
    /\ Dispatches(SwapProgram, SwapBaseInTag)
    /\ AmmCanSwap(VaultOf(s, d), m, amountIn, minOut)

Sold(acct, n) == [lamports |-> acct.lamports - n, amount |-> acct.amount - n]

Swapped(s, d, m, amountIn, minOut) ==
    LET v == VaultOf(s, d) IN
    /\ dca' = [dca EXCEPT ![d] = Opened(d)]
    /\ sol' = [sol EXCEPT ![s] = @ - DcaRentDue(d)]
    /\ wrap' = [wrap EXCEPT ![v] = Sold(@, amountIn)]
    /\ \E out \in minOut .. MaxU64 - held[v][m] :
          held' = [held EXCEPT ![v][m] = @ + out]
    /\ Ends("swap_from_sol", "ok")
    /\ UNCHANGED <<vaults, open, purse>>

(* Nothing of the record is consulted: not flag, state, the plan or the    *)
(* amounts.                                                                *)
SwapFromSol(s, d, m, amountIn, minOut) ==
    \/ /\ ~SwapAccountsOK(s, d)
       /\ Fails("swap_from_sol", "refused")
    \/ /\ SwapAccountsOK(s, d)
       /\ IF SwapCpiOK(s, d, m, amountIn, minOut)
             THEN Swapped(s, d, m, amountIn, minOut)
             ELSE Fails("swap_from_sol", "cpi_failed")

-----------------------------------------------------------------------------
Next ==
    \/ \E s \in Senders, d \in DcaAccounts, x \in Assets : CreateAta(s, d, x)
    \/ \E s \in Senders, v \in Vaults, n \in Amounts : SendLamports(s, v, n)
    \/ \E v \in Vaults : SyncNative(v)
    \/ \E s \in Senders, d \in DcaAccounts, m \in Mints, a \in Amounts :
          DepositTokenOK(s, d, m, a) \/ DepositTokenFails(s, d, m, a)
    \/ \E s \in Senders, d \in DcaAccounts, m \in Mints, a \in Amounts :
          DepositSolOK(s, d, m, a) \/ DepositSolFails(s, d, m, a)
    \/ \E d \in DcaAccounts, p \in Plans : InitializeDca(d, p)
    \/ \E s \in Senders, d \in DcaAccounts, m \in Mints :
          \E amountIn, minOut \in Amounts :
             SwapFromSol(s, d, m, amountIn, minOut)

Spec == Init /\ [][Next]_vars

=============================================================================
