------------------------------ MODULE DcaProps ------------------------------
(***************************************************************************)
(* What the dca-anchor program guarantees, and how Dca implements Escrow.  *)
(***************************************************************************)
EXTENDS Dca

(* The order a record stands for: flag says whether total_amount counts    *)
(* SOL or tokens of mint_address (lib.rs:22, 42, 347).                     *)
AssetOf(rec) == IF rec.flag = 1 THEN Wsol ELSE rec.mint_address

OrderOf(rec) == [owner |-> rec.sender_account, asset |-> AssetOf(rec),
                 amount |-> rec.total_amount, active |-> rec.state]

(* The refinement mapping.  What a vault is credited with is the amount of *)
(* its token accounts: lamports sent to the wrapped account count once     *)
(* they are synced.                                                        *)
credit == [v \in Vaults |->
              [x \in Assets |-> IF x = Wsol THEN wrap[v].amount ELSE held[v][x]]]

order == [d \in DcaAccounts |->
              IF dca[d] = Absent THEN Absent ELSE OrderOf(dca[d])]

E == INSTANCE EscrowProofs WITH credit <- credit, order <- order

(* A recorded deposit is really there: for every dca account that exists,  *)
(* the vault of the recorded sender holds at least total_amount of the     *)
(* asset that flag names, whatever later deposits, overwrites of the       *)
(* record, failures, syncs and swaps did.                                  *)
DepositsBacked == E!Covered

(* The program implements the abstract order book, step by step.           *)
ImplementsEscrow == E!EscrowSpec

(* The account a handler finds is never a blank one: every existing dca    *)
(* account was written by a deposit and its vault can be paid from, since  *)
(* the vault and both its token accounts exist.  swap_from_sol, too,       *)
(* creates the dca account when it is missing (lib.rs:332).                *)
RecordsUsable ==
    \A d \in DcaAccounts :
        dca[d] # Absent =>
            LET v == VaultOf(dca[d].sender_account, d) IN
            /\ dca[d].flag \in {1, 2}
            /\ v \in vaults
            /\ {dca[d].mint_address, Wsol} \subseteq open[v]

(* Wrapped SOL is never counted twice nor against its rent: the amount of  *)
(* a wrapped account stays within its lamports above the reserve.          *)
WrapBacked ==
    \A v \in Vaults :
        IF Wsol \in open[v] THEN CanSync(wrap[v])
                            ELSE wrap[v] = [lamports |-> 0, amount |-> 0]

(* A plan made for one deposit never drives another: whenever a step       *)
(* changes who deposited what in a dca account, initialize_dca has to be   *)
(* called again before the account is active.                              *)
DepositPart(rec) == <<rec.sender_account, rec.mint_address, rec.flag, rec.total_amount>>

PlanNotCarriedOver ==
    [][\A d \in DcaAccounts :
          /\ dca[d] # Absent /\ dca'[d] # Absent
          /\ DepositPart(dca'[d]) # DepositPart(dca[d])
          => ~dca'[d].state]_vars

(* "Function to swap token from sol (WrappedSol -> USDC)" (lib.rs:95): a   *)
(* swap that the AMM could make, for accounts that pass validation, sells  *)
(* the wrapped SOL.                                                        *)
SwapDelivers ==
    [][\A s \in Senders, d \in DcaAccounts, m \in Mints, n, min \in Amounts :
          LET v == VaultOf(s, d) IN
          /\ AmmCanSwap(v, m, n, min)
          /\ SwapFromSol(s, d, m, n, min)
          => wrap'[v].amount = wrap[v].amount - n]_vars

(* "This flag is used for swapping: 1 for sol to mint, 2 for mint to sol"  *)
(* (lib.rs:347): a swap from SOL of a record whose flag is 2 is refused    *)
(* before anything is invoked.                                             *)
FlagDirectsSwap ==
    [][\A s \in Senders, d \in DcaAccounts, m \in Mints, n, min \in Amounts :
          /\ dca[d] # Absent /\ dca[d].flag = 2
          /\ SwapFromSol(s, d, m, n, min)
          => last'.outcome = "refused"]_vars

=============================================================================
