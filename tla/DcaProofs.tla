----------------------------- MODULE DcaProofs -----------------------------
(***************************************************************************)
(* For any number of wallets, dca accounts, mints and plans, and any rents *)
(* and balances: Dca keeps its types, never leaves a blank record, backs   *)
(* every wrapped lamport, and implements Escrow; hence every recorded      *)
(* deposit is in its vault.                                                *)
(***************************************************************************)
EXTENDS DcaProps, TLAPS

USE AccountsAssumption

(* -- What the helpers return -------------------------------------------- *)

LEMMA ZeroDcaType == ZeroDca \in DcaData
  BY DEF ZeroDca, DcaData, U64

LEMMA OpenedType ==
  ASSUME TypeOK, NEW d \in DcaAccounts
  PROVE  Opened(d) \in DcaData
  BY ZeroDcaType DEF Opened, TypeOK

LEMMA RentDueType ==
  ASSUME NEW s, NEW d
  PROVE  /\ DcaRentDue(d) \in Nat
         /\ RentDue(s, d) \in Nat
  BY DcaAssumption DEF DcaRentDue, RentDue, U64

(* The wrapped account after a transfer of n lamports, and after a sync.    *)
IsAccount(r, l, n) ==
  /\ r \in [lamports: U64, amount: U64]
  /\ r.lamports = l
  /\ r.amount = n

LEMMA FundedIs ==
  ASSUME NEW acct \in [lamports: U64, amount: U64], NEW n,
         acct.lamports + n \in U64
  PROVE  IsAccount(Funded(acct, n), acct.lamports + n, acct.amount)
  BY DEF Funded, IsAccount

LEMMA SyncedIs ==
  ASSUME NEW acct \in [lamports: U64, amount: U64],
         acct.lamports - AtaRent \in U64
  PROVE  IsAccount(Synced(acct), acct.lamports, acct.lamports - AtaRent)
  BY DEF Synced, IsAccount

(* A deposit's record is a record of the program, for its sender, asset    *)
(* and amount, and inactive.                                               *)
IsDeposit(rec, s, m, a, flag) ==
  /\ rec \in DcaData
  /\ rec # Absent
  /\ rec.flag = flag
  /\ rec.sender_account = s
  /\ rec.mint_address = m
  /\ rec.total_amount = a
  /\ rec.state = FALSE

LEMMA RecordedIs ==
  ASSUME TypeOK, NEW d \in DcaAccounts, NEW s \in Senders, NEW m \in Mints,
         NEW a \in Amounts, NEW flag \in {1, 2}
  PROVE  IsDeposit(Recorded(d, s, m, a, flag), s, m, a, flag)
<1>1. Opened(d) \in DcaData
  BY OpenedType
<1>2. /\ s \in Senders \cup {NoKey} /\ m \in Mints \cup {NoKey}
      /\ a \in U64 /\ flag \in 0 .. 2
  BY DEF U64
<1> QED
  BY <1>1, <1>2, DcaAssumption DEF Recorded, DcaData, IsDeposit

(* swap_from_sol never gets its instruction executed: it is addressed to   *)
(* dca-anchor, none of whose handlers dispatches on SwapBaseIn's tag.      *)
LEMMA SwapNeverRuns ==
  ASSUME NEW s, NEW d, NEW m, NEW n, NEW min, SwapFromSol(s, d, m, n, min)
  PROVE  \E outcome \in Outcomes : Fails("swap_from_sol", outcome)
<1>1. ~Dispatches(SwapProgram, SwapBaseInTag)
  BY DEF Dispatches, SwapProgram, SwapBaseInTag, FirstBytes
<1>2. ~SwapCpiOK(s, d, m, n, min)
  BY <1>1 DEF SwapCpiOK
<1> QED
  BY <1>2 DEF SwapFromSol, Outcomes

-----------------------------------------------------------------------------
(* The inductive invariant.                                                *)

Inv == TypeOK /\ RecordsUsable /\ WrapBacked

LEMMA CreditType == TypeOK => credit \in [Vaults -> [Assets -> U64]]
  BY DEF TypeOK, credit, Assets

(* How a step of Dca is shown to be a gain of Escrow: the vault's credit   *)
(* of one asset grows by n or more and every other credit is what it was.  *)
LEMMA CreditGains ==
  ASSUME TypeOK, TypeOK', NEW v \in Vaults, NEW x \in Assets, NEW n \in U64,
         \A w \in Vaults, y \in Assets :
             w # v \/ y # x => credit'[w][y] = credit[w][y],
         credit'[v][x] >= credit[v][x] + n
  PROVE  E!Gain(v, x, n)
<1>1. credit \in [Vaults -> [Assets -> U64]]
  BY CreditType
<1>2. credit' \in [Vaults -> [Assets -> U64]]
  BY CreditType DEF credit, TypeOK, Assets
<1> DEFINE c == credit'[v][x]
           new == [credit EXCEPT ![v] = [credit[v] EXCEPT ![x] = c]]
<1>3. c \in U64
  BY <1>2
<1> HIDE DEF c
<1>4. new \in [Vaults -> [Assets -> U64]]
  BY <1>1, <1>3
<1>5. \A w \in Vaults, y \in Assets : credit'[w][y] = new[w][y]
  BY <1>1 DEF c
<1>6. \A w \in Vaults : credit'[w] = new[w]
  BY <1>2, <1>4, <1>5
<1>7. credit' = new
  BY <1>2, <1>4, <1>6
<1> QED
  BY <1>3, <1>7 DEF E!Gain, E!U64, U64, c

(* A record stands for an order: its sender and its mint are real.         *)
LEMMA OrderOfType ==
  ASSUME Inv, NEW d \in DcaAccounts, dca[d] # Absent
  PROVE  /\ OrderOf(dca[d]) \in Orders
         /\ OrderOf(dca[d]) # Absent
<1>1. /\ dca[d] \in DcaData
      /\ VaultOf(dca[d].sender_account, d) \in Vaults
      /\ dca[d].mint_address \in Assets
  BY DEF Inv, TypeOK, RecordsUsable
<1>2. dca[d].sender_account \in Senders
  BY <1>1 DEF VaultOf, Vaults
<1>3. AssetOf(dca[d]) \in Assets
  BY <1>1 DEF AssetOf, Assets
<1>4. dca[d].total_amount \in U64 /\ dca[d].state \in BOOLEAN
  BY <1>1 DEF DcaData
<1>5. OrderOf(dca[d]) \in Orders
  BY <1>2, <1>3, <1>4 DEF OrderOf, Orders
<1> QED
  BY <1>5

LEMMA InvInit == Init => Inv
<1> SUFFICES ASSUME Init PROVE Inv
  OBVIOUS
<1>1. TypeOK
  BY DcaAssumption DEF Init, TypeOK, U64, Operations, Outcomes
<1>2. RecordsUsable
  BY DEF Init, RecordsUsable
<1>3. WrapBacked
  BY DEF Init, WrapBacked
<1> QED
  BY <1>1, <1>2, <1>3 DEF Inv

(* A failed transaction changes nothing that Inv speaks of but last.       *)
LEMMA FailsKeeps ==
  ASSUME Inv, NEW op \in Operations, NEW outcome \in Outcomes, Fails(op, outcome)
  PROVE  Inv' /\ UNCHANGED <<credit, order>>
  BY DEF Fails, Ends, ledger, Inv, TypeOK, RecordsUsable, WrapBacked, CanSync,
         VaultOf, credit, order, OrderOf, AssetOf

(* Inv' splits into its three parts; every step below proves them apart.   *)
LEMMA CreateAtaKeeps ==
  ASSUME Inv, NEW s \in Senders, NEW d \in DcaAccounts, NEW x \in Assets,
         CreateAta(s, d, x)
  PROVE  Inv' /\ UNCHANGED <<credit, order>>
<1> DEFINE v == <<s, d>>
           new == [lamports |-> AtaRent, amount |-> 0]
<1>1. /\ v \in Vaults /\ TypeOK
      /\ x \notin open[v]
      /\ open' = [open EXCEPT ![v] = open[v] \cup {x}]
      /\ wrap' = IF x = Wsol THEN [wrap EXCEPT ![v] = new] ELSE wrap
      /\ UNCHANGED <<dca, vaults, held, purse>>
  BY DEF Vaults, Inv, CreateAta
<1>2. /\ AtaRent \in U64
      /\ sol[s] \in U64 /\ sol[s] >= AtaRent
      /\ sol' = [sol EXCEPT ![s] = sol[s] - AtaRent]
      /\ last' = [op |-> "ata", outcome |-> "ok"]
  BY <1>1, DcaAssumption DEF CreateAta, Ends, TypeOK
<1>3. new \in [lamports: U64, amount: U64] /\ CanSync(new) /\ new.amount = 0
  BY <1>2 DEF CanSync, U64
<1> HIDE DEF v, new
<1>4. TypeOK'
  <2>1. sol[s] - AtaRent \in U64
    BY <1>2 DEF U64
  <2>2. sol' \in [Senders -> U64] /\ wrap' \in [Vaults -> [lamports: U64, amount: U64]]
    BY <1>1, <1>2, <1>3, <2>1 DEF TypeOK
  <2>3. last' \in [op: Operations, outcome: Outcomes]
    BY <1>2 DEF Operations, Outcomes
  <2> QED
    BY <1>1, <2>2, <2>3 DEF TypeOK
<1>5. RecordsUsable'
  BY <1>1 DEF Inv, RecordsUsable, VaultOf, TypeOK
<1>6. \A w \in Vaults : wrap'[w].amount = wrap[w].amount
  BY <1>1, <1>3 DEF Inv, WrapBacked, TypeOK
<1>7. WrapBacked'
  <2> SUFFICES ASSUME NEW w \in Vaults
               PROVE  IF Wsol \in open'[w] THEN CanSync(wrap'[w])
                      ELSE wrap'[w] = [lamports |-> 0, amount |-> 0]
    BY DEF WrapBacked, CanSync
  <2>1. CASE x = Wsol /\ w = v
    BY <1>1, <1>3, <2>1 DEF TypeOK
  <2>2. CASE ~(x = Wsol /\ w = v)
    <3>1. wrap'[w] = wrap[w] /\ (Wsol \in open'[w] <=> Wsol \in open[w])
      BY <1>1, <2>2 DEF TypeOK
    <3> QED
      BY <3>1 DEF Inv, WrapBacked
  <2> QED
    BY <2>1, <2>2
<1>8. credit' = credit /\ order' = order
  BY <1>1, <1>6 DEF credit, order, OrderOf, AssetOf
<1> QED
  BY <1>4, <1>5, <1>7, <1>8 DEF Inv

LEMMA SendLamportsKeeps ==
  ASSUME Inv, NEW s \in Senders, NEW v \in Vaults, NEW n \in Amounts,
         SendLamports(s, v, n)
  PROVE  Inv' /\ UNCHANGED <<credit, order>>
<1> DEFINE new == [wrap[v] EXCEPT !.lamports = wrap[v].lamports + n]
<1>0. n \in U64
  BY DEF U64
<1>1. /\ TypeOK
      /\ wrap[v] \in [lamports: U64, amount: U64]
      /\ sol[s] \in U64 /\ n <= sol[s]
      /\ Wsol \in open[v]
  BY DEF Inv, TypeOK, SendLamports
<1>c. CanSync(wrap[v])
  BY <1>1 DEF Inv, WrapBacked
<1>2. /\ wrap' = [wrap EXCEPT ![v] = new]
      /\ sol' = [sol EXCEPT ![s] = sol[s] - n]
      /\ UNCHANGED <<dca, vaults, open, held, purse>>
  BY DEF SendLamports
<1>l. last' = [op |-> "lamports", outcome |-> "ok"]
  BY DEF SendLamports, Ends
<1>3. /\ new \in [lamports: U64, amount: U64]
      /\ new.lamports = wrap[v].lamports + n
      /\ new.amount = wrap[v].amount
  <2>1. wrap[v].lamports + n \in U64
    BY <1>0, <1>1 DEF SendLamports, U64
  <2> QED
    BY <1>1, <2>1
<1>4. CanSync(new)
  BY <1>0, <1>1, <1>c, <1>3, DcaAssumption DEF CanSync, U64
<1> HIDE DEF new
<1>5. TypeOK'
  <2>1. sol[s] - n \in U64
    BY <1>0, <1>1 DEF U64
  <2>2. sol' \in [Senders -> U64] /\ wrap' \in [Vaults -> [lamports: U64, amount: U64]]
    BY <1>1, <1>2, <1>3, <2>1 DEF TypeOK
  <2>3. last' \in [op: Operations, outcome: Outcomes]
    BY <1>l DEF Operations, Outcomes
  <2> QED
    BY <1>1, <1>2, <2>2, <2>3 DEF TypeOK
<1>6. RecordsUsable'
  BY <1>2 DEF Inv, RecordsUsable, VaultOf
<1>7. WrapBacked'
  BY <1>1, <1>2, <1>4 DEF Inv, WrapBacked, CanSync, TypeOK
<1>8. \A w \in Vaults : wrap'[w].amount = wrap[w].amount
  BY <1>1, <1>2, <1>3 DEF TypeOK
<1>9. credit' = credit /\ order' = order
  BY <1>2, <1>8 DEF credit, order, OrderOf, AssetOf
<1> QED
  BY <1>5, <1>6, <1>7, <1>9 DEF Inv

(* A sync is an accrual: what it counts is at least what was counted.      *)
LEMMA SyncNativeKeeps ==
  ASSUME Inv, NEW v \in Vaults, SyncNative(v)
  PROVE  Inv' /\ E!Accrue(v)
<1> DEFINE c == wrap[v].lamports - AtaRent
<1>1. /\ TypeOK
      /\ c \in U64 /\ c >= wrap[v].amount
      /\ wrap' = [wrap EXCEPT ![v] = [wrap[v] EXCEPT !.amount = c]]
  BY DcaAssumption DEF Inv, TypeOK, SyncNative, CanSync, Synced, U64
<1>2. TypeOK'
  BY <1>1 DEF TypeOK, SyncNative, Ends, Operations, Outcomes
<1>3. RecordsUsable'
  BY DEF Inv, RecordsUsable, SyncNative, VaultOf
<1>4. WrapBacked'
  BY <1>1, DcaAssumption DEF Inv, WrapBacked, SyncNative, CanSync, TypeOK, U64
<1>5. /\ \A w \in Vaults, y \in Assets :
            w # v \/ y # Wsol => credit'[w][y] = credit[w][y]
      /\ credit'[v][Wsol] >= credit[v][Wsol] + 0
  BY <1>1 DEF SyncNative, credit, TypeOK, Assets, U64
<1>6. order' = order
  BY DEF SyncNative, order, OrderOf, AssetOf
<1>7. E!Gain(v, Wsol, 0)
  BY <1>1, <1>2, <1>5, CreditGains DEF Assets, U64
<1> QED
  BY <1>2, <1>3, <1>4, <1>6, <1>7 DEF Inv, E!Accrue

LEMMA OrdersEqual ==
  ASSUME NEW o1 \in Orders, NEW o2 \in Orders, o1.owner = o2.owner,
         o1.asset = o2.asset, o1.amount = o2.amount, o1.active = o2.active
  PROVE  o1 = o2
  BY DEF Orders

(* initialize_dca activates the order that the record stands for.          *)
LEMMA InitializeDcaKeeps ==
  ASSUME Inv, NEW d \in DcaAccounts, NEW p \in Plans, InitializeDca(d, p),
         dca[d] # Absent
  PROVE  Inv' /\ E!Activate(d)
<1> DEFINE rec == [dca[d] EXCEPT !.plan = p, !.state = TRUE]
<1>1. /\ TypeOK
      /\ dca[d] \in DcaData
      /\ dca' = [dca EXCEPT ![d] = rec]
      /\ UNCHANGED <<vaults, open, held, wrap, sol, purse>>
  BY DEF Inv, TypeOK, InitializeDca
<1>2. last' = [op |-> "initialize_dca", outcome |-> "ok"]
  BY DEF InitializeDca, Ends
<1>3. rec \in DcaData /\ rec # Absent
  BY <1>1, DcaAssumption DEF DcaData
<1>a. /\ rec.flag = dca[d].flag
      /\ rec.sender_account = dca[d].sender_account
      /\ rec.mint_address = dca[d].mint_address
      /\ rec.total_amount = dca[d].total_amount
      /\ rec.state = TRUE
  BY <1>1 DEF DcaData
<1> HIDE DEF rec
<1>b. AssetOf(rec) = AssetOf(dca[d])
  BY <1>a DEF AssetOf
<1>c. /\ OrderOf(rec).owner = dca[d].sender_account
      /\ OrderOf(rec).asset = AssetOf(dca[d])
      /\ OrderOf(rec).amount = dca[d].total_amount
      /\ OrderOf(rec).active = TRUE
  BY <1>a, <1>b DEF OrderOf
<1> DEFINE old == OrderOf(dca[d])
           new == [old EXCEPT !.active = TRUE]
<1>d. /\ old \in Orders
      /\ old.owner = dca[d].sender_account /\ old.asset = AssetOf(dca[d])
      /\ old.amount = dca[d].total_amount
  BY OrderOfType DEF OrderOf
<1>e. OrderOf(rec) \in Orders
  BY <1>a, <1>b, <1>d DEF OrderOf, Orders
<1> HIDE DEF old
<1>f. /\ new \in Orders
      /\ new.owner = old.owner /\ new.asset = old.asset
      /\ new.amount = old.amount /\ new.active = TRUE
  BY <1>d DEF Orders
<1> HIDE DEF new
<1>4. OrderOf(rec) = new
  BY <1>c, <1>d, <1>e, <1>f, OrdersEqual
<1> USE DEF old, new
<1>5. TypeOK'
  <2>1. last' \in [op: Operations, outcome: Outcomes]
    BY <1>2 DEF Operations, Outcomes
  <2> QED
    BY <1>1, <1>3, <2>1 DEF TypeOK
<1>6. RecordsUsable'
  BY <1>1, <1>a DEF Inv, RecordsUsable, VaultOf, TypeOK
<1>7. WrapBacked'
  BY <1>1 DEF Inv, WrapBacked, CanSync
<1>8. credit' = credit
  BY <1>1 DEF credit
<1>9. order' = [order EXCEPT ![d] = [order[d] EXCEPT !.active = TRUE]]
  BY <1>1, <1>3, <1>4 DEF order, TypeOK
<1>10. order[d] # Absent
  BY OrderOfType DEF order
<1> QED
  BY <1>5, <1>6, <1>7, <1>8, <1>9, <1>10 DEF Inv, E!Activate

(* deposit_token is a deposit of the mint.                                 *)
LEMMA DepositTokenKeeps ==
  ASSUME Inv, NEW s \in Senders, NEW d \in DcaAccounts, NEW m \in Mints,
         NEW a \in Amounts, DepositTokenOK(s, d, m, a)
  PROVE  Inv' /\ E!Deposit(s, d, m, a)
<1> DEFINE v == <<s, d>>
           rec == Recorded(d, s, m, a, 2)
           rent == RentDue(s, d)
<1>1. /\ TypeOK /\ a \in U64 /\ rent \in Nat
      /\ v \in Vaults /\ v = VaultOf(s, d)
  BY RentDueType DEF Inv, Vaults, VaultOf, U64
<1>2. IsDeposit(rec, s, m, a, 2)
  <2>1. 2 \in {1, 2}
    OBVIOUS
  <2> QED
    BY <1>1, <2>1, RecordedIs
<1>3. /\ {m, Wsol} \subseteq open[v] /\ sol[s] >= rent
      /\ a <= purse[s][m] /\ held[v][m] + a <= MaxU64
      /\ dca' = [dca EXCEPT ![d] = rec]
      /\ vaults' = vaults \cup {v}
      /\ sol' = [sol EXCEPT ![s] = sol[s] - rent]
      /\ purse' = [purse EXCEPT ![s][m] = purse[s][m] - a]
      /\ held' = [held EXCEPT ![v][m] = held[v][m] + a]
      /\ UNCHANGED <<open, wrap>>
  BY <1>1 DEF DepositTokenOK, DepositAccountsOK, TokenTransferOK
<1>4. last' = [op |-> "deposit_token", outcome |-> "ok"]
  BY DEF DepositTokenOK, Ends
<1> HIDE DEF v, rec, rent
<1>5. TypeOK'
  <2>1. /\ sol[s] \in U64 /\ purse[s][m] \in U64 /\ held[v][m] \in U64
    BY <1>1 DEF TypeOK
  <2>2. /\ sol[s] - rent \in U64
        /\ purse[s][m] - a \in U64
        /\ held[v][m] + a \in U64
    BY <1>1, <1>3, <2>1 DEF U64
  <2>3. sol' \in [Senders -> U64]
    BY <1>1, <1>3, <2>2 DEF TypeOK
  <2>4. purse' \in [Senders -> [Mints -> U64]]
    BY <1>1, <1>3, <2>2 DEF TypeOK
  <2>5. held' \in [Vaults -> [Mints -> U64]]
    BY <1>1, <1>3, <2>2 DEF TypeOK
  <2>6. dca' \in [DcaAccounts -> DcaData \cup {Absent}] /\ vaults' \subseteq Vaults
    BY <1>1, <1>2, <1>3 DEF TypeOK, IsDeposit
  <2>7. last' \in [op: Operations, outcome: Outcomes]
    BY <1>4 DEF Operations, Outcomes
  <2> QED
    BY <1>1, <1>3, <2>3, <2>4, <2>5, <2>6, <2>7 DEF TypeOK
<1>6. RecordsUsable'
  <2> SUFFICES ASSUME NEW e \in DcaAccounts, dca'[e] # Absent
               PROVE  /\ dca'[e].flag \in {1, 2}
                      /\ <<dca'[e].sender_account, e>> \in vaults'
                      /\ {dca'[e].mint_address, Wsol}
                            \subseteq open'[<<dca'[e].sender_account, e>>]
    BY DEF RecordsUsable, VaultOf
  <2>1. CASE e = d
    BY <1>1, <1>2, <1>3, <2>1 DEF TypeOK, VaultOf, IsDeposit
  <2>2. CASE e # d
    BY <1>1, <1>3, <2>2 DEF TypeOK, Inv, RecordsUsable, VaultOf
  <2> QED
    BY <2>1, <2>2
<1>7. WrapBacked'
  BY <1>3 DEF Inv, WrapBacked, CanSync
<1>8. E!Gain(v, m, a)
  <2>1. m \in Assets /\ m # Wsol
    BY DEF Assets
  <2>2. /\ \A w \in Vaults, y \in Assets :
              w # v \/ y # m => credit'[w][y] = credit[w][y]
        /\ credit[v][m] = held[v][m] /\ credit'[v][m] = held[v][m] + a
    BY <1>1, <1>3, <2>1 DEF credit, TypeOK, Assets
  <2>3. held[v][m] + a \in Nat
    BY <1>1 DEF TypeOK, U64
  <2>4. credit'[v][m] >= credit[v][m] + a
    BY <2>2, <2>3
  <2> QED
    BY <1>1, <1>5, <2>1, <2>2, <2>4, CreditGains
<1>9. order' = [order EXCEPT ![d] =
          [owner |-> s, asset |-> m, amount |-> a, active |-> FALSE]]
  <2>1. OrderOf(rec) = [owner |-> s, asset |-> m, amount |-> a, active |-> FALSE]
    <3>1. AssetOf(rec) = m
      BY <1>2 DEF AssetOf, IsDeposit
    <3> QED
      BY <1>2, <3>1, Zenon DEF OrderOf, IsDeposit
  <2> QED
    BY <1>1, <1>2, <1>3, <2>1 DEF order, TypeOK, IsDeposit
<1> QED
  BY <1>5, <1>6, <1>7, <1>8, <1>9 DEF Inv, E!Deposit, v

(* deposit_sol is a deposit of SOL.  The wrapped account gains a lamports, *)
(* and the sync counts them: it counted no more than it had (WrapBacked).  *)
LEMMA DepositSolKeeps ==
  ASSUME Inv, NEW s \in Senders, NEW d \in DcaAccounts, NEW m \in Mints,
         NEW a \in Amounts, DepositSolOK(s, d, m, a)
  PROVE  Inv' /\ E!Deposit(s, d, Wsol, a)
<1> DEFINE v == <<s, d>>
           rec == Recorded(d, s, m, a, 1)
           rent == RentDue(s, d)
           new == Synced(Funded(wrap[v], a))
<1>1. /\ TypeOK /\ a \in U64 /\ rent \in Nat
      /\ v \in Vaults /\ v = VaultOf(s, d)
      /\ wrap[v] \in [lamports: U64, amount: U64]
      /\ AtaRent \in U64
  BY RentDueType, DcaAssumption DEF Inv, Vaults, VaultOf, U64, TypeOK
<1>2. IsDeposit(rec, s, m, a, 1)
  <2>1. 1 \in {1, 2}
    OBVIOUS
  <2> QED
    BY <1>1, <2>1, RecordedIs
<1>3. /\ {m, Wsol} \subseteq open[v]
      /\ a + rent <= sol[s]
      /\ wrap[v].lamports + a <= MaxU64
      /\ dca' = [dca EXCEPT ![d] = rec]
      /\ vaults' = vaults \cup {v}
      /\ sol' = [sol EXCEPT ![s] = sol[s] - rent - a]
      /\ wrap' = [wrap EXCEPT ![v] = new]
      /\ UNCHANGED <<open, held, purse>>
  BY <1>1 DEF DepositSolOK, DepositAccountsOK, SolTransferOK
<1>4. last' = [op |-> "deposit_sol", outcome |-> "ok"]
  BY DEF DepositSolOK, Ends
<1>5. CanSync(wrap[v])
  BY <1>1, <1>3 DEF Inv, WrapBacked
<1>6. /\ new \in [lamports: U64, amount: U64]
      /\ new.lamports = wrap[v].lamports + a
      /\ new.amount = wrap[v].lamports + a - AtaRent
  <2>1. /\ wrap[v].lamports + a \in U64
        /\ wrap[v].lamports + a - AtaRent \in U64
    BY <1>1, <1>3, <1>5 DEF CanSync, U64
  <2> DEFINE f == Funded(wrap[v], a)
  <2>2. IsAccount(f, wrap[v].lamports + a, wrap[v].amount)
    BY <1>1, <2>1, FundedIs
  <2>3. new = Synced(f)
    OBVIOUS
  <2> HIDE DEF f, new, v
  <2>4. f \in [lamports: U64, amount: U64]
    BY <2>2 DEF IsAccount
  <2>5. f.lamports = wrap[v].lamports + a
    BY <2>2 DEF IsAccount
  <2>6. f.lamports - AtaRent \in U64
    BY <1>1, <2>1, <2>5 DEF U64
  <2>7. IsAccount(new, f.lamports, f.lamports - AtaRent)
    BY <2>3, <2>4, <2>6, SyncedIs
  <2>8. new \in [lamports: U64, amount: U64]
    BY <2>7 DEF IsAccount
  <2>9. new.lamports = f.lamports /\ new.amount = f.lamports - AtaRent
    BY <2>7 DEF IsAccount
  <2> QED
    BY <1>1, <2>5, <2>8, <2>9 DEF U64
<1> HIDE DEF v, rec, rent, new
<1>7. CanSync(new) /\ new.amount >= wrap[v].amount + a
  BY <1>1, <1>5, <1>6 DEF CanSync, U64
<1>8. TypeOK'
  <2>1. sol[s] \in U64 /\ sol[s] - rent - a \in U64
    BY <1>1, <1>3 DEF TypeOK, U64
  <2>2. sol' \in [Senders -> U64]
    BY <1>1, <1>3, <2>1 DEF TypeOK
  <2>3. wrap' \in [Vaults -> [lamports: U64, amount: U64]]
    BY <1>1, <1>3, <1>6 DEF TypeOK
  <2>4. dca' \in [DcaAccounts -> DcaData \cup {Absent}] /\ vaults' \subseteq Vaults
    BY <1>1, <1>2, <1>3 DEF TypeOK, IsDeposit
  <2>5. last' \in [op: Operations, outcome: Outcomes]
    BY <1>4 DEF Operations, Outcomes
  <2> QED
    BY <1>1, <1>3, <2>2, <2>3, <2>4, <2>5 DEF TypeOK
<1>9. RecordsUsable'
  <2> SUFFICES ASSUME NEW e \in DcaAccounts, dca'[e] # Absent
               PROVE  /\ dca'[e].flag \in {1, 2}
                      /\ <<dca'[e].sender_account, e>> \in vaults'
                      /\ {dca'[e].mint_address, Wsol}
                            \subseteq open'[<<dca'[e].sender_account, e>>]
    BY DEF RecordsUsable, VaultOf
  <2>1. CASE e = d
    BY <1>1, <1>2, <1>3, <2>1 DEF TypeOK, VaultOf, IsDeposit
  <2>2. CASE e # d
    BY <1>1, <1>3, <2>2 DEF TypeOK, Inv, RecordsUsable, VaultOf
  <2> QED
    BY <2>1, <2>2
<1>10. WrapBacked'
  BY <1>1, <1>3, <1>7 DEF Inv, WrapBacked, CanSync, TypeOK
<1>11. E!Gain(v, Wsol, a)
  <2>1. Wsol \in Assets
    BY DEF Assets
  <2>2. /\ \A w \in Vaults, y \in Assets :
              w # v \/ y # Wsol => credit'[w][y] = credit[w][y]
        /\ credit[v][Wsol] = wrap[v].amount /\ credit'[v][Wsol] = new.amount
    BY <1>1, <1>3, <2>1 DEF credit, TypeOK
  <2>3. credit'[v][Wsol] >= credit[v][Wsol] + a
    BY <1>7, <2>2
  <2> QED
    BY <1>1, <1>8, <2>1, <2>2, <2>3, CreditGains
<1>12. order' = [order EXCEPT ![d] =
           [owner |-> s, asset |-> Wsol, amount |-> a, active |-> FALSE]]
  <2>1. OrderOf(rec) = [owner |-> s, asset |-> Wsol, amount |-> a, active |-> FALSE]
    <3>1. AssetOf(rec) = Wsol
      BY <1>2 DEF AssetOf, IsDeposit
    <3> QED
      BY <1>2, <3>1, Zenon DEF OrderOf, IsDeposit
  <2> QED
    BY <1>1, <1>2, <1>3, <2>1 DEF order, TypeOK, IsDeposit
<1> QED
  BY <1>8, <1>9, <1>10, <1>11, <1>12 DEF Inv, E!Deposit, v

-----------------------------------------------------------------------------
(* Every step of Dca keeps Inv, and is a step of Escrow or leaves credit   *)
(* and order as they are.                                                  *)
LEMMA Step ==
  Inv /\ [Next]_vars => Inv' /\ [E!EscrowNext]_(E!escrowVars)
<1> SUFFICES ASSUME Inv, [Next]_vars
             PROVE  Inv' /\ (E!EscrowNext \/ UNCHANGED <<credit, order>>)
  BY DEF E!escrowVars
<1>1. ASSUME NEW s \in Senders, NEW d \in DcaAccounts, NEW x \in Assets,
             CreateAta(s, d, x)
      PROVE  Inv' /\ UNCHANGED <<credit, order>>
  BY <1>1, CreateAtaKeeps
<1>2. ASSUME NEW s \in Senders, NEW v \in Vaults, NEW n \in Amounts,
             SendLamports(s, v, n)
      PROVE  Inv' /\ UNCHANGED <<credit, order>>
  BY <1>2, SendLamportsKeeps
<1>3. ASSUME NEW v \in Vaults, SyncNative(v)
      PROVE  Inv' /\ E!EscrowNext
  BY <1>3, SyncNativeKeeps DEF E!EscrowNext, E!Vaults, Vaults
<1>4. ASSUME NEW op \in Operations, NEW outcome \in Outcomes, Fails(op, outcome)
      PROVE  Inv' /\ UNCHANGED <<credit, order>>
  BY <1>4, FailsKeeps
<1>5. ASSUME NEW s \in Senders, NEW d \in DcaAccounts, NEW m \in Mints,
             NEW a \in Amounts,
             DepositTokenOK(s, d, m, a) \/ DepositTokenFails(s, d, m, a)
      PROVE  Inv' /\ (E!EscrowNext \/ UNCHANGED <<credit, order>>)
  <2>1. CASE DepositTokenOK(s, d, m, a)
    <3>1. m \in E!Assets
      BY DEF E!Assets
    <3> QED
      BY <2>1, <3>1, DepositTokenKeeps DEF E!EscrowNext
  <2>2. CASE DepositTokenFails(s, d, m, a)
    <3>1. \E outcome \in Outcomes : Fails("deposit_token", outcome)
      BY <2>2 DEF DepositTokenFails, Outcomes
    <3> QED
      BY <3>1, <1>4 DEF Operations
  <2> QED
    BY <1>5, <2>1, <2>2
<1>6. ASSUME NEW s \in Senders, NEW d \in DcaAccounts, NEW m \in Mints,
             NEW a \in Amounts,
             DepositSolOK(s, d, m, a) \/ DepositSolFails(s, d, m, a)
      PROVE  Inv' /\ (E!EscrowNext \/ UNCHANGED <<credit, order>>)
  <2>1. CASE DepositSolOK(s, d, m, a)
    <3>1. Wsol \in E!Assets
      BY DEF E!Assets
    <3> QED
      BY <2>1, <3>1, DepositSolKeeps DEF E!EscrowNext
  <2>2. CASE DepositSolFails(s, d, m, a)
    <3>1. \E outcome \in Outcomes : Fails("deposit_sol", outcome)
      BY <2>2 DEF DepositSolFails, Outcomes
    <3> QED
      BY <3>1, <1>4 DEF Operations
  <2> QED
    BY <1>6, <2>1, <2>2
<1>7. ASSUME NEW d \in DcaAccounts, NEW p \in Plans, InitializeDca(d, p)
      PROVE  Inv' /\ (E!EscrowNext \/ UNCHANGED <<credit, order>>)
  <2>1. CASE dca[d] # Absent
    BY <1>7, <2>1, InitializeDcaKeeps DEF E!EscrowNext
  <2>2. CASE dca[d] = Absent
    BY <1>7, <2>2, <1>4 DEF InitializeDca, Operations, Outcomes
  <2> QED
    BY <2>1, <2>2
<1>8. ASSUME NEW s \in Senders, NEW d \in DcaAccounts, NEW m \in Mints,
             NEW n \in Amounts, NEW min \in Amounts, SwapFromSol(s, d, m, n, min)
      PROVE  Inv' /\ UNCHANGED <<credit, order>>
  <2>1. \E outcome \in Outcomes : Fails("swap_from_sol", outcome)
    BY <1>8, SwapNeverRuns
  <2> QED
    BY <2>1, <1>4 DEF Operations
<1>9. CASE UNCHANGED vars
  BY <1>9 DEF vars, Inv, TypeOK, RecordsUsable, WrapBacked, CanSync, VaultOf,
              credit, order, OrderOf, AssetOf
<1> QED
  BY <1>1, <1>2, <1>3, <1>5, <1>6, <1>7, <1>8, <1>9 DEF Next

LEMMA Always == Spec => []Inv
  BY InvInit, Step, PTL DEF Spec

(* No balance is negative or beyond u64, in every state: a transfer or a   *)
(* sync that would make it so fails the transaction.                       *)
THEOREM Typed == Spec => []TypeOK
<1>1. Inv => TypeOK
  BY DEF Inv
<1> QED
  BY <1>1, Always, PTL

(* Every dca account comes from a deposit, and its owner's vault is there  *)
(* with the accounts of the deposited mint and of wrapped SOL.             *)
THEOREM NoBlankRecord == Spec => []RecordsUsable
<1>1. Inv => RecordsUsable
  BY DEF Inv
<1> QED
  BY <1>1, Always, PTL

(* Wrapped SOL never counts more than the lamports beyond the reserve.     *)
THEOREM WrapCovered == Spec => []WrapBacked
<1>1. Inv => WrapBacked
  BY DEF Inv
<1> QED
  BY <1>1, Always, PTL

LEMMA InitMaps == Init => E!EscrowInit
<1> SUFFICES ASSUME Init PROVE E!EscrowInit
  OBVIOUS
<1>1. credit = [v \in Vaults |-> [x \in Assets |-> 0]]
  BY DEF Init, credit, Assets
<1>2. order = [d \in DcaAccounts |-> Absent]
  BY DEF Init, order
<1> QED
  BY <1>1, <1>2 DEF E!EscrowInit, E!Vaults, E!Assets, Vaults, Assets

(* The program implements the order book.                                  *)
THEOREM Implementation == Spec => ImplementsEscrow
<1>1. Spec => []Inv
  BY InvInit, Step, PTL DEF Spec
<1> QED
  BY <1>1, InitMaps, Step, PTL DEF Spec, ImplementsEscrow, E!EscrowSpec

(* A deposit writes its record with state false, and nothing else changes  *)
(* the deposit of a record.                                                *)
LEMMA PlanStep ==
  ASSUME Inv, [Next]_vars, NEW d \in DcaAccounts, dca[d] # Absent, dca'[d] # Absent,
         DepositPart(dca'[d]) # DepositPart(dca[d])
  PROVE  dca'[d].state = FALSE
<1>1. dca' # dca /\ ~UNCHANGED vars
  BY DEF vars
<1>2. ASSUME NEW s \in Senders, NEW e \in DcaAccounts, NEW m \in Mints,
             NEW a \in Amounts, NEW flag \in {1, 2},
             dca' = [dca EXCEPT ![e] = Recorded(e, s, m, a, flag)]
      PROVE  dca'[d].state = FALSE
  <2>1. IsDeposit(Recorded(e, s, m, a, flag), s, m, a, flag)
    BY RecordedIs DEF Inv
  <2>2. d = e
    BY <1>2 DEF Inv, TypeOK
  <2> QED
    BY <1>2, <2>1, <2>2 DEF IsDeposit, Inv, TypeOK
<1>3. ASSUME NEW s \in Senders, NEW e \in DcaAccounts, NEW m \in Mints,
             NEW a \in Amounts, DepositTokenOK(s, e, m, a)
      PROVE  dca'[d].state = FALSE
  BY <1>2, <1>3 DEF DepositTokenOK
<1>4. ASSUME NEW s \in Senders, NEW e \in DcaAccounts, NEW m \in Mints,
             NEW a \in Amounts, DepositSolOK(s, e, m, a)
      PROVE  dca'[d].state = FALSE
  BY <1>2, <1>4 DEF DepositSolOK
<1>5. ASSUME NEW e \in DcaAccounts, NEW p \in Plans, InitializeDca(e, p)
      PROVE  FALSE
  <2>1. dca[e] # Absent
    BY <1>1, <1>5 DEF InitializeDca, Fails, ledger
  <2>2. /\ dca[d] \in DcaData
        /\ dca' = [dca EXCEPT ![e] = [dca[e] EXCEPT !.plan = p, !.state = TRUE]]
    BY <1>5, <2>1 DEF InitializeDca, Inv, TypeOK
  <2>3. d = e
    BY <2>2 DEF Inv, TypeOK
  <2>4. dca'[d] = [dca[d] EXCEPT !.plan = p, !.state = TRUE]
    BY <2>2, <2>3 DEF Inv, TypeOK
  <2>5. DepositPart(dca'[d]) = DepositPart(dca[d])
    BY <2>2, <2>4 DEF DepositPart, DcaData
  <2> QED
    BY <2>5
<1>6. ~\E op, outcome : Fails(op, outcome)
  BY <1>1 DEF Fails, ledger
<1>7. ASSUME NEW s \in Senders, NEW e \in DcaAccounts, NEW m \in Mints,
             NEW n \in Amounts, NEW min \in Amounts, SwapFromSol(s, e, m, n, min)
      PROVE  FALSE
  BY <1>6, <1>7, SwapNeverRuns
<1> QED
  BY <1>1, <1>3, <1>4, <1>5, <1>6, <1>7
     DEF Next, CreateAta, SendLamports, SyncNative, DepositTokenFails, DepositSolFails

(* A plan is never carried over to another deposit.                        *)
THEOREM PlanStaysWithDeposit == Spec => PlanNotCarriedOver
<1>1. Spec => []Inv
  BY InvInit, Step, PTL DEF Spec
<1>2. Inv /\ [Next]_vars =>
        [\A d \in DcaAccounts :
            /\ dca[d] # Absent /\ dca'[d] # Absent
            /\ DepositPart(dca'[d]) # DepositPart(dca[d])
            => ~dca'[d].state]_vars
  BY PlanStep
<1> QED
  BY <1>1, <1>2, PTL DEF Spec, PlanNotCarriedOver

(* -- The promises of Escrow, for Dca ------------------------------------ *)

(* Every recorded deposit is in the vault of the wallet that made it.      *)
THEOREM Backed == Spec => []DepositsBacked
<1>1. Spec => E!EscrowSpec
  BY Implementation DEF ImplementsEscrow
<1>2. E!EscrowSpec => [](E!EscrowTypeOK /\ E!Covered)
  <2>1. E!AccountsAssumption
    BY AccountsAssumption DEF E!Orders, E!Assets, E!U64, Orders, Assets, U64
  <2> QED
    BY <2>1, E!EscrowCovered, PTL
<1> QED
  BY <1>1, <1>2, PTL DEF DepositsBacked

=============================================================================
