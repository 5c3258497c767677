---------------------------- MODULE EscrowProofs ----------------------------
(***************************************************************************)
(* The promises of Escrow hold for any number of wallets, dca accounts and *)
(* mints.                                                                  *)
(***************************************************************************)
EXTENDS Escrow, TLAPS

EscrowInv == EscrowTypeOK /\ Covered

LEMMA EscrowInvInit == EscrowInit => EscrowInv
  BY AccountsAssumption DEF EscrowInit, EscrowInv, EscrowTypeOK, Covered, U64

(* A vault that gains stays well typed and above what it covered.          *)
LEMMA GainKeeps ==
  ASSUME EscrowTypeOK, NEW v \in Vaults, NEW x \in Assets,
         NEW n \in Amounts \cup {0}, Gain(v, x, n)
  PROVE  /\ credit' \in [Vaults -> [Assets -> U64]]
         /\ \A w \in Vaults, y \in Assets : credit'[w][y] >= credit[w][y]
         /\ credit'[v][x] >= n
<1> DEFINE c == credit'[v][x]
<1>1. /\ c \in U64
      /\ c >= credit[v][x] + n
      /\ credit' = [credit EXCEPT ![v] = [credit[v] EXCEPT ![x] = c]]
  BY DEF Gain
<1>2. /\ credit \in [Vaults -> [Assets -> U64]]
      /\ n \in U64
  BY AccountsAssumption DEF EscrowTypeOK, U64
<1> HIDE DEF c
<1>3. credit' \in [Vaults -> [Assets -> U64]]
  BY <1>1, <1>2
<1>4. ASSUME NEW w \in Vaults, NEW y \in Assets
      PROVE  credit'[w][y] >= credit[w][y]
  BY <1>1, <1>2, AccountsAssumption DEF U64
<1>5. credit'[v][x] >= n
  BY <1>1, <1>2, AccountsAssumption DEF U64
<1> QED
  BY <1>3, <1>4, <1>5

(* An order that was covered is still covered once no credit shrank.       *)
LEMMA CoverKept ==
  ASSUME EscrowTypeOK, Covered,
         credit' \in [Vaults -> [Assets -> U64]],
         \A w \in Vaults, y \in Assets : credit'[w][y] >= credit[w][y],
         NEW e \in DcaAccounts, order[e] # Absent
  PROVE  credit'[<<order[e].owner, e>>][order[e].asset] >= order[e].amount
<1> DEFINE v == <<order[e].owner, e>>
           x == order[e].asset
<1>1. order[e] \in Orders
  BY DEF EscrowTypeOK
<1>2. /\ v \in Vaults
      /\ x \in Assets
      /\ order[e].amount \in U64
  BY <1>1 DEF Orders, Vaults
<1>3. credit[v][x] >= order[e].amount
  BY DEF Covered
<1> HIDE DEF v, x
<1>4. credit[v][x] \in U64 /\ credit'[v][x] \in U64
  BY <1>2 DEF EscrowTypeOK
<1>5. credit'[v][x] >= credit[v][x]
  BY <1>2
<1>6. credit'[v][x] >= order[e].amount
  BY <1>2, <1>3, <1>4, <1>5, AccountsAssumption DEF U64
<1> QED
  BY <1>6 DEF v, x

LEMMA EscrowInvStep == EscrowInv /\ [EscrowNext]_escrowVars => EscrowInv'
<1> SUFFICES ASSUME EscrowInv, [EscrowNext]_escrowVars PROVE EscrowInv'
  OBVIOUS
<1> USE DEF EscrowInv
<1>1. ASSUME NEW s \in Senders, NEW d \in DcaAccounts, NEW x \in Assets,
             NEW a \in Amounts, Deposit(s, d, x, a)
      PROVE  EscrowInv'
  <2> DEFINE o == [owner |-> s, asset |-> x, amount |-> a, active |-> FALSE]
  <2>1. /\ <<s, d>> \in Vaults
        /\ o \in Orders
        /\ order' = [order EXCEPT ![d] = o]
    BY <1>1, AccountsAssumption DEF Deposit, Vaults, Orders, U64
  <2>2. Gain(<<s, d>>, x, a)
    BY <1>1 DEF Deposit
  <2>3. /\ credit' \in [Vaults -> [Assets -> U64]]
        /\ \A w \in Vaults, y \in Assets : credit'[w][y] >= credit[w][y]
        /\ credit'[<<s, d>>][x] >= a
    BY <2>1, <2>2, GainKeeps
  <2>4. EscrowTypeOK'
    BY <2>1, <2>3 DEF EscrowTypeOK
  <2>5. ASSUME NEW e \in DcaAccounts, order'[e] # Absent
        PROVE  credit'[<<order'[e].owner, e>>][order'[e].asset] >= order'[e].amount
    <3>1. CASE e = d
      BY <2>1, <2>3, <3>1 DEF EscrowTypeOK
    <3>2. CASE e # d
      BY <2>1, <2>3, <2>5, <3>2, CoverKept DEF EscrowTypeOK
    <3> QED
      BY <3>1, <3>2
  <2> QED
    BY <2>4, <2>5 DEF Covered
<1>2. ASSUME NEW d \in DcaAccounts, Activate(d)
      PROVE  EscrowInv'
  <2>1. /\ order[d] \in Orders
        /\ order' = [order EXCEPT ![d] = [order[d] EXCEPT !.active = TRUE]]
        /\ credit' = credit
    BY <1>2 DEF Activate, EscrowTypeOK
  <2>2. [order[d] EXCEPT !.active = TRUE] \in Orders
    BY <2>1 DEF Orders
  <2>3. EscrowTypeOK'
    BY <2>1, <2>2 DEF EscrowTypeOK
  <2>4. ASSUME NEW e \in DcaAccounts, order'[e] # Absent
        PROVE  /\ order[e] # Absent
               /\ order'[e].owner = order[e].owner
               /\ order'[e].asset = order[e].asset
               /\ order'[e].amount = order[e].amount
    BY <2>1, <2>4, <1>2 DEF EscrowTypeOK, Orders, Activate
  <2> QED
    BY <2>1, <2>3, <2>4 DEF Covered
<1>3. ASSUME NEW v \in Vaults, Accrue(v)
      PROVE  EscrowInv'
  <2>1. Gain(v, Wsol, 0) /\ Wsol \in Assets /\ order' = order
    BY <1>3 DEF Accrue, Assets
  <2>2. /\ credit' \in [Vaults -> [Assets -> U64]]
        /\ \A w \in Vaults, y \in Assets : credit'[w][y] >= credit[w][y]
    BY <2>1, GainKeeps
  <2>3. EscrowTypeOK'
    BY <2>1, <2>2 DEF EscrowTypeOK
  <2>4. ASSUME NEW e \in DcaAccounts, order[e] # Absent
        PROVE  credit'[<<order[e].owner, e>>][order[e].asset] >= order[e].amount
    BY <2>2, <2>4, CoverKept
  <2> QED
    BY <2>1, <2>3, <2>4 DEF Covered
<1>4. CASE UNCHANGED escrowVars
  BY <1>4 DEF escrowVars, EscrowTypeOK, Covered
<1> QED
  BY <1>1, <1>2, <1>3, <1>4 DEF EscrowNext

(* Every order stays covered.                                              *)
THEOREM EscrowCovered == EscrowSpec => [](EscrowTypeOK /\ Covered)
<1>1. EscrowSpec => []EscrowInv
  BY EscrowInvInit, EscrowInvStep, PTL DEF EscrowSpec
<1> QED
  BY <1>1 DEF EscrowInv

=============================================================================
