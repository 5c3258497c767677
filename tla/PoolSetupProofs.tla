-------------------------- MODULE PoolSetupProofs --------------------------
(***************************************************************************)
(* Proofs about the set-up of market and pool, on those about sendTx, for  *)
(* every retry count, blockhash age, depth and number of forks.            *)
(***************************************************************************)
EXTENDS PoolSetup, SendTxProofs

USE DEF Vaults, Market, CreatePool, InitPool

(* The script is outside sendTx until it has loaded the market.            *)
Stages ==
    /\ stage # "pool" => pc \in {"returned", "threw"} /\ cur = Market
    /\ stage = "sign" => hash[Market] = 0
    /\ stage # "sign" => hash[Market] # 0

(* The market's transactions share one blockhash.                          *)
SharedHash == hash[Vaults] = hash[Market]

(* Past its loading, the script has seen the market.                       *)
Seen == forks = 0 /\ stage = "pool" => Succeeded(Market)

SetupInv == Inv /\ SetupTypeOK /\ Stages /\ SharedHash /\ Seen

LEMMA Four ==
  /\ Txs = 1 .. 4
  /\ Needs[Vaults] = {} /\ Needs[Market] = {Vaults}
  /\ Needs[CreatePool] = {} /\ Needs[InitPool] = {Market, CreatePool}
  BY SetupAssumption DEF Txs, PoolNeeds

LEMMA SetupInitInv == SetupInit => SetupInv
  <1> SUFFICES ASSUME SetupInit PROVE SetupInv
      OBVIOUS
  <1> USE SetupAssumption, ClusterAssumption, TriesAssumption, Four DEF SetupInit, ClusterInit
  <1>1. TypeOK /\ SetupTypeOK
    BY DEF TypeOK, ClusterTypeOK, SetupTypeOK
  <1>2. OneHash /\ LoopState /\ AtMostOnce /\ InOrder /\ SuccessIsReal
    BY DEF OneHash, LoopState, AtMostOnce, InOrder, SuccessIsReal
  <1>3. Stages /\ SharedHash /\ Seen
    BY DEF Stages, SharedHash, Seen
  <1> QED BY <1>1, <1>2, <1>3 DEF SetupInv, Inv

(***************************************************************************)
(* The invariant of sendTx, under the steps that are not of sendTx.        *)
(***************************************************************************)
LEMMA SignKeeps ==
  ASSUME SetupInv, SignTransactions
  PROVE  Inv' /\ SharedHash'
  <1> USE Four, TriesAssumption DEF SignTransactions, clusterVars
  <1> PICK h \in 1 .. slot :
        /\ IsMax(h) /\ Recent(h)
        /\ hash' = [hash EXCEPT ![Vaults] = h, ![Market] = h]
      OBVIOUS
  <1>1. /\ hash \in [Txs -> Nat] /\ cur = Market /\ slot \in Nat \ {0}
        /\ hash[Vaults] = 0 /\ hash[Market] = 0 /\ h \in Nat \ {0}
        /\ inflight \subseteq Signatures /\ landed \subseteq Entries
    BY DEF SetupInv, Inv, TypeOK, ClusterTypeOK, Stages, SharedHash
  <1>2. /\ hash' \in [Txs -> Nat] /\ hash'[Vaults] = h /\ hash'[Market] = h
        /\ \A tx \in Txs \ {Vaults, Market} : hash'[tx] = hash[tx]
    BY <1>1
  <1>3. TypeOK'
    BY <1>2 DEF SetupInv, Inv, TypeOK, ClusterTypeOK
  <1>4. OneHash'
    <2>1. /\ \A sig \in inflight : sig.tx \in Txs \ {Vaults, Market}
          /\ \A e \in landed : e.tx \in Txs \ {Vaults, Market}
      BY <1>1 DEF SetupInv, Inv, OneHash, Signatures, Entries
    <2> QED BY <1>2, <2>1 DEF SetupInv, Inv, OneHash
  <1>5. LoopState'
    BY <1>1, <1>2 DEF SetupInv, Inv, LoopState
  <1>6. AtMostOnce' /\ InOrder' /\ SuccessIsReal'
    BY DEF SetupInv, Inv, AtMostOnce, InOrder, SuccessIsReal, Succeeded
  <1>7. SharedHash'
    BY <1>2 DEF SharedHash
  <1> QED BY <1>3, <1>4, <1>5, <1>6, <1>7 DEF Inv

LEMMA SendSignedKeeps ==
  ASSUME SetupInv, SendSigned \/ SendSignedThrows
  PROVE  Inv'
  <1> USE Four, TriesAssumption
  <1>1. /\ UNCHANGED <<slot, dropped, landed, forks, cur, txRetry, hash, report>>
        /\ pc' \in {"returned", "threw"}
        /\ inflight' = inflight \cup {Signed(next)}
        /\ stage = "send"
    BY DEF SendSigned, SendSignedThrows, Throw, clientVars
  <1>2. hash[next] # 0 /\ next \in Txs /\ hash[next] \in Nat
    BY <1>1 DEF SetupInv, SetupTypeOK, Stages, SharedHash, TypeOK
  <1>3. Signed(next) \in Signatures
    BY <1>2 DEF Signed, Signatures
  <1>4. TypeOK'
    BY <1>1, <1>3 DEF SetupInv, Inv, TypeOK, ClusterTypeOK
  <1>5. OneHash'
    BY <1>1, <1>2 DEF SetupInv, Inv, OneHash, Signed
  <1>6. LoopState'
    BY <1>1 DEF SetupInv, Inv, LoopState
  <1>7. AtMostOnce' /\ InOrder' /\ SuccessIsReal'
    BY <1>1 DEF SetupInv, Inv, AtMostOnce, InOrder, SuccessIsReal, Succeeded
  <1> QED BY <1>4, <1>5, <1>6, <1>7 DEF Inv

(* A step of the script that changes nothing but pc, and that to "threw".  *)
LEMMA PauseKeeps ==
  ASSUME Inv, UNCHANGED clusterVars, UNCHANGED <<cur, txRetry, hash, report>>,
         pc' \in {pc, "threw"}
  PROVE  Inv'
  <1>1. TypeOK'
    BY DEF Inv, TypeOK, ClusterTypeOK, clusterVars
  <1>2. LoopState' /\ OneHash'
    BY DEF Inv, LoopState, OneHash, clusterVars
  <1>3. AtMostOnce' /\ InOrder' /\ SuccessIsReal'
    BY DEF Inv, AtMostOnce, InOrder, SuccessIsReal, Succeeded, clusterVars
  <1> QED BY <1>1, <1>2, <1>3 DEF Inv

LEMMA InvKept ==
  ASSUME SetupInv, SetupNext
  PROVE  Inv'
  <1>1. CASE SignTransactions
    BY <1>1, SignKeeps
  <1>2. CASE SendSigned \/ SendSignedThrows
    BY <1>2, SendSignedKeeps
  <1>3. CASE SleepSigned \/ ScriptThrows \/ Swap
    <2>1. /\ UNCHANGED clusterVars /\ UNCHANGED <<cur, txRetry, hash, report>>
          /\ pc' \in {pc, "threw"}
      BY <1>3 DEF SleepSigned, ScriptThrows, Swap, Throw, clientVars
    <2> QED BY <2>1, PauseKeeps DEF SetupInv
  <1>4. CASE GetMarket \/ GetTokenAccounts \/ SendTxCall
    <2>1. Client
      BY <1>4 DEF GetMarket, GetTokenAccounts, Client
    <2> QED BY <2>1, ClientKeeps DEF SetupInv
  <1>5. CASE ClusterNext /\ UNCHANGED <<clientVars, stage, next>>
    BY <1>5, ClusterKeeps DEF SetupInv
  <1> QED BY <1>1, <1>2, <1>3, <1>4, <1>5 DEF SetupNext, Script

(***************************************************************************)
(* What PoolSetup adds to it.                                              *)
(***************************************************************************)
LEMMA StagesKept ==
  ASSUME SetupInv, SetupNext
  PROVE  SetupTypeOK' /\ Stages'
  <1> USE Four
  <1>1. Inv'
    BY InvKept
  <1>2. SetupTypeOK'
    BY <1>1 DEF SetupInv, SetupTypeOK, Inv, SetupNext, Script, SignTransactions,
           SendSigned, SendSignedThrows, SleepSigned, AfterVaults, GetMarket,
           ScriptThrows, GetTokenAccounts, Swap
  <1>3. CASE SignTransactions
    <2>1. hash'[Market] # 0 /\ cur' = cur /\ pc' = pc /\ stage # "pool" /\ stage' = "send"
      BY <1>3 DEF SignTransactions, SetupInv, Inv, TypeOK
    <2> QED BY <1>2, <2>1 DEF SetupInv, Stages
  <1>4. CASE SendSigned \/ SendSignedThrows \/ SleepSigned \/ ScriptThrows \/ Swap
    <2>1. /\ UNCHANGED <<cur, hash>> /\ pc' \in {pc, "threw"}
          /\ \/ stage' = stage
             \/ stage \notin {"sign", "pool"} /\ stage' \notin {"sign", "pool"}
      BY <1>4 DEF SendSigned, SendSignedThrows, SleepSigned, ScriptThrows, Swap, Throw,
             clientVars
    <2> QED BY <1>2, <2>1 DEF SetupInv, Stages
  <1>5. CASE GetMarket
    BY <1>2, <1>5 DEF GetMarket, NextTx, SetupInv, Stages
  <1>6. CASE stage = "pool" /\ stage' = stage /\ Client
    <2>1. hash'[Market] # 0
      <3>1. hash' = hash \/ \E h \in 1 .. slot : hash' = [hash EXCEPT ![cur] = h]
        BY <1>6 DEF Client, SendTxCall, FetchHash, FetchHashThrows, Send, SendThrows,
               GiveUp, Sleep, PollSuccess, PollFailed, PollThrows, NextTx, Finish, Throw
      <3>2. hash[Market] # 0 /\ hash \in [Txs -> Nat] /\ slot \in Nat
        BY <1>6 DEF SetupInv, Stages, Inv, TypeOK, ClusterTypeOK
      <3> QED BY <3>1, <3>2
    <2> QED BY <1>2, <1>6, <2>1 DEF Stages
  <1>7. CASE ClusterNext /\ UNCHANGED <<clientVars, stage, next>>
    BY <1>2, <1>7 DEF SetupInv, Stages, clientVars
  <1> QED BY <1>2, <1>3, <1>4, <1>5, <1>6, <1>7
          DEF SetupNext, Script, GetTokenAccounts, Client

(* FetchHash is for a transaction that has no blockhash: in the stage      *)
(* "pool", where the market's has one, for another.                        *)
LEMMA HashKept ==
  ASSUME SetupInv, Client, stage = "pool" \/ NextTx
  PROVE  hash'[Vaults] = hash[Vaults] /\ hash'[Market] = hash[Market]
  <1> USE Four
  <1>1. CASE FetchHash
    <2>1. hash[cur] = 0 /\ stage = "pool"
      BY <1>1 DEF FetchHash, SetupInv, Inv, LoopState, NextTx
    <2>2. hash[Market] # 0 /\ hash[Vaults] # 0
      BY <2>1 DEF SetupInv, Stages, SharedHash
    <2> QED BY <1>1, <2>1, <2>2 DEF FetchHash, SetupInv, Inv, TypeOK
  <1>2. CASE ~FetchHash
    BY <1>2 DEF Client, SendTxCall, FetchHashThrows, Send, SendThrows, GiveUp, Sleep,
           PollSuccess, PollFailed, PollThrows, NextTx, Finish, Throw
  <1> QED BY <1>1, <1>2

LEMMA SharedHashKept ==
  ASSUME SetupInv, SetupNext
  PROVE  SharedHash'
  <1> USE Four
  <1>1. CASE SignTransactions
    BY <1>1, SignKeeps
  <1>2. CASE GetMarket \/ GetTokenAccounts \/ (stage = "pool" /\ SendTxCall)
    <2>1. Client /\ (stage = "pool" \/ NextTx)
      BY <1>2 DEF GetMarket, GetTokenAccounts, Client
    <2> QED BY <2>1, HashKept DEF SetupInv, SharedHash
  <1>3. CASE \/ SendSigned \/ SendSignedThrows \/ SleepSigned \/ ScriptThrows \/ Swap
             \/ ClusterNext /\ UNCHANGED <<clientVars, stage, next>>
    <2>1. hash' = hash
      BY <1>3 DEF SendSigned, SendSignedThrows, SleepSigned, ScriptThrows, Swap, Throw,
             clientVars
    <2> QED BY <2>1 DEF SetupInv, SharedHash
  <1> QED BY <1>1, <1>2, <1>3 DEF SetupNext, Script

LEMMA SeenKept ==
  ASSUME SetupInv, SetupNext
  PROVE  Seen'
  <1> USE Four
  <1>1. CASE Script
    <2>1. landed' = landed /\ forks' = forks
      BY <1>1 DEF Script, SignTransactions, SendSigned, SendSignedThrows, SleepSigned,
             GetMarket, ScriptThrows, GetTokenAccounts, Swap, SendTxCall, FetchHash,
             FetchHashThrows, Send, SendThrows, GiveUp, Sleep, PollSuccess, PollFailed,
             PollThrows, NextTx, Finish, Throw, clusterVars
    <2>2. stage' = "pool" => stage = "pool" \/ Succeeded(Market)
      BY <1>1 DEF Script, SignTransactions, SendSigned, SendSignedThrows, SleepSigned,
             GetMarket, Loads, ScriptThrows, GetTokenAccounts, Swap
    <2> QED BY <2>1, <2>2 DEF SetupInv, Seen, Succeeded
  <1>2. CASE ClusterNext /\ UNCHANGED <<clientVars, stage, next>>
    <2>1. CASE \E k \in 1 .. slot : Abandon(k)
      BY <2>1 DEF Abandon, Seen, SetupInv, Inv, TypeOK, ClusterTypeOK
    <2>2. CASE Tick \/ \E sig \in inflight : Land(sig) \/ Lose(sig)
      <3>1. landed \subseteq landed' /\ forks' = forks
        BY <2>2 DEF Tick, Land, Lose
      <3> QED BY <1>2, <3>1 DEF SetupInv, Seen, Succeeded, clientVars
    <2> QED BY <1>2, <2>1, <2>2 DEF ClusterNext
  <1> QED BY <1>1, <1>2 DEF SetupNext

LEMMA SetupNextKeeps == SetupInv /\ [SetupNext]_setupVars => SetupInv'
  <1> SUFFICES ASSUME SetupInv, [SetupNext]_setupVars PROVE SetupInv'
      OBVIOUS
  <1>1. CASE SetupNext
    BY <1>1, InvKept, StagesKept, SharedHashKept, SeenKept DEF SetupInv
  <1>2. CASE UNCHANGED setupVars
    <2>1. Inv'
      BY <1>2, NextKeeps DEF setupVars, vars, SetupInv
    <2>2. Stages' /\ SharedHash' /\ Seen'
      BY <1>2 DEF setupVars, SetupInv, Stages, SharedHash, Seen, Succeeded
    <2> QED BY <1>2, <2>1, <2>2 DEF setupVars, SetupInv, SetupTypeOK, Inv
  <1> QED BY <1>1, <1>2

(***************************************************************************)
(* What the set-up guarantees.                                             *)
(***************************************************************************)
LEMMA SetupAlways == SetupSpec => []SetupInv
  BY SetupInitInv, SetupNextKeeps, PTL DEF SetupSpec

(* The script's state stays well typed, that of sendTx included.           *)
THEOREM SetupTyped == SetupSpec => []SetupTypeOK
  <1>1. SetupInv => SetupTypeOK
    BY DEF SetupInv
  <1> QED BY SetupAlways, <1>1, PTL

(* What has succeeded has succeeded with all that it needs.                *)
LEMMA MarketWhole ==
  ASSUME SetupInv
  PROVE  /\ Succeeded(Market) => Succeeded(Vaults)
         /\ Succeeded(InitPool) => Succeeded(Market) /\ Succeeded(CreatePool)
  BY Four DEF SetupInv, Inv, InOrder, Succeeded

(* While no fork is abandoned, nothing of a pool runs without its market,  *)
(* whatever is lost, late or refused on the way.                           *)
THEOREM PoolNeedsMarket == SetupSpec => []PoolOnMarket
  <1>1. ASSUME SetupInv PROVE PoolOnMarket
    <2> SUFFICES ASSUME forks = 0, NEW e \in landed, e.tx \in {CreatePool, InitPool}
                 PROVE  Succeeded(Vaults) /\ Succeeded(Market)
        BY DEF PoolOnMarket
    <2>1. hash[e.tx] # 0
      BY <1>1 DEF SetupInv, Inv, OneHash
    <2>2. stage = "pool"
      BY <1>1, <2>1, Four DEF SetupInv, Stages, Inv, LoopState
    <2> QED BY <1>1, <2>2, MarketWhole DEF SetupInv, Seen
  <1> QED BY SetupAlways, <1>1, PTL

(* While no fork is abandoned, a success reported for the initialisation   *)
(* of the pool stands for the success of all four transactions.            *)
THEOREM WholePool == SetupSpec => []PoolSuccessIsWhole
  <1>1. ASSUME SetupInv PROVE PoolSuccessIsWhole
    <2>1. ASSUME forks = 0, report[InitPool] = "success" PROVE Succeeded(InitPool)
      BY <1>1, <2>1, Four DEF SetupInv, Inv, SuccessIsReal
    <2> QED BY <1>1, <2>1, MarketWhole, Four DEF PoolSuccessIsWhole
  <1> QED BY SetupAlways, <1>1, PTL

LEMMA DoomedStep ==
  ASSUME SetupInv, SetupNext, Doomed
  PROVE  Doomed' \/ (forks' # forks /\ Recent(hash[Market])')
  <1> USE Four
  <1>1. CASE Script
    <2>1. UNCHANGED <<slot, dropped, landed>>
      BY <1>1 DEF Script, SignTransactions, SendSigned, SendSignedThrows, SleepSigned,
             GetMarket, ScriptThrows, GetTokenAccounts, Swap, SendTxCall, FetchHash,
             FetchHashThrows, Send, SendThrows, GiveUp, Sleep, PollSuccess, PollFailed,
             PollThrows, NextTx, Finish, Throw, clusterVars
    <2>2. stage' # "pool" /\ hash' = hash
      BY <1>1 DEF Doomed, Script, SignTransactions, SendSigned, SendSignedThrows,
             SleepSigned, GetMarket, Loads, ScriptThrows, GetTokenAccounts, Swap,
             Throw, clientVars, SetupInv, Stages
    <2> QED BY <2>1, <2>2 DEF Doomed, Succeeded, Recent
  <1>2. CASE ClusterNext /\ UNCHANGED <<clientVars, stage, next>>
    <2> USE DEF clientVars
    <2>1. CASE \E sig \in inflight : Land(sig)
      <3>1. PICK sig \in inflight : Land(sig)
        BY <2>1
      <3>2. sig.tx # Market
        BY <3>1 DEF Doomed, SetupInv, Inv, OneHash, Land, Landed
      <3>3. ~Succeeded(Market)'
        BY <3>1, <3>2 DEF Doomed, Succeeded, Land
      <3> QED BY <1>2, <3>1, <3>3 DEF Doomed, Land, Recent
    <2>2. CASE Tick
      <3>1. hash[Market] \in Nat /\ slot \in Nat /\ MaxAge \in Nat
        BY ClusterAssumption DEF SetupInv, Inv, TypeOK, ClusterTypeOK
      <3>2. ~Recent(hash[Market]) => ~Recent(hash[Market])'
        BY <1>2, <2>2, <3>1 DEF Tick, Recent
      <3> QED BY <1>2, <2>2, <3>2 DEF Tick, Doomed, Succeeded
    <2>3. CASE \E sig \in inflight : Lose(sig)
      BY <1>2, <2>3 DEF Lose, Doomed, Succeeded, Recent
    <2>4. CASE \E k \in 1 .. slot : Abandon(k)
      <3>1. /\ forks' # forks /\ landed' \subseteq landed /\ hash' = hash
            /\ UNCHANGED <<stage>>
        BY <1>2, <2>4 DEF Abandon, SetupInv, Inv, TypeOK, ClusterTypeOK
      <3> QED BY <3>1 DEF Doomed, Succeeded
    <2> QED BY <1>2, <2>1, <2>2, <2>3, <2>4 DEF ClusterNext
  <1> QED BY <1>1, <1>2 DEF SetupNext

(* Once the market cannot come to be, the set-up never gets past it.       *)
THEOREM NoRescue == SetupSpec => DoomedStays
  <1>1. SetupInv /\ [SetupNext]_setupVars =>
          [Doomed => Doomed' \/ (forks' # forks /\ Recent(hash[Market])')]_setupVars
    BY DoomedStep
  <1> QED BY SetupAlways, <1>1, PTL DEF SetupSpec, DoomedStays

LEMMA SetupInitMaps == SetupInit => O!OutcomesInit
  <1> SUFFICES ASSUME SetupInit PROVE O!OutcomesInit
      OBVIOUS
  <1>1. OutcomeOf = [tx \in Txs |-> "none"]
    BY DEF SetupInit, ClusterInit, OutcomeOf, Succeeded
  <1> QED BY <1>1 DEF SetupInit, ClusterInit, O!OutcomesInit

(* The set-up as a whole, too, keeps the promise of Outcomes: sending the  *)
(* market's transactions once each and unseen does not break it.           *)
THEOREM SetupImplementation == SetupSpec => KeepsPromise
  <1>1. ASSUME SetupInv, [SetupNext]_setupVars
        PROVE  [O!OutcomesNext]_(O!outcomesVars)
    <2>1. CASE Client
      BY <1>1, <2>1, ClientMaps DEF SetupInv
    <2>2. CASE ClusterNext /\ UNCHANGED clientVars
      BY <1>1, <2>2, ClusterMaps DEF SetupInv
    <2>3. CASE UNCHANGED <<landed, report, forks>>
      BY <2>3 DEF O!outcomesVars, OutcomeOf, Succeeded
    <2>4. Client \/ (ClusterNext /\ UNCHANGED clientVars) \/ UNCHANGED <<landed, report, forks>>
      BY <1>1 DEF SetupNext, Script, SignTransactions, SendSigned, SendSignedThrows,
             SleepSigned, GetMarket, ScriptThrows, GetTokenAccounts, Swap, Throw, Client,
             clientVars, clusterVars, setupVars
    <2> QED BY <2>1, <2>2, <2>3, <2>4
  <1> QED BY <1>1, SetupAlways, SetupInitMaps, PTL
          DEF SetupSpec, KeepsPromise, O!OutcomesSpec

=============================================================================
