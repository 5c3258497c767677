---------------------------- MODULE SendTxProofs ----------------------------
(***************************************************************************)
(* Proofs that hold of sendTx for every script, retry count, blockhash age *)
(* and number of forks.                                                    *)
(***************************************************************************)
EXTENDS SendTx, TLAPS

(* One blockhash is all that a transaction is ever signed with; whatever   *)
(* travels or ran carries it.                                              *)
OneHash ==
    /\ \A sig \in inflight : hash[sig.tx] # 0 /\ sig.hash = hash[sig.tx]
    /\ \A e \in landed : hash[e.tx] # 0 /\ e.hash = hash[e.tx]

(* sendTx fetches a blockhash only for a transaction that has none yet, and *)
(* reports on it only then; a success ends the loop, and the counter passes *)
(* the limit only to leave it.                                              *)
LoopState ==
    /\ pc \in {"fetch", "send", "sleep", "poll"} =>
          txRetry <= Tries /\ report[cur] # "success"
    /\ pc = "fetch" => hash[cur] = 0
    /\ pc \in {"send", "sleep", "poll"} => hash[cur] # 0
    /\ \A tx \in Txs : tx > cur => hash[tx] = 0 /\ report[tx] = "none"

(* What succeeded did so in no earlier slot than all that it needs, so     *)
(* that a fork cannot take back the one without the other.                 *)
InOrder ==
    \A e \in landed :
        /\ e.at <= slot
        /\ e.ok => \A t \in Needs[e.tx] :
                     \E f \in landed : f.tx = t /\ f.ok /\ f.at <= e.at

Inv == TypeOK /\ OneHash /\ LoopState /\ AtMostOnce /\ InOrder /\ SuccessIsReal

LEMMA InitInv == Init => Inv
  <1> SUFFICES ASSUME Init PROVE Inv
      OBVIOUS
  <1> USE ClusterAssumption, TriesAssumption
  <1>1. TypeOK
    BY DEF Init, ClusterInit, TypeOK, ClusterTypeOK, Txs
  <1>2. OneHash /\ AtMostOnce /\ InOrder
    BY DEF Init, ClusterInit, OneHash, AtMostOnce, InOrder
  <1>3. LoopState
    BY DEF Init, LoopState, Txs
  <1>4. SuccessIsReal
    BY DEF Init, SuccessIsReal, Txs
  <1> QED BY <1>1, <1>2, <1>3, <1>4 DEF Inv

(***************************************************************************)
(* The cluster.                                                            *)
(***************************************************************************)
LEMMA LandKeeps ==
  ASSUME Inv, NEW sig \in inflight, Land(sig), UNCHANGED clientVars
  PROVE  Inv'
  <1> USE ClusterAssumption, TriesAssumption DEF Land, clientVars
  <1> PICK ok \in BOOLEAN :
        /\ ok => Supplied(sig.tx)
        /\ landed' = landed \cup
              {[tx |-> sig.tx, hash |-> sig.hash, at |-> slot, ok |-> ok]}
      OBVIOUS
  <1> DEFINE new == [tx |-> sig.tx, hash |-> sig.hash, at |-> slot, ok |-> ok]
  <1>1. /\ sig \in Signatures /\ hash[sig.tx] # 0 /\ sig.hash = hash[sig.tx]
        /\ new \in Entries
    BY DEF Inv, TypeOK, ClusterTypeOK, OneHash, Signatures, Entries, Txs
  <1>2. TypeOK'
    BY <1>1 DEF Inv, TypeOK, ClusterTypeOK
  <1>3. OneHash' /\ LoopState'
    BY <1>1 DEF Inv, OneHash, LoopState
  <1>4. \A e \in landed : e.tx # sig.tx
    BY <1>1 DEF Inv, OneHash, Landed
  <1>5. AtMostOnce'
    BY <1>4 DEF Inv, AtMostOnce
  <1>6. \A t \in Txs : Succeeded(t) => Succeeded(t)'
    BY DEF Succeeded
  <1>7. InOrder'
    <2>1. \A e \in landed' : e.at <= slot'
      BY DEF Inv, TypeOK, ClusterTypeOK, InOrder
    <2> SUFFICES ASSUME NEW e \in landed', e.ok, NEW t \in Needs[e.tx]
                 PROVE  \E f \in landed' : f.tx = t /\ f.ok /\ f.at <= e.at
        BY <2>1 DEF InOrder
    <2>2. CASE e \in landed
      BY <2>2 DEF Inv, InOrder
    <2>3. CASE e = new
      <3>1. PICK f \in landed : f.tx = t /\ f.ok
        BY <2>3 DEF Supplied, Succeeded
      <3> QED BY <3>1, <2>3 DEF Inv, InOrder
    <2> QED BY <2>2, <2>3
  <1>8. SuccessIsReal'
    <2> SUFFICES ASSUME forks = 0, NEW tx \in Txs, report[tx] = "success",
                        NEW t \in {tx} \cup Needs[tx]
                 PROVE  Succeeded(t)'
        BY DEF SuccessIsReal
    <2>1. t \in Txs
      BY NeedsAssumption
    <2> QED BY <2>1, <1>6 DEF Inv, SuccessIsReal
  <1> QED BY <1>2, <1>3, <1>5, <1>7, <1>8 DEF Inv

LEMMA AbandonKeeps ==
  ASSUME Inv, NEW k \in 1 .. slot, Abandon(k), UNCHANGED clientVars
  PROVE  Inv'
  <1> USE ClusterAssumption, TriesAssumption DEF Abandon, clientVars
  <1>1. landed' \subseteq landed
    OBVIOUS
  <1>2. TypeOK'
    BY <1>1 DEF Inv, TypeOK, ClusterTypeOK
  <1>3. forks' # 0
    BY DEF Inv, TypeOK, ClusterTypeOK
  <1>4. OneHash' /\ LoopState' /\ AtMostOnce'
    BY <1>1 DEF Inv, OneHash, LoopState, AtMostOnce
  <1>5. SuccessIsReal'
    BY <1>3 DEF SuccessIsReal
  <1>6. InOrder'
    <2>1. k <= slot' /\ k \in Nat /\ landed \subseteq Entries
      BY DEF Inv, TypeOK, ClusterTypeOK
    <2>2. \A e \in landed' : e.at <= slot'
      BY <2>1 DEF Entries
    <2> SUFFICES ASSUME NEW e \in landed', e.ok, NEW t \in Needs[e.tx]
                 PROVE  \E f \in landed' : f.tx = t /\ f.ok /\ f.at <= e.at
        BY <2>2 DEF InOrder
    <2>3. PICK f \in landed : f.tx = t /\ f.ok /\ f.at <= e.at
      BY DEF Inv, InOrder
    <2> QED BY <2>1, <2>3 DEF Entries
  <1> QED BY <1>2, <1>4, <1>5, <1>6 DEF Inv

LEMMA LoseTickKeep ==
  ASSUME Inv, Tick \/ \E sig \in inflight : Lose(sig), UNCHANGED clientVars
  PROVE  Inv'
  <1>1. /\ landed' = landed /\ forks' = forks /\ dropped' = dropped
        /\ inflight' \subseteq inflight
        /\ slot' = slot \/ slot' = slot + 1
    BY DEF Tick, Lose
  <1>2. TypeOK'
    BY <1>1, TriesAssumption, ClusterAssumption
       DEF Inv, TypeOK, ClusterTypeOK, clientVars
  <1>3. OneHash' /\ LoopState' /\ AtMostOnce' /\ SuccessIsReal'
    BY <1>1 DEF Inv, OneHash, LoopState, AtMostOnce, SuccessIsReal, Succeeded,
                clientVars
  <1>4. InOrder'
    BY <1>1 DEF Inv, TypeOK, ClusterTypeOK, Entries, InOrder
  <1> QED BY <1>2, <1>3, <1>4 DEF Inv

LEMMA ClusterKeeps ==
  ASSUME Inv, ClusterNext, UNCHANGED clientVars
  PROVE  Inv'
  BY LandKeeps, AbandonKeeps, LoseTickKeep DEF ClusterNext

(***************************************************************************)
(* The client.                                                             *)
(***************************************************************************)
LEMMA FetchHashKeeps ==
  ASSUME Inv, FetchHash
  PROVE  Inv'
  <1> USE ClusterAssumption, TriesAssumption DEF FetchHash, clusterVars
  <1> PICK h \in 1 .. slot : hash' = [hash EXCEPT ![cur] = h]
      OBVIOUS
  <1>1. /\ h \in Nat \ {0} /\ cur \in Txs /\ hash[cur] = 0 /\ txRetry <= Tries
        /\ hash \in [Txs -> Nat] /\ Txs \subseteq Int
        /\ report[cur] # "success"
        /\ \A tx \in Txs : tx > cur => hash[tx] = 0 /\ report[tx] = "none"
        /\ inflight \subseteq Signatures /\ landed \subseteq Entries
    BY DEF Inv, TypeOK, ClusterTypeOK, LoopState, Txs
  <1>2. TypeOK'
    BY <1>1 DEF Inv, TypeOK, ClusterTypeOK
  <1>3. OneHash'
    <2>1. /\ \A sig \in inflight : sig.tx \in Txs /\ sig.tx # cur
          /\ \A e \in landed : e.tx \in Txs /\ e.tx # cur
      BY <1>1 DEF Inv, OneHash, Signatures, Entries
    <2> QED BY <1>1, <2>1 DEF Inv, OneHash
  <1>4. LoopState'
    BY <1>1 DEF LoopState
  <1>5. AtMostOnce' /\ InOrder' /\ SuccessIsReal'
    BY DEF Inv, AtMostOnce, InOrder, SuccessIsReal, Succeeded
  <1> QED BY <1>2, <1>3, <1>4, <1>5 DEF Inv

(* A step that hands the cluster at most one more copy of the current      *)
(* transaction, and leaves its signature and the reports alone.            *)
LEMMA SendKeeps ==
  ASSUME Inv, Send \/ SendThrows
  PROVE  Inv'
  <1> USE ClusterAssumption, TriesAssumption
  <1>1. /\ pc = "send" /\ UNCHANGED <<slot, dropped, landed, forks, cur, hash, report>>
        /\ pc' \in {"sleep", "threw"}
        /\ inflight' \subseteq inflight \cup {RawTransaction}
        /\ txRetry' \in 0 .. Tries
    BY DEF Send, SendThrows, Throw, Counted, Inv, TypeOK, LoopState
  <1>2. RawTransaction \in Signatures
    BY DEF Inv, TypeOK, RawTransaction, Signatures
  <1>3. hash[cur] # 0
    BY <1>1 DEF Inv, LoopState
  <1>4. TypeOK'
    BY <1>1, <1>2 DEF Inv, TypeOK, ClusterTypeOK
  <1>5. OneHash'
    BY <1>1, <1>3 DEF Inv, OneHash, RawTransaction
  <1>6. LoopState'
    BY <1>1, <1>3 DEF Inv, LoopState
  <1>7. AtMostOnce' /\ InOrder' /\ SuccessIsReal'
    BY <1>1 DEF Inv, AtMostOnce, InOrder, SuccessIsReal, Succeeded
  <1> QED BY <1>4, <1>5, <1>6, <1>7 DEF Inv

(* A step of the client alone that signs nothing and reports no success.   *)
LEMMA QuietKeeps ==
  ASSUME Inv,
         \/ FetchHashThrows \/ GiveUp \/ Sleep \/ PollFailed \/ PollThrows
         \/ NextTx \/ Finish
  PROVE  Inv'
  <1> USE ClusterAssumption, TriesAssumption
  <1>1. UNCHANGED <<slot, dropped, inflight, landed, forks, hash>>
    BY DEF FetchHashThrows, GiveUp, Sleep, PollFailed, PollThrows, NextTx, FirstTry, Finish,
           Throw, clusterVars
  <1>2. /\ TypeOK'
        /\ LoopState'
        /\ \A tx \in Txs : report'[tx] = "success" => report[tx] = "success"
    <2>0. ClusterTypeOK'
      BY <1>1 DEF Inv, TypeOK, ClusterTypeOK
    <2> USE DEF Inv, TypeOK, LoopState, Txs
    <2>1. CASE FetchHashThrows \/ PollThrows
      BY <1>1, <2>0, <2>1 DEF FetchHashThrows, PollThrows, Throw
    <2>2. CASE PollFailed
      <3>1. /\ pc = "poll" /\ pc' = "send" /\ UNCHANGED <<cur, txRetry, hash>>
            /\ report' = [report EXCEPT ![cur] = "failed"]
        BY <2>2 DEF PollFailed
      <3>2. /\ report' \in [Txs -> {"none", "success", "failed"}]
            /\ \A tx \in Txs : report'[tx] # report[tx] => tx = cur /\ report'[tx] = "failed"
            /\ report'[cur] = "failed"
        BY <3>1
      <3>3. TypeOK'
        BY <2>0, <3>1, <3>2
      <3>4. LoopState'
        BY <3>1, <3>2
      <3> QED BY <3>2, <3>3, <3>4
    <2>3. CASE Sleep
      BY <1>1, <2>0, <2>3 DEF Sleep
    <2>4. CASE GiveUp
      <3>1. txRetry' \in 0 .. Tries + 1
        BY <2>4 DEF GiveUp, Counted
      <3> QED BY <1>1, <2>0, <2>4, <3>1 DEF GiveUp
    <2>5. CASE NextTx
      BY <1>1, <2>0, <2>5 DEF NextTx, FirstTry
    <2>6. CASE Finish
      BY <1>1, <2>0, <2>6 DEF Finish
    <2> QED BY <2>1, <2>2, <2>3, <2>4, <2>5, <2>6
  <1>3. OneHash' /\ AtMostOnce' /\ InOrder'
    BY <1>1 DEF Inv, OneHash, AtMostOnce, InOrder, Succeeded
  <1>4. SuccessIsReal'
    BY <1>1, <1>2 DEF Inv, SuccessIsReal, Succeeded
  <1> QED BY <1>2, <1>3, <1>4 DEF Inv

LEMMA PollSuccessKeeps ==
  ASSUME Inv, PollSuccess
  PROVE  Inv'
  <1> USE ClusterAssumption, TriesAssumption DEF PollSuccess, clusterVars
  <1>1. PICK e \in landed : e.tx = cur /\ e.ok
    BY DEF Statuses, IsSuccess
  <1>2. TypeOK' /\ OneHash' /\ LoopState' /\ AtMostOnce' /\ InOrder'
    <2>1. TypeOK'
      BY DEF Inv, TypeOK, ClusterTypeOK
    <2>2. OneHash' /\ AtMostOnce' /\ InOrder'
      BY DEF Inv, OneHash, AtMostOnce, InOrder
    <2>3. LoopState'
      BY DEF Inv, TypeOK, LoopState, Txs
    <2> QED BY <2>1, <2>2, <2>3
  <1>3. SuccessIsReal'
    <2> SUFFICES ASSUME forks = 0, NEW tx \in Txs, report'[tx] = "success",
                        NEW t \in {tx} \cup Needs[tx]
                 PROVE  Succeeded(t)
        BY DEF SuccessIsReal, Succeeded
    <2>1. CASE tx = cur
      BY <1>1, <2>1 DEF Inv, InOrder, Succeeded
    <2>2. CASE tx # cur
      BY <2>2 DEF Inv, TypeOK, SuccessIsReal
    <2> QED BY <2>1, <2>2
  <1> QED BY <1>2, <1>3 DEF Inv

LEMMA ClientKeeps ==
  ASSUME Inv, Client
  PROVE  Inv'
  BY FetchHashKeeps, SendKeeps, QuietKeeps, PollSuccessKeeps DEF Client, SendTxCall

LEMMA NextKeeps == Inv /\ [Next]_vars => Inv'
  <1> SUFFICES ASSUME Inv, [Next]_vars PROVE Inv'
      OBVIOUS
  <1>1. CASE Client
    BY <1>1, ClientKeeps
  <1>2. CASE ClusterNext /\ UNCHANGED clientVars
    BY <1>2, ClusterKeeps
  <1>3. CASE UNCHANGED vars
    BY <1>3 DEF vars, Inv, TypeOK, ClusterTypeOK, OneHash, LoopState, AtMostOnce,
                InOrder, SuccessIsReal, Succeeded
  <1> QED BY <1>1, <1>2, <1>3 DEF Next

LEMMA Always == Spec => []Inv
  <1> QED BY InitInv, NextKeeps, PTL DEF Spec

(* Whatever sendTx and the cluster do, the script's state is well typed:   *)
(* no call sends more than Tries times.                                    *)
THEOREM Typed == Spec => []TypeOK
  <1>1. Inv => TypeOK
    BY DEF Inv
  <1> QED BY <1>1, Always, PTL

(* Whatever is retried, lost, duplicated, undone or run again: no          *)
(* transaction of the script ever runs twice.                              *)
THEOREM RunsOnce == Spec => []AtMostOnce
  <1>1. Inv => AtMostOnce
    BY DEF Inv
  <1> QED BY <1>1, Always, PTL

(* A reported success is real, and so is that of the transactions it       *)
(* needs, as long as no fork was abandoned.                                *)
THEOREM HonestSuccess == Spec => []SuccessIsReal
  <1>1. Inv => SuccessIsReal
    BY DEF Inv
  <1> QED BY <1>1, Always, PTL

(* A step that could break ExpiryIsFinal is Land, and it takes only copies *)
(* whose blockhash, the only one of their transaction, is recent.          *)
LEMMA ExpiryStep ==
  ASSUME Inv, Next, NEW tx \in Txs,
         hash[tx] # 0, ~Recent(hash[tx]), \A e \in landed : e.tx # tx
  PROVE  \A e \in landed' : e.tx # tx
  <1>1. CASE \E sig \in inflight : Land(sig)
    <2>1. PICK sig \in inflight : Land(sig)
      BY <1>1
    <2>2. sig.tx # tx
      BY <2>1 DEF Inv, OneHash, Land
    <2> QED BY <2>1, <2>2 DEF Land
  <1>2. CASE ~\E sig \in inflight : Land(sig)
    <2>1. landed' \subseteq landed
      BY <1>2 DEF Next, Client, SendTxCall, ClusterNext, Lose, Tick, Abandon, FetchHash,
             FetchHashThrows, Send, SendThrows, GiveUp, Sleep, PollSuccess,
             PollFailed, PollThrows, NextTx, FirstTry, Finish, clusterVars
    <2> QED BY <2>1
  <1> QED BY <1>1, <1>2

(* Once its blockhash is out of date, a transaction that has not run never *)
(* will, for every script and every behaviour of the cluster.              *)
THEOREM Expiry == Spec => ExpiryIsFinal
  <1>1. Inv /\ [Next]_vars =>
          [\A tx \in Txs :
              /\ hash[tx] # 0
              /\ ~Recent(hash[tx])
              /\ \A e \in landed : e.tx # tx
              => \A e \in landed' : e.tx # tx]_vars
    BY ExpiryStep
  <1> QED BY <1>1, InitInv, NextKeeps, PTL DEF Spec, ExpiryIsFinal

(***************************************************************************)
(* sendTx implements Outcomes.                                             *)
(***************************************************************************)
LEMMA InitMaps == Init => O!OutcomesInit
  <1> SUFFICES ASSUME Init PROVE O!OutcomesInit
      OBVIOUS
  <1>1. OutcomeOf = [tx \in Txs |-> "none"]
    BY DEF Init, ClusterInit, OutcomeOf, Succeeded
  <1> QED BY <1>1 DEF Init, ClusterInit, O!OutcomesInit

(* Running a copy gives a transaction that had come to nothing its result. *)
LEMMA LandMaps ==
  ASSUME Inv, NEW sig \in inflight, Land(sig), UNCHANGED clientVars
  PROVE  O!OutcomesNext
  <1> USE DEF Land, clientVars
  <1> PICK ok \in BOOLEAN :
        /\ ok => Supplied(sig.tx)
        /\ landed' = landed \cup
              {[tx |-> sig.tx, hash |-> sig.hash, at |-> slot, ok |-> ok]}
      OBVIOUS
  <1> DEFINE result == IF ok THEN "ok" ELSE "err"
  <1>1. sig.tx \in Txs /\ \A e \in landed : e.tx # sig.tx
    BY DEF Inv, TypeOK, ClusterTypeOK, Signatures, OneHash, Landed
  <1> DEFINE new == [tx |-> sig.tx, hash |-> sig.hash, at |-> slot, ok |-> ok]
  <1>2. /\ new.tx = sig.tx /\ new.ok = ok
        /\ landed' = landed \cup {new}
    OBVIOUS
  <1> HIDE DEF new
  <1>3. \A tx \in Txs \ {sig.tx} :
           /\ Succeeded(tx)' <=> Succeeded(tx)
           /\ (\E e \in landed' : e.tx = tx) <=> \E e \in landed : e.tx = tx
    BY <1>2 DEF Succeeded
  <1>4. Succeeded(sig.tx)' <=> ok
    <2>1. CASE ok
      BY <1>2, <2>1 DEF Succeeded
    <2>2. CASE ~ok
      <3>1. ~new.ok
        BY <1>2, <2>2
      <3>2. \A e \in landed' : e.tx = sig.tx => e = new
        BY <1>1, <1>2
      <3> QED BY <2>2, <3>1, <3>2 DEF Succeeded
    <2> QED BY <2>1, <2>2
  <1>5. \E e \in landed' : e.tx = sig.tx
    BY <1>2
  <1>6. OutcomeOf' = [OutcomeOf EXCEPT ![sig.tx] = result]
    <2>1. \A tx \in Txs \ {sig.tx} : OutcomeOf'[tx] = OutcomeOf[tx]
      BY <1>3 DEF OutcomeOf, Succeeded
    <2>2. OutcomeOf'[sig.tx] = result
      BY <1>1, <1>4, <1>5 DEF OutcomeOf, Succeeded
    <2>3. OutcomeOf' = [tx \in Txs |-> OutcomeOf'[tx]] /\ DOMAIN OutcomeOf = Txs
      BY DEF OutcomeOf
    <2> QED BY <2>1, <2>2, <2>3
  <1>7. OutcomeOf[sig.tx] = "none"
    BY <1>1 DEF OutcomeOf, Succeeded
  <1>8. result = "ok" => \A t \in Needs[sig.tx] : OutcomeOf[t] = "ok"
    BY <1>1, NeedsAssumption DEF Supplied, OutcomeOf
  <1>9. O!Run(sig.tx, result)
    BY <1>6, <1>7, <1>8 DEF O!Run
  <1>10. result \in {"ok", "err"}
    OBVIOUS
  <1> QED BY <1>1, <1>9, <1>10 DEF O!OutcomesNext

(* What a fork takes back came to nothing, and nothing that stays needs it.*)
LEMMA AbandonMaps ==
  ASSUME Inv, NEW k \in 1 .. slot, Abandon(k), UNCHANGED clientVars
  PROVE  O!OutcomesNext
  <1> USE DEF Abandon, clientVars
  <1> DEFINE lost == {tx \in Txs : \E e \in landed : e.tx = tx /\ e \notin landed'}
  <1>1. landed \subseteq Entries /\ landed' = {e \in landed : e.at <= k} /\ k \in Nat
    BY DEF Inv, TypeOK, ClusterTypeOK
  <1>2. ASSUME NEW tx \in Txs \ lost, OutcomeOf[tx] = "ok"
        PROVE  Needs[tx] \cap lost = {}
    <2>1. PICK e \in landed : e.tx = tx /\ e.ok
      BY <1>2 DEF OutcomeOf, Succeeded
    <2>2. e.at <= k
      BY <1>1, <2>1
    <2> SUFFICES ASSUME NEW t \in Needs[tx], NEW g \in landed, g.tx = t, g \notin landed'
                 PROVE  FALSE
        OBVIOUS
    <2>3. PICK f \in landed : f.tx = t /\ f.ok /\ f.at <= e.at
      BY <2>1 DEF Inv, InOrder
    <2>4. f \in landed'
      BY <1>1, <2>1, <2>2, <2>3 DEF Entries
    <2> QED BY <2>3, <2>4 DEF Inv, AtMostOnce
  <1>3. \A tx \in lost : \A e \in landed' : e.tx # tx
    BY <1>1 DEF Inv, AtMostOnce
  <1>4. \A tx \in Txs \ lost : \A e \in landed : e.tx = tx => e \in landed'
    OBVIOUS
  <1>5. OutcomeOf' = [tx \in Txs |-> IF tx \in lost THEN "none" ELSE OutcomeOf[tx]]
    BY <1>1, <1>3, <1>4 DEF OutcomeOf, Succeeded
  <1>6. O!Undo(lost)
    BY <1>2, <1>5 DEF O!Undo
  <1> QED BY <1>6 DEF O!OutcomesNext

(* Of the steps of sendTx, those that report tell, the others change       *)
(* nothing a caller is promised.                                           *)
LEMMA ClientMaps ==
  ASSUME Inv, Client
  PROVE  [O!OutcomesNext]_(O!outcomesVars)
  <1>0. cur \in Txs /\ UNCHANGED <<landed, forks>> /\ OutcomeOf' = OutcomeOf
    <2>1. UNCHANGED <<landed, forks>>
      BY DEF Client, SendTxCall, FetchHash, FetchHashThrows, Send, SendThrows, GiveUp, Sleep,
             PollSuccess, PollFailed, PollThrows, NextTx, Finish, Throw, clusterVars
    <2> QED BY <2>1 DEF OutcomeOf, Succeeded, Inv, TypeOK
  <1>1. CASE PollSuccess
    <2>1. \E e \in landed : e.tx = cur /\ e.ok
      BY <1>1 DEF PollSuccess, Statuses, IsSuccess
    <2>2. OutcomeOf[cur] = "ok"
      BY <1>0, <2>1 DEF OutcomeOf, Succeeded
    <2>3. O!Tell(cur, "success")
      BY <1>0, <1>1, <2>2 DEF PollSuccess, O!Tell, Inv, LoopState
    <2> QED BY <1>0, <2>3 DEF O!OutcomesNext
  <1>2. CASE PollFailed
    <2>1. O!Tell(cur, "failed")
      BY <1>0, <1>2 DEF PollFailed, O!Tell, Inv, LoopState
    <2> QED BY <1>0, <2>1 DEF O!OutcomesNext
  <1>3. CASE ~PollSuccess /\ ~PollFailed
    <2>1. UNCHANGED report
      BY <1>3 DEF Client, SendTxCall, FetchHash, FetchHashThrows, Send, SendThrows, GiveUp,
             Sleep, PollThrows, NextTx, Finish, Throw
    <2> QED BY <1>0, <2>1 DEF O!outcomesVars
  <1> QED BY <1>1, <1>2, <1>3

LEMMA ClusterMaps ==
  ASSUME Inv, ClusterNext, UNCHANGED clientVars
  PROVE  [O!OutcomesNext]_(O!outcomesVars)
  <1>1. CASE Tick \/ \E sig \in inflight : Lose(sig)
    <2>1. UNCHANGED <<landed, forks, report>>
      BY <1>1 DEF Tick, Lose, clientVars
    <2>2. OutcomeOf' = OutcomeOf
      BY <2>1 DEF OutcomeOf, Succeeded
    <2> QED BY <2>1, <2>2 DEF O!outcomesVars
  <1> QED BY <1>1, LandMaps, AbandonMaps DEF ClusterNext

(* For every script, retry count and behaviour of the cluster, sendTx      *)
(* gives its callers what Outcomes promises them: what it reports comes in *)
(* the order of the script, "success" only while it is one and then        *)
(* nothing more, "failed" after each look, which a success may follow.     *)
THEOREM Implementation == Spec => KeepsPromise
  <1>1. ASSUME Inv, [Next]_vars
        PROVE  [O!OutcomesNext]_(O!outcomesVars)
    <2>1. CASE UNCHANGED vars
      <3>1. OutcomeOf' = OutcomeOf /\ UNCHANGED <<report, forks>>
        BY <2>1 DEF vars, OutcomeOf, Succeeded
      <3> QED BY <3>1 DEF O!outcomesVars
    <2> QED BY <1>1, <2>1, ClientMaps, ClusterMaps DEF Next
  <1> QED BY <1>1, InitInv, NextKeeps, InitMaps, PTL
          DEF Spec, KeepsPromise, O!OutcomesSpec

=============================================================================
