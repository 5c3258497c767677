------------------------------- MODULE SendTx -------------------------------
(***************************************************************************)
(* sendTx (src/tests/utils.ts:559) as the scripts use it: transaction      *)
(* after transaction, each signed once, sent up to three times, and looked *)
(* up six seconds after each send.  sendTx returns in the same way whether *)
(* it saw the transaction succeed or gave up, and the console is all that  *)
(* tells: "failed" after each look that showed no success, "success" after *)
(* the one that did.  An RPC call that rejects makes it throw, which ends  *)
(* the script.                                                             *)
(***************************************************************************)
EXTENDS Cluster

CONSTANT Tries      \* sends per transaction: 3 in utils.ts:571

ASSUME TriesAssumption == Tries \in Nat

VARIABLES
    pc,         \* where the script is in sendTx
    cur,        \* the transaction it is sending
    txRetry,    \* the loop counter
    hash,       \* transaction -> the blockhash it is signed with, or 0
    report      \* transaction -> what the console was told last

clientVars == <<pc, cur, txRetry, hash, report>>
vars == <<slot, dropped, inflight, landed, forks, pc, cur, txRetry, hash, report>>

TypeOK ==
    /\ ClusterTypeOK
    /\ pc \in {"fetch", "send", "sleep", "poll", "returned", "finished", "threw"}
    /\ cur \in Txs
    /\ txRetry \in 0 .. Tries + 1
    /\ hash \in [Txs -> Nat]
    /\ report \in [Txs -> {"none", "success", "failed"}]

Init ==
    /\ ClusterInit
    /\ pc = "fetch"
    /\ cur = 1
    /\ txRetry = 0
    /\ hash = [tx \in Txs |-> 0]
    /\ report = [tx \in Txs |-> "none"]

(* Any RPC call may reject; none is caught.                                *)
Throw(label) ==
    /\ pc = label
    /\ pc' = "threw"
    /\ UNCHANGED <<cur, txRetry, hash, report>>

(* The node asked may lag, and what it has 'processed' may be abandoned.   *)
FetchHash ==
    /\ pc = "fetch"
    /\ \E h \in 1 .. slot :
          /\ Recent(h)
          /\ hash' = [hash EXCEPT ![cur] = h]
    /\ pc' = "send"
    /\ UNCHANGED <<cur, txRetry, report, clusterVars>>

FetchHashThrows == Throw("fetch") /\ UNCHANGED clusterVars

(* What every send of the current transaction carries.                     *)
(* Variant: signed again, with the latest blockhash, inside the loop.       *)
RawTransactionResigned == [tx |-> cur, hash |-> slot]
RawTransaction == [tx |-> cur, hash |-> hash[cur]]

(* Variant: the counter is compared but not advanced.                       *)
CountedNot(n) == n
Counted(n) == n + 1

Send ==
    /\ pc = "send"
    /\ txRetry' = Counted(txRetry)
    /\ txRetry' <= Tries
    /\ inflight' = inflight \cup {RawTransaction}
    /\ pc' = "sleep"
    /\ UNCHANGED <<slot, dropped, landed, forks, cur, hash, report>>

(* sendRawTransaction rejects, with or without having passed the copy on.  *)
SendThrows ==
    /\ Counted(txRetry) <= Tries
    /\ Throw("send")
    /\ inflight' \in {inflight, inflight \cup {RawTransaction}}
    /\ UNCHANGED <<slot, dropped, landed, forks>>

(* The loop is over.  Nothing is logged.                                   *)
GiveUp ==
    /\ pc = "send"
    /\ txRetry' = Counted(txRetry)
    /\ txRetry' > Tries
    /\ pc' = "returned"
    /\ UNCHANGED <<cur, hash, report, clusterVars>>

Sleep ==
    /\ pc = "sleep"
    /\ pc' = "poll"
    /\ UNCHANGED <<cur, txRetry, hash, report, clusterVars>>

(* A signature status: "null" from a node that has not seen it run.        *)
Statuses ==
    {"null"} \cup {IF e.ok THEN "ok" ELSE "err" :
                      e \in {x \in landed : x.tx = cur /\ x.hash = hash[cur]}}

(* Variant: any status counts.                                              *)
IsSuccessAny(status) == status # "null"
IsSuccess(status) == status = "ok"

PollSuccess ==
    /\ pc = "poll"
    /\ \E status \in Statuses : IsSuccess(status)
    /\ report' = [report EXCEPT ![cur] = "success"]
    /\ pc' = "returned"
    /\ UNCHANGED <<cur, txRetry, hash, clusterVars>>

(* "failed" is logged whether the transaction failed, is late or is lost,  *)
(* and after every such look; a later one may still show a success.        *)
PollFailed ==
    /\ pc = "poll"
    /\ \E status \in Statuses : ~IsSuccess(status)
    /\ report' = [report EXCEPT ![cur] = "failed"]
    /\ pc' = "send"
    /\ UNCHANGED <<cur, txRetry, hash, clusterVars>>

PollThrows == Throw("poll") /\ UNCHANGED clusterVars

(* Variant: the counter survives the call.                                  *)
FirstTryKept == txRetry
FirstTry == 0

(* The script goes on whatever sendTx saw.                                 *)
NextTx ==
    /\ pc = "returned"
    /\ cur < N
    /\ cur' = cur + 1
    /\ txRetry' = FirstTry
    /\ pc' = "fetch"
    /\ UNCHANGED <<hash, report, clusterVars>>

Finish ==
    /\ pc = "returned"
    /\ cur = N
    /\ pc' = "finished"
    /\ UNCHANGED <<cur, txRetry, hash, report, clusterVars>>

SendTxCall ==
    \/ FetchHash \/ FetchHashThrows
    \/ Send \/ SendThrows \/ GiveUp
    \/ Sleep
    \/ PollSuccess \/ PollFailed \/ PollThrows

Client == SendTxCall \/ NextTx \/ Finish

Next == Client \/ (ClusterNext /\ UNCHANGED clientVars)

Spec == Init /\ [][Next]_vars

(* The event loop resumes the script: timers fire and every RPC promise    *)
(* settles.  Of the cluster nothing is assumed, not even that slots pass.  *)
FairSpec == Spec /\ WF_vars(Client)

-----------------------------------------------------------------------------
(* Sending again never runs a transaction twice, however many copies       *)
(* arrive late, are duplicated by a retry, or run again on another fork.   *)
AtMostOnce == \A e, f \in landed : e.tx = f.tx => e = f

(* "success" is true: unless a fork was abandoned, a transaction so        *)
(* reported did succeed, and so did those it needs, even where sendTx gave *)
(* up on them.                                                             *)
SuccessIsReal ==
    forks = 0 =>
        \A tx \in Txs :
            report[tx] = "success" => \A t \in {tx} \cup Needs[tx] : Succeeded(t)

(* A transaction whose blockhash is no longer recent, and that has not     *)
(* run, never will: no copy of it is left that a leader could still take.  *)
ExpiryIsFinal ==
    [][\A tx \in Txs :
          /\ hash[tx] # 0
          /\ ~Recent(hash[tx])
          /\ \A e \in landed : e.tx # tx
          => \A e \in landed' : e.tx # tx]_vars

(* What a transaction came to: sendTx keeps the promise of Outcomes, step  *)
(* by step, for all that its retries, the late copies and the forks do.    *)
OutcomeOf ==
    [tx \in Txs |-> IF Succeeded(tx) THEN "ok"
                    ELSE IF \E e \in landed : e.tx = tx THEN "err" ELSE "none"]

O == INSTANCE Outcomes WITH outcome <- OutcomeOf, told <- report, undone <- forks

KeepsPromise == O!OutcomesSpec

(* The script ends: it finishes, or an RPC call made it throw.             *)
Terminates == <>(pc \in {"finished", "threw"})

=============================================================================
