----------------------------- MODULE PoolSetup -----------------------------
(***************************************************************************)
(* The script my-swap.ts: createSerumMarket signs two transactions with    *)
(* one blockhash, sends each once and returns after fifteen seconds each,  *)
(* whatever became of them; getMarket looks for the market; two calls of   *)
(* sendTx create and initialise the pool; the swap is the first step that  *)
(* waits for a result, and this result is always an error.                 *)
(***************************************************************************)
EXTENDS SendTx

Vaults == 1         \* creates the base and the quote vault of the market
Market == 2         \* creates market, queues and book, and initialises them
CreatePool == 3
InitPool == 4

(* initializeMarket reads the vaults; the pool is initialised with the     *)
(* market and the pool's accounts.  Creating those accounts only uses the  *)
(* market's address, which is known before the market exists.              *)
PoolNeeds == <<{}, {Vaults}, {}, {Market, CreatePool}>>

ASSUME SetupAssumption == N = 4 /\ Needs = PoolNeeds

VARIABLES
    stage,      \* where the script is outside sendTx
    next        \* the transaction of the market to be sent

setupVars == <<slot, dropped, inflight, landed, forks,
               pc, cur, txRetry, hash, report, stage, next>>

SetupTypeOK ==
    /\ TypeOK
    /\ stage \in {"sign", "send", "sleep", "load", "pool"}
    /\ next \in {Vaults, Market}

(* sendTx is not running; its first call will be for CreatePool.           *)
SetupInit ==
    /\ ClusterInit
    /\ pc = "returned"
    /\ cur = Market
    /\ txRetry = 0
    /\ hash = [tx \in Txs |-> 0]
    /\ report = [tx \in Txs |-> "none"]
    /\ stage = "sign"
    /\ next = Vaults

(* A blockhash at commitment 'max' is of a slot that no fork takes back.   *)
IsMax(h) == h = 1 \/ slot - h >= Depth

SignTransactions ==
    /\ stage = "sign" /\ pc = "returned"
    /\ \E h \in 1 .. slot :
          /\ IsMax(h) /\ Recent(h)
          /\ hash' = [hash EXCEPT ![Vaults] = h, ![Market] = h]
    /\ stage' = "send"
    /\ UNCHANGED <<pc, cur, txRetry, report, next, clusterVars>>

(* Variant: each transaction is signed when it is sent.                     *)
SignedNow(tx) == [tx |-> tx, hash |-> slot]
Signed(tx) == [tx |-> tx, hash |-> hash[tx]]

SendSigned ==
    /\ stage = "send" /\ pc = "returned"
    /\ inflight' = inflight \cup {Signed(next)}
    /\ stage' = "sleep"
    /\ UNCHANGED <<slot, dropped, landed, forks, clientVars, next>>

(* Variant: the loop over the transactions does not advance.                *)
AfterVaultsAgain(tx) == tx
AfterVaults(tx) == Market

(* The fifteen seconds are over; no status is asked for.                   *)
SleepSigned ==
    /\ stage = "sleep" /\ pc = "returned"
    /\ \/ next = Vaults /\ next' = AfterVaults(next) /\ stage' = "send"
       \/ next = Market /\ stage' = "load" /\ UNCHANGED next
    /\ UNCHANGED <<clientVars, clusterVars>>

(* Market.load finds the account, owned and initialised.  Variant: the     *)
(* market that createSerumMarket returned is used without looking.          *)
LoadsAnyway == TRUE
Loads == Succeeded(Market)

GetMarket ==
    /\ stage = "load"
    /\ Loads
    /\ NextTx
    /\ stage' = "pool"
    /\ UNCHANGED next

(* A call of an RPC node outside sendTx rejects, or throws on its answer:  *)
(* the market is null at a node that lags, the owner has no token account  *)
(* of the mint.                                                            *)
ScriptThrows ==
    /\ stage \in {"sign", "send", "load"} \/ (stage = "pool" /\ cur < N)
    /\ Throw("returned")
    /\ UNCHANGED <<clusterVars, stage, next>>

SendSignedThrows ==
    /\ stage = "send"
    /\ Throw("returned")
    /\ inflight' = inflight \cup {Signed(next)}
    /\ UNCHANGED <<slot, dropped, landed, forks, stage, next>>

(* getTokenAccountsByOwner has answered, and the second transaction of the *)
(* pool is built, whatever sendTx came to with the first.                  *)
GetTokenAccounts == stage = "pool" /\ NextTx /\ UNCHANGED <<stage, next>>

(* swap_from_sol reverts whatever it finds (SwapFromSol of Dca), and rpc() *)
(* rejects: the script, which has come to its last call, ends with a throw *)
(* even on a complete set-up.                                              *)
Swap ==
    /\ stage = "pool" /\ cur = N
    /\ Throw("returned")
    /\ UNCHANGED <<clusterVars, stage, next>>

Script ==
    \/ SignTransactions \/ SendSigned \/ SendSignedThrows \/ SleepSigned
    \/ GetMarket \/ ScriptThrows
    \/ stage = "pool" /\ SendTxCall /\ UNCHANGED <<stage, next>>
    \/ GetTokenAccounts \/ Swap

SetupNext ==
    \/ Script
    \/ ClusterNext /\ UNCHANGED <<clientVars, stage, next>>

SetupSpec == SetupInit /\ [][SetupNext]_setupVars

(* The event loop resumes the script, as in SendTx.                        *)
FairSetupSpec == SetupSpec /\ WF_setupVars(Script)

-----------------------------------------------------------------------------
(* Nothing of a pool runs for a market that is not there: although         *)
(* createSerumMarket returns the market's addresses whatever became of its *)
(* two transactions, what the script runs after it runs on a whole market, *)
(* as long as no fork took it back.                                        *)
PoolOnMarket ==
    forks = 0 =>
        \A e \in landed : e.tx \in {CreatePool, InitPool} =>
            \A tx \in {Vaults, Market} : Succeeded(tx)

(* The market can no longer come to be: its transaction ran and failed,    *)
(* say because it overtook that of the vaults, or its blockhash, which it  *)
(* shares with that of the vaults, is too old.                             *)
Doomed ==
    /\ stage # "pool" /\ hash[Market] # 0
    /\ ~Succeeded(Market)
    /\ ~Recent(hash[Market]) \/ \E e \in landed : e.tx = Market

(* No retry of the cluster or the script, and no late copy, ever rescues   *)
(* such a set-up: it can only throw.  Only an abandoned fork makes undone  *)
(* that the market's transaction failed.                                   *)
DoomedStays == [][Doomed => Doomed' \/ (forks' # forks /\ Recent(hash[Market])')]_setupVars

(* "success" for the pool's second transaction speaks for all four: the    *)
(* script goes on after each of the others whether or not it succeeded,    *)
(* and never asks what became of those of the market.                      *)
PoolSuccessIsWhole ==
    forks = 0 /\ report[InitPool] = "success" => \A tx \in Txs : Succeeded(tx)

(* The script ends, though never well.                                     *)
SetupEnds == <>(pc = "threw")

=============================================================================
