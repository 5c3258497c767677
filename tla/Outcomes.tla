------------------------------ MODULE Outcomes ------------------------------
(***************************************************************************)
(* What the callers of sendTx (src/tests/utils.ts:559) build on: whatever  *)
(* is sent again, delayed or lost, a transaction takes effect at most      *)
(* once and only on top of those it needs.  The caller is told about one   *)
(* transaction after the other: of a success only while it is in effect,   *)
(* and then nothing more; of a failure any number of times, and that       *)
(* promises nothing, as the transaction may still take effect.  No         *)
(* blockhash, no signature, no slot.                                       *)
(***************************************************************************)
EXTENDS Naturals

CONSTANTS
    Txs,        \* the transactions of a script, numbered
    Needs       \* transaction -> those whose accounts it uses

VARIABLES
    outcome,    \* transaction -> "none", or what it came to: "ok", "err"
    told,       \* transaction -> what the caller was told last, or "none"
    undone      \* whether, and how often, the cluster took effects back

outcomesVars == <<outcome, told, undone>>

OutcomesInit ==
    /\ outcome = [tx \in Txs |-> "none"]
    /\ told = [tx \in Txs |-> "none"]
    /\ undone = 0

Run(tx, result) ==
    /\ outcome[tx] = "none"
    /\ result = "ok" => \A t \in Needs[tx] : outcome[t] = "ok"
    /\ outcome' = [outcome EXCEPT ![tx] = result]
    /\ UNCHANGED <<told, undone>>

(* The cluster takes back what lost came to.  Nothing that needs one of    *)
(* them stays in effect.                                                   *)
Undo(lost) ==
    /\ undone' = undone + 1
    /\ \A tx \in Txs \ lost : outcome[tx] = "ok" => Needs[tx] \cap lost = {}
    /\ outcome' = [tx \in Txs |-> IF tx \in lost THEN "none" ELSE outcome[tx]]
    /\ UNCHANGED told

Tell(tx, word) ==
    /\ told[tx] # "success"
    /\ \A t \in Txs : t > tx => told[t] = "none"
    /\ word = "success" => outcome[tx] = "ok"
    /\ told' = [told EXCEPT ![tx] = word]
    /\ UNCHANGED <<outcome, undone>>

OutcomesNext ==
    \/ \E tx \in Txs, result \in {"ok", "err"} : Run(tx, result)
    \/ \E lost \in SUBSET Txs : Undo(lost)
    \/ \E tx \in Txs, word \in {"success", "failed"} : Tell(tx, word)

OutcomesSpec == OutcomesInit /\ [][OutcomesNext]_outcomesVars

=============================================================================
