------------------------------ MODULE MCSendTx ------------------------------
(* sendTx for scripts whose transactions build on each other in turn.      *)
EXTENDS SendTx

Chain == [tx \in Txs |-> {t \in Txs : t = tx - 1}]

=============================================================================
