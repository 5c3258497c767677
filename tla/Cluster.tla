------------------------------ MODULE Cluster ------------------------------
(***************************************************************************)
(* The Solana cluster as the scripts under src/tests see it through        *)
(* @solana/web3.js.  It is not in the repository: it is modelled from what *)
(* utils.ts asks of it and prepares for.  A transaction is sent with a     *)
(* recent blockhash, may be lost, runs at most once per signature and only *)
(* while its blockhash is recent, and may be undone when the fork that ran *)
(* it is abandoned (utils.ts reads 'processed' state).                     *)
(*                                                                         *)
(* The transactions of a script are 1 .. N; each may need accounts that    *)
(* earlier ones create (my-swap.ts:132-154: create pool, init pool).       *)
(***************************************************************************)
EXTENDS Integers

CONSTANTS
    N,          \* transactions of the script
    Needs,      \* transaction -> those whose accounts it uses
    MaxAge,     \* slots for which a blockhash stays valid
    Depth,      \* slots that an abandoned fork may take back
    MaxSlot,    \* bound: the slots considered
    MaxForks    \* bound: the forks abandoned

ASSUME ClusterAssumption ==
    /\ N \in Nat \ {0}
    /\ {MaxAge, Depth, MaxSlot, MaxForks} \subseteq Nat

Txs == 1 .. N

ASSUME NeedsAssumption == Needs \in [Txs -> SUBSET Txs]

VARIABLES
    slot,       \* the slot in progress; its number stands for its blockhash
    dropped,    \* slots of abandoned forks
    inflight,   \* signatures with a copy on its way to a leader
    landed,     \* what ran: signature, slot, and whether it succeeded
    forks       \* forks abandoned so far

clusterVars == <<slot, dropped, inflight, landed, forks>>

(* A signature is determined by what it signs: transaction and blockhash.  *)
Signatures == [tx: Txs, hash: Nat]
Entries == [tx: Txs, hash: Nat, at: Nat, ok: BOOLEAN]

ClusterTypeOK ==
    /\ slot \in Nat \ {0}
    /\ dropped \subseteq Nat
    /\ inflight \subseteq Signatures
    /\ landed \subseteq Entries
    /\ forks \in Nat

ClusterInit ==
    /\ slot = 1
    /\ dropped = {}
    /\ inflight = {}
    /\ landed = {}
    /\ forks = 0

Recent(h) == h \notin dropped /\ slot - h <= MaxAge

Landed(sig) == \E e \in landed : e.tx = sig.tx /\ e.hash = sig.hash
Succeeded(tx) == \E e \in landed : e.tx = tx /\ e.ok
Supplied(tx) == \A t \in Needs[tx] : Succeeded(t)

(* A leader runs a copy: only once per signature, only while its blockhash *)
(* is recent.  It fails without the accounts it needs, and may fail for    *)
(* reasons of its own.                                                     *)
Land(sig) ==
    /\ sig \in inflight
    /\ ~Landed(sig)
    /\ Recent(sig.hash)
    /\ \E ok \in BOOLEAN :
          /\ ok => Supplied(sig.tx)
          /\ landed' = landed \cup
                {[tx |-> sig.tx, hash |-> sig.hash, at |-> slot, ok |-> ok]}
    /\ UNCHANGED <<slot, dropped, inflight, forks>>

Lose(sig) ==
    /\ sig \in inflight
    /\ inflight' = inflight \ {sig}
    /\ UNCHANGED <<slot, dropped, landed, forks>>

Tick ==
    /\ slot < MaxSlot
    /\ slot' = slot + 1
    /\ UNCHANGED <<dropped, inflight, landed, forks>>

(* The slots after k were a fork that the cluster abandons: what ran in    *)
(* them did not, and their blockhashes never existed.                      *)
Abandon(k) ==
    /\ slot < MaxSlot /\ forks < MaxForks
    /\ 0 < k /\ k < slot /\ slot - k <= Depth
    /\ dropped' = dropped \cup (k + 1 .. slot)
    /\ landed' = {e \in landed : e.at <= k}
    /\ slot' = slot + 1
    /\ forks' = forks + 1
    /\ UNCHANGED inflight

ClusterNext ==
    \/ \E sig \in inflight : Land(sig) \/ Lose(sig)
    \/ Tick
    \/ \E k \in 1 .. slot : Abandon(k)

=============================================================================
