------------------------------- MODULE Wallet -------------------------------
(***************************************************************************)
(* The wallet of the node, BaseWallet (hathor/wallet/base_wallet.py): its  *)
(* unspent, maybe spent and spent outputs, kept up to date by a call for   *)
(* every accepted vertex and, later, by the events of the consensus that   *)
(* wait in the pubsub queue.                                               *)
(*                                                                         *)
(* A transaction has one output, named as the transaction.  The ledger is  *)
(* what consensus promises: executed transactions do not conflict and      *)
(* depend on executed ones only; anything else may change with each new    *)
(* vertex.  Voided outputs and spends are remembered for the history only, *)
(* and are left out with the balance, which is computed from the outputs.  *)
(***************************************************************************)
EXTENDS Naturals, FiniteSets, SequencesExt

CONSTANTS
    Inputs,     \* [transaction -> the outputs it spends]; numbers are timestamps
    Mine,       \* the outputs to addresses of the wallet
    MaxQueue    \* bound: events that wait in the queue

VARIABLES
    stored,     \* transactions in the storage
    executed,   \* those that are not voided
    queue,      \* events of the consensus in PubSubManager.queue
    wallet,     \* [unspent, maybe, spent]
    raised      \* history: handle_publish raised an exception

vars == <<stored, executed, queue, wallet, raised>>

\* What the wallet promises, with the outputs it can spend.
INSTANCE WalletSafety

Txs == DOMAIN Inputs

(* What the proof assumes: an output is spent by later transactions only.  *)
WalletAssumption ==
    /\ IsFiniteSet(Txs) /\ Txs \subseteq Nat
    /\ \A t \in Txs : Inputs[t] \subseteq {o \in Txs : o < t}

Init ==
    /\ stored = {} /\ executed = {}
    /\ queue = <<>>
    /\ wallet = [unspent |-> {}, maybe |-> {}, spent |-> <<>>]
    /\ raised = FALSE

----------------------------------------------------------------------------
(* Operations of the wallet, on its state w.                               *)

SpendersOf(w, o) == IF o \in DOMAIN w.spent THEN w.spent[o] ELSE {}

(* The loops over the inputs of a transaction change what is known of one  *)
(* output at a time: here all of them at once.  Outputs in O become spent  *)
(* by t.                                                                   *)
Spend(w, O, t) ==
    [unspent |-> w.unspent \ O, maybe |-> w.maybe \ O,
     spent |-> [o \in DOMAIN w.spent \cup O |->
                  IF o \in O THEN SpendersOf(w, o) \cup {t} ELSE w.spent[o]]]

(* on_new_tx of an executed vertex; a spend of an output that was never    *)
(* seen is not recorded.                                                   *)
NewOutput(w, t) == IF t \in Mine THEN [w EXCEPT !.unspent = @ \cup {t}] ELSE w
NewInputs(w, t) ==
    Spend(w, {o \in Inputs[t] \cap Mine : o \in Available(w) \cup DOMAIN w.spent}, t)
OnNewTx(w, t) == NewInputs(NewOutput(w, t), t)

(* on_tx_voided.  The output leaves whichever set it is in.                *)
VoidedOutput(w, t) ==
    IF t \notin Mine THEN w
    ELSE IF t \in Available(w) THEN [w EXCEPT !.unspent = @ \ {t}, !.maybe = @ \ {t}]
    ELSE [w EXCEPT !.spent = [o \in DOMAIN w.spent \ {t} |-> w.spent[o]]]

(* An output is unspent again when this was the last of its spends.  The   *)
(* inputs are looked up in the storage: at one that was removed the        *)
(* handler raises, and the inputs after it are not handled.                *)
Found(t) == {o \in Inputs[t] : \A p \in Inputs[t] : p <= o => p \in stored}
VoidedInputs(w, t) ==
    LET undone == {o \in Found(t) \cap Mine : t \in SpendersOf(w, o)}
    IN [w EXCEPT !.unspent = @ \cup {o \in undone : w.spent[o] = {t}},
                 !.spent = [o \in DOMAIN w.spent |->
                              IF o \in undone THEN w.spent[o] \ {t} ELSE w.spent[o]]]
OnTxVoided(w, t) == VoidedInputs(VoidedOutput(w, t), t)

(* A mutant of WinnerOutput: an output that is spent is created again.     *)
WinnerOutputAlways(w, t) ==
    IF t \in Mine /\ t \notin Available(w) THEN [w EXCEPT !.unspent = @ \cup {t}] ELSE w

(* on_tx_winner.  Restored transactions come in descending order of their  *)
(* timestamps, so a spend may be seen before the output.                   *)
WinnerOutput(w, t) ==
    IF t \in Mine /\ t \notin Available(w) /\ SpendersOf(w, t) = {}
    THEN [w EXCEPT !.unspent = @ \cup {t}] ELSE w

OnTxWinner(w, t) == Spend(WinnerOutput(w, t), Inputs[t] \cap Mine, t)

(* on_tx_update looks at the metadata as it is when the event is handled.  *)
OnTxUpdate(w, t) == IF t \in executed THEN OnTxWinner(w, t) ELSE OnTxVoided(w, t)

----------------------------------------------------------------------------
(* The ledger.                                                             *)

Consistent(E) ==
    \A t \in E : Inputs[t] \subseteq E /\ \A u \in E \ {t} : Inputs[t] \cap Inputs[u] = {}

(* _sorted_affected_txs: voided first, then by descending timestamp.  There *)
(* is one such order.                                                      *)
SortedAffected(S, E) ==
    {order \in SetToSeqs(S) :
        \A i, j \in DOMAIN order : i < j =>
            \/ order[i] \notin E /\ order[j] \in E
            \/ (order[i] \in E <=> order[j] \in E) /\ order[i] > order[j]}

(* A vertex is accepted: consensus runs and publishes, and the wallet is   *)
(* told of the new vertex before any of those events is handled.  A        *)
(* removed transaction comes back after they were handled.                 *)
Accept(t, E) ==
    /\ t \notin stored /\ Inputs[t] \subseteq stored
    /\ \A k \in DOMAIN queue : queue[k] # t
    /\ E \subseteq stored \cup {t} /\ Consistent(E)
    /\ stored' = stored \cup {t}
    /\ executed' = E
    /\ \E order \in SortedAffected((executed \ E) \cup (E \ executed) \cup {t}, E) :
          /\ Len(queue) + Len(order) <= MaxQueue
          /\ queue' = queue \o order
    /\ wallet' = IF t \in E THEN OnNewTx(wallet, t) ELSE wallet
    /\ UNCHANGED raised

(* _remove_transactions: transactions of the mempool become invalid with a *)
(* re-org and leave the storage with everything that spends them.          *)
RemoveTransactions(R) ==
    /\ R # {} /\ R \subseteq stored
    /\ \A t \in R : Spenders(t) \cap stored \subseteq R
    /\ stored' = stored \ R
    /\ executed' = executed \ R
    /\ Len(queue) + Cardinality(R) <= MaxQueue
    /\ \E order \in SetToSeqs(R) : queue' = queue \o order
    /\ UNCHANGED <<wallet, raised>>

(* PubSubManager._call_next handles the whole queue.  An exception ends    *)
(* the call, and the rest of the queue is handled by the next one.         *)
Handled ==
    LET after[i \in 0 .. Len(queue)] ==
            IF i = 0 THEN wallet ELSE OnTxUpdate(after[i - 1], queue[i])
    IN after[Len(queue)]
CallNext ==
    /\ queue # <<>>
    /\ queue' = <<>>
    /\ wallet' = Handled
    /\ raised' = (raised \/ \E t \in ToSet(queue) \ executed : Found(t) # Inputs[t])
    /\ UNCHANGED <<stored, executed>>

----------------------------------------------------------------------------
(* The user of the wallet.                                                 *)

(* get_inputs_from_amount takes unspent outputs for a new transaction.     *)
GetInputsFromAmount(S) ==
    /\ S # {} /\ S \subseteq wallet.unspent
    /\ wallet' = [wallet EXCEPT !.unspent = @ \ S, !.maybe = @ \cup S]
    /\ UNCHANGED <<stored, executed, queue, raised>>

(* _check_utxos: outputs taken long ago and not spent are unspent again.   *)
CheckUtxos(S) ==
    /\ S # {} /\ S \subseteq wallet.maybe
    /\ wallet' = [wallet EXCEPT !.unspent = @ \cup S, !.maybe = @ \ S]
    /\ UNCHANGED <<stored, executed, queue, raised>>

Next ==
    \/ \E t \in Txs, E \in SUBSET Txs : Accept(t, E)
    \/ \E R \in SUBSET Txs : RemoveTransactions(R)
    \/ CallNext
    \/ \E S \in SUBSET Mine : GetInputsFromAmount(S) \/ CheckUtxos(S)

Spec == Init /\ [][Next]_vars
=============================================================================
