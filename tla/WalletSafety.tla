---------------------------- MODULE WalletSafety ----------------------------
(***************************************************************************)
(* What the wallet of the node promises, see Wallet.                       *)
(***************************************************************************)
CONSTANTS Inputs, Mine
VARIABLES executed, queue, wallet, raised

Spenders(o) == {t \in DOMAIN Inputs : o \in Inputs[t]}
Available(w) == w.unspent \cup w.maybe

(* What the ledger says belongs to the wallet.                             *)
Utxos == {o \in Mine \cap executed : Spenders(o) \cap executed = {}}

(* Through conflicts, re-orgs that void and restore chains of              *)
(* transactions, several vertices before the events of the first are       *)
(* handled, and outputs taken for new transactions: once the queue is      *)
(* empty the wallet has exactly the unspent outputs of the ledger, each    *)
(* once, provided no handler raised.                                       *)
WalletMatchesLedger ==
    queue = <<>> /\ ~raised =>
        Available(wallet) = Utxos /\ wallet.unspent \cap wallet.maybe = {}
=============================================================================
