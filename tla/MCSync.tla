------------------------------- MODULE MCSync -------------------------------
(***************************************************************************)
(* The two models of sync-v2 between two nodes: the agent with its block   *)
(* and mempool phases, and the transaction phase.  They share no state:    *)
(* `phase' says which one a behaviour is about, and the connection of the  *)
(* other one is not open.                                                  *)
(***************************************************************************)
EXTENDS Integers, Sequences, FiniteSets, TLC

CONSTANTS
    TxLimit, MaxStartFrom,
    Fanout, BlockLimit, MaxRepeated, MaxTips, MaxStack, MaxScore

VARIABLES
    phase,
    dag, chain, txServer, toServer, toClient, stored, others, client, orphans, agent, txClosed,
    elsewhere, me, peer, server, relays, silent, toPeer, toMe, run, blkClient, mempool,
    score, unsolicited, closed

(* Transactions are 1..4 and blocks 11..14; the genesis is left out.  Block*)
(* 12 follows 11; where there is a re-org it gives way to 13 and 14.       *)
DagTxs == 1 .. 3

Past(deps, S) ==
    LET once(X) == X \cup UNION {deps[t] : t \in X} IN once(once(S))

Dag(deps, p11, p12, p13, p14, after, extra) ==
    LET past(S) == Past(deps, S)
        owned == 11 :> past(p11) @@ 12 :> past(p12) \ past(p11)
                 @@ 13 :> past(p13) \ past(p11) @@ 14 :> past(p14) \ past(p11 \cup p13)
    IN [deps |-> deps @@ 11 :> p11 @@ 12 :> p12 \cup {11} @@ 13 :> p13 \cup {11}
                      @@ 14 :> p14 \cup {13},
        owns |-> owned, height |-> 11 :> 1 @@ 12 :> 2 @@ 13 :> 2 @@ 14 :> 3,
        before |-> <<11, 12>>, after |-> after, elsewhere |-> extra]

Tangles == {f \in [DagTxs -> SUBSET DagTxs] : \A t \in DagTxs : f[t] \subseteq 1 .. t - 1}
Parents == SUBSET DagTxs \ {{}}

Straight ==
    {Dag(x[1], x[2], x[3], {1}, {1}, <<11, 12>>, e) :
        x \in {y \in Tangles \X Parents \X Parents : Past(y[1], y[2] \cup y[3]) = DagTxs},
        e \in {{}, {2}}}
Forked ==
    {Dag(x[1], {1}, x[3], x[2], {3}, <<11, 13, 14>>, {}) :
        x \in {y \in Tangles \X {{1}, {2}, {1, 2}} \X {{3}, {2, 3}} :
            Past(y[1], y[2]) # DagTxs /\ Past(y[1], y[3]) = DagTxs /\ 2 \in Past(y[1], y[2] \cup {3})}}

(* A transaction with three inputs, more than a resumed request can name.  *)
Wide ==
    {Dag((1 :> {} @@ 2 :> {} @@ 3 :> {} @@ 4 :> {1, 2, 3}), {4}, {1}, {1}, {1},
         <<11, 12>>, {})}

MCDags == Straight \cup Forked \cup Wide

----------------------------------------------------------------------------
(* A chain 0 1 2 3 4 with branches 21 22 23 24 from block 1 and 33 34 from *)
(* block 2.  Transaction 102 depends on 101.                               *)
MCParent == 0 :> 0 @@ 1 :> 0 @@ 2 :> 1 @@ 3 :> 2 @@ 4 :> 3 @@ 21 :> 1 @@ 22 :> 21
            @@ 23 :> 22 @@ 24 :> 23 @@ 33 :> 2 @@ 34 :> 33
MCHeight == 0 :> 0 @@ 1 :> 1 @@ 2 :> 2 @@ 3 :> 3 @@ 4 :> 4 @@ 21 :> 2 @@ 22 :> 3
            @@ 23 :> 4 @@ 24 :> 5 @@ 33 :> 3 @@ 34 :> 4
MCTxs == {101, 102}
MCTxDeps == 101 :> {} @@ 102 :> {101}

Scenario(a, b, iGet, peerGets) ==
    [me |-> a, peer |-> b, iGet |-> iGet, peerGets |-> peerGets]

(* Growth and re-orgs on either side during the sync, and mempools.        *)
MCScenarios ==
    {Scenario(a, b, i, p) :
        a \in {0, 2, 22}, b \in {2, 4, 22}, i \in {{}, {3}, {21, 22, 23}},
        p \in {{}, {3, 4}, {21, 22, 23}}}
    \cup {Scenario(a, b, {101}, {2, 101, 102}) : a \in {1, 2}, b \in {1, 2}}
    \cup {Scenario(34, 4, {}, {21, 22, 23, 24}), Scenario(0, 4, {1, 2, 3}, {}),
          Scenario(0, 0, {}, {101, 102})}

----------------------------------------------------------------------------
Tx == INSTANCE TxStreaming WITH
    Dags <- MCDags, Limit <- TxLimit, server <- txServer, closed <- txClosed
Agent == INSTANCE SyncAgent WITH
    Parent <- MCParent, Height <- MCHeight, Txs <- MCTxs, TxDeps <- MCTxDeps,
    Scenarios <- MCScenarios, Limit <- BlockLimit

\* What the theorems of SyncAgentProofs assume of the tree and the mempool.
ASSUME AgentAssumed == Agent!AgentAssumption

\* What the theorem about the transaction phase in P2PProofs assumes of the DAG.
ASSUME TxAssumed == Tx!TxAssumption

txVars == <<dag, chain, txServer, toServer, toClient, stored, others, client, orphans, agent,
            txClosed>>
agentVars == <<elsewhere, me, peer, server, relays, silent, toPeer, toMe, run, blkClient,
               mempool, score, unsolicited, closed>>
allVars == <<phase, txVars, agentVars>>

NoTx ==
    /\ dag = 0 /\ chain = 0 /\ txServer = 0 /\ toServer = 0 /\ toClient = 0 /\ stored = {}
    /\ others = 0 /\ client = 0 /\ orphans = 0 /\ agent = 0 /\ txClosed = "never opened"
NoAgent ==
    /\ elsewhere = 0 /\ me = 0 /\ peer = 0 /\ server = 0 /\ relays = 0 /\ silent = TRUE
    /\ toPeer = 0 /\ toMe = 0 /\ run = Agent!Idle /\ blkClient = 0 /\ mempool = 0
    /\ score = 0 /\ unsolicited = 0 /\ closed = "never opened"

MCInit ==
    \/ phase = "transactions" /\ Tx!Init /\ NoAgent
    \/ phase = "agent" /\ Agent!Init /\ NoTx

MCNext ==
    \/ phase = "transactions" /\ Tx!Next /\ UNCHANGED <<phase, agentVars>>
    \/ phase = "agent" /\ Agent!Next /\ UNCHANGED <<phase, txVars>>

\* Fair actions need an open connection, so the phase that is left out owes nothing.
MCSpec == MCInit /\ [][MCNext]_allVars /\ Tx!Fairness /\ Agent!Fairness

\* An honest peer is not taken for a misbehaving one, see TxStreaming.
HonestPeerIsKept == phase = "transactions" => Tx!HonestPeerIsKept

\* The transaction phase ends, see TxStreaming.
SyncEnds == Tx!SyncEnds

\* The property of TxStreaming that is also proved.
INSTANCE TxStreamingSafety

\* The properties of SyncAgent that are also proved; they say nothing of an
\* agent that was never connected.
INSTANCE SyncAgentSafety WITH closed <- IF phase = "agent" THEN closed ELSE ""

\* The node catches up with a peer that answers, see SyncAgent.
Converges == Agent!Converges
=============================================================================
