------------------------------ MODULE Consensus ------------------------------
(***************************************************************************)
(* The consensus algorithm of hathor/consensus: when a vertex is accepted, *)
(* ConsensusAlgorithm.unsafe_update recomputes which blocks and            *)
(* transactions are executed and which are voided, and by whom.            *)
(*                                                                         *)
(* A vertex arrives once its parents and inputs are stored, in any order   *)
(* consistent with that; its timestamp is later than theirs but otherwise  *)
(* free.  One update is one step: the node runs it without yielding.  The  *)
(* storage (vertices, metadata, height index, block tips) is one record    *)
(* that the operators below, named after the code's methods, take and      *)
(* return.  An assertion of the code that fails, or an exception, is added *)
(* to `failures`; vertex_handler then crashes the node.                    *)
(*                                                                         *)
(* Vertex 1 is the genesis block and 2 stands for both genesis txs; their  *)
(* presence beside another tx parent has no effect and is left out.        *)
(* Vertex 3 is a block mined on the genesis before anything else arrives.  *)
(***************************************************************************)
EXTENDS Integers, Sequences, FiniteSets, SequencesExt

CONSTANTS
    MaxBlocks, MaxTxs,       \* bounds: blocks and transactions accepted
    MaxVertices,             \* bound: both together
    BlockWorks, TxWorks,     \* weight_to_work(weight) of new vertices
    GenesisOutputs           \* spendable outputs of the settled past

ConsensusAssumption ==
    /\ MaxBlocks \in Nat /\ MaxTxs \in Nat /\ MaxVertices \in Nat
    /\ BlockWorks \subseteq Nat \ {0} /\ TxWorks \subseteq Nat \ {0}
    /\ GenesisOutputs \in Nat \ {0}

VARIABLE store

GenesisBlock == 1
GenesisTx == 2
FirstBlock == 3
NoBlock == 0

(* A vertex as it comes from the network.                                  *)
BlockVertex(parent, txs, work, ts) ==
    [block |-> TRUE, parent |-> parent, txs |-> txs, inputs |-> {}, work |-> work, ts |-> ts]
TxVertex(txs, inputs, work, ts) ==
    [block |-> FALSE, parent |-> NoBlock, txs |-> txs, inputs |-> inputs, work |-> work,
     ts |-> ts]

Init ==
    store = [
        dag |-> <<BlockVertex(NoBlock, {}, 1, 1), TxVertex({}, {}, 1, 2),
                  BlockVertex(GenesisBlock, {GenesisTx}, 2, 3)>>,
        voided |-> <<{}, {}, {}>>,              \* meta.voided_by
        conflict |-> <<<<>>, <<>>, <<>>>>,      \* meta.conflict_with
        acc |-> <<1, 1, 2>>,                    \* meta.accumulated_weight
        score |-> <<1, 0, 4>>,                  \* meta.score
        first |-> <<NoBlock, FirstBlock, NoBlock>>,  \* meta.first_block
        index |-> <<GenesisBlock, FirstBlock>>, \* height index, index[h + 1]
        cache |-> {FirstBlock},                 \* _best_block_tips_cache, {} is None
        known |-> {GenesisBlock, FirstBlock},   \* blocks in the block_tips index
        tips |-> {FirstBlock},                  \* those whose interval is open
        reorg |-> NoBlock,                      \* context.reorg_common_block
        failures |-> {}]

----------------------------------------------------------------------------
(* The DAG.                                                                *)

Vertices(s) == 1 .. Len(s.dag)
IsBlock(s, v) == s.dag[v].block
Blocks(s) == {v \in Vertices(s) : IsBlock(s, v)}
Txs(s) == {v \in Vertices(s) : ~IsBlock(s, v)}
Parents(s, v) == s.dag[v].txs \cup ({s.dag[v].parent} \ {NoBlock})
Inputs(s, v) == {i[1] : i \in s.dag[v].inputs}
Children(s, v) == {u \in Vertices(s) : v \in Parents(s, u)}
Spenders(s, v) == {u \in Vertices(s) : v \in Inputs(s, u)}
Before(s, v) == Parents(s, v) \cup Inputs(s, v)
AfterByVerification(s, v) == Children(s, v)
After(s, v) == Children(s, v) \cup Spenders(s, v)
Executed(s, v) == s.voided[v] = {}

RECURSIVE Height(_, _)
Height(s, b) == IF b = GenesisBlock THEN 0 ELSE 1 + Height(s, s.dag[b].parent)

Check(s, condition, what) ==
    IF condition THEN s ELSE [s EXCEPT !.failures = @ \cup {what}]

(* BFSTimestampWalk pops the earliest vertex of its heap.                  *)
Earliest(s, heap) ==
    CHOOSE v \in heap : \A u \in heap \ {v} :
        \/ s.dag[v].ts < s.dag[u].ts
        \/ s.dag[v].ts = s.dag[u].ts /\ v < u

RECURSIVE WalkForward(_, _)
WalkForward(s, heap) ==
    IF heap = {} THEN <<>>
    ELSE LET v == Earliest(s, heap)
         IN <<v>> \o WalkForward(s, (heap \ {v}) \cup After(s, v))

(* update_accumulated_weight: the work of v and of what is after it, the   *)
(* sum being cut as soon as it exceeds the stop value.                     *)
RECURSIVE SumUntil(_, _, _, _)
SumUntil(s, sum, walk, stop) ==
    IF walk = <<>> \/ sum > stop THEN sum
    ELSE SumUntil(s, sum + s.dag[Head(walk)].work, Tail(walk), stop)

NoStop == 1000000
UpdateAccumulatedWeight(s, v, stop) ==
    LET sum(walk) == IF walk = <<>> THEN s.dag[v].work
                     ELSE SumUntil(s, s.dag[v].work + s.dag[Head(walk)].work,
                                   Tail(walk), stop)
    IN IF s.acc[v] > stop THEN s
       ELSE [s EXCEPT !.acc[v] = sum(WalkForward(s, After(s, v)))]

----------------------------------------------------------------------------
(* The block_tips index.                                                   *)

AddTip(s, b) ==
    IF b \in s.known THEN s
    ELSE [s EXCEPT
            !.known = @ \cup {b},
            !.tips = (@ \ {s.dag[b].parent})
                     \cup (IF Children(s, b) \cap s.known = {} THEN {b} ELSE {})]

(* Removing a block reopens the interval of its parent, if that is not     *)
(* voided; a parent that is not indexed is a KeyError.                     *)
DelTip(s, b) ==
    LET p == s.dag[b].parent
        reopen(z) ==
            IF z.voided[p] # {} THEN z
            ELSE IF p \notin z.known THEN Check(z, FALSE, "parent not in block_tips")
            ELSE [z EXCEPT !.tips = IF Children(z, p) \cap z.known = {}
                                    THEN @ \cup {p} ELSE @ \ {p}]
    IN IF b \notin s.known THEN s
       ELSE reopen([s EXCEPT !.known = @ \ {b}, !.tips = @ \ {b}])

MaxOf(S) == CHOOSE x \in S : \A y \in S : y <= x
MinOf(S) == CHOOSE x \in S : \A y \in S : x <= y

WithBestScore(s, S) ==
    IF S = {} THEN {}
    ELSE {b \in S : s.score[b] = MaxOf({s.score[c] : c \in S})}

(* get_best_block_tips                                                     *)
ComputedTips(s) == WithBestScore(s, {b \in s.tips : s.voided[b] \subseteq {b}})
BestTips(s) == IF s.cache # {} THEN s.cache ELSE ComputedTips(s)
CacheTips(s) == [s EXCEPT !.cache = BestTips(s)]

----------------------------------------------------------------------------
(* Transactions: hathor/consensus/transaction_consensus.py                 *)

RECURSIVE CheckConflicts(_, _), CheckAll(_, _), VoidWalk(_, _, _, _, _),
          RestoreWalk(_, _, _, _), TxMarkAsVoided(_, _), MarkAllAsVoided(_, _)

AssertValidConsensus(s, v) ==
    Check(s, Executed(s, v) => \A i \in 1 .. Len(s.conflict[v]) :
                                  ~Executed(s, s.conflict[v][i]),
          "two executed conflicting transactions")

(* remove_first_block_markers                                              *)
RECURSIVE UnmarkWalk(_, _, _)
UnmarkWalk(s, b, heap) ==
    IF heap = {} THEN s
    ELSE LET v == CHOOSE x \in heap : TRUE
         IN IF IsBlock(s, v) \/ s.first[v] # b
            THEN UnmarkWalk(s, b, heap \ {v})
            ELSE UnmarkWalk([s EXCEPT !.first[v] = NoBlock], b,
                            (heap \ {v}) \cup Before(s, v))

(* BlockConsensusAlgorithm.add_voided_by with the block's own hash, and    *)
(* mark_as_voided.  No output of a block is spent within the bounds.       *)
BlockAddVoidedBy(s, b) == [s EXCEPT !.voided[b] = @ \cup {b}]
BlockMarkAsVoidedKeepingMarkers(s, b) == BlockAddVoidedBy(s, b)
BlockMarkAsVoided(s, b) == BlockAddVoidedBy(UnmarkWalk(s, b, Before(s, b)), b)

(* add_voided_by: h is added to everything after the root, blocks          *)
(* included.  A conflicting transaction met on the way also voids itself;  *)
(* the conflicts of those that were executed are decided again at the end. *)
VoidWalk(s, root, h, heap, again) ==
    LET v == Earliest(s, heap)
        again1 == IF v # root /\ Executed(s, v) THEN again \o s.conflict[v] ELSE again
        asBlock(z) ==
            IF IsBlock(s, v) THEN [BlockMarkAsVoided(z, v) EXCEPT !.cache = {}] ELSE z
        voidedByHash(z) ==
            [Check(z, h \notin z.voided[v], "voided twice by the same vertex")
                EXCEPT !.voided[v] = @ \cup {h}]
        voidedByItself(z) ==
            IF z.conflict[v] = <<>> THEN z
            ELSE UpdateAccumulatedWeight(TxMarkAsVoided(z, v), v, NoStop)
        offTheTips(z) == IF IsBlock(s, v) THEN DelTip(z, v) ELSE z
    IN IF heap = {} THEN CheckAll(s, again)
       ELSE VoidWalk(AssertValidConsensus(
                         offTheTips(voidedByItself(voidedByHash(asBlock(s)))), v),
                     root, h, (heap \ {v}) \cup After(s, v), again1)

TxAddVoidedBy(s, t, h) ==
    IF h \in s.voided[t] THEN s ELSE VoidWalk(s, t, h, {t}, <<>>)

TxMarkAsVoided(s, t) ==
    LET s1 == Check(s, s.conflict[t] # <<>>, "voided without a conflict")
    IN IF t \in s.voided[t] THEN s1
       ELSE AssertValidConsensus(TxAddVoidedBy(s1, t, t), t)

(* remove_voided_by: h is removed from everything after the root that has  *)
(* it; transactions left voided by themselves alone are decided again.     *)
RestoreWalk(s, h, heap, again) ==
    LET v == Earliest(s, heap)
        onTheTips(z) == IF IsBlock(z, v) /\ Executed(z, v) THEN AddTip(z, v) ELSE z
        candidate == s.voided[v] = {v, h} /\ v # h /\ ~IsBlock(s, v)
    IN IF heap = {} THEN CheckAll(s, again)
       ELSE IF h \notin s.voided[v] THEN RestoreWalk(s, h, heap \ {v}, again)
       ELSE RestoreWalk(AssertValidConsensus(
                            onTheTips([s EXCEPT !.voided[v] = @ \ {h}]), v),
                        h, (heap \ {v}) \cup After(s, v),
                        IF candidate THEN Append(again, v) ELSE again)

MarkAsWinner(s, t) ==
    LET s1 == Check(s, s.conflict[t] # <<>> /\ s.voided[t] = {t}, "winner is not a candidate")
    IN AssertValidConsensus(RestoreWalk(s1, t, {t}, <<>>), t)

MarkAllAsVoided(s, list) ==
    IF list = <<>> THEN s
    ELSE MarkAllAsVoided(TxMarkAsVoided(s, Head(list)), Tail(list))

(* A mutant of RefreshRivals: the stored weights are trusted.              *)
TrustRivals(s, t, rivals) == s

(* Executed rivals have their accumulated weight refreshed, in the order   *)
(* of conflict_with, up to the first that beats t.                         *)
RECURSIVE RefreshRivals(_, _, _)
RefreshRivals(s, t, rivals) ==
    LET proceed(z) == IF z.acc[Head(rivals)] > z.acc[t] THEN z
                      ELSE RefreshRivals(z, t, Tail(rivals))
    IN IF rivals = <<>> THEN s
       ELSE proceed(UpdateAccumulatedWeight(s, Head(rivals), s.acc[t]))

LatestFirst(s, list) ==
    SetToSortSeq(ToSet(list), LAMBDA x, y :
        s.dag[x].ts > s.dag[y].ts \/ (s.dag[x].ts = s.dag[y].ts /\ x < y))

CheckConflicts(s, t) ==
    LET rivals == s.conflict[t]
        executed == SelectSeq(rivals, LAMBDA c : Executed(s, c))
        beaten == \E c \in ToSet(rivals) : s.voided[c] = {c} /\ s.acc[c] > s.acc[t]
        winUnless(tie, z) == IF tie THEN z ELSE MarkAsWinner(z, t)
        compare(z) ==
            IF \E c \in ToSet(executed) : z.acc[c] > z.acc[t] THEN z
            ELSE winUnless(\E c \in ToSet(executed) : z.acc[c] = z.acc[t],
                           MarkAllAsVoided(z, LatestFirst(z, rivals)))
    IN IF s.voided[t] # {t} \/ beaten THEN s
       ELSE compare(RefreshRivals(s, t, executed))

CheckAll(s, list) ==
    IF list = <<>> THEN s ELSE CheckAll(CheckConflicts(s, Head(list)), Tail(list))

(* mark_inputs_as_used: conflicts of the new transaction.                  *)
RivalsWithSameInputs(s, t) == {u \in Vertices(s) \ {t} : s.dag[u].inputs = s.dag[t].inputs}
Rivals(s, t) == {u \in Vertices(s) \ {t} : s.dag[u].inputs \cap s.dag[t].inputs # {}}

MarkInputsAsUsed(s, t) ==
    LET rivals == SetToSortSeq(Rivals(s, t), <)
    IN [s EXCEPT
          !.conflict = [v \in Vertices(s) |->
              IF v = t THEN rivals
              ELSE IF v \in Rivals(s, t) THEN Append(s.conflict[v], t)
              ELSE s.conflict[v]],
          !.voided[t] = IF rivals = <<>> THEN @ ELSE {t}]

AddWork(s, voiders, work) ==
    [s EXCEPT !.acc = [v \in Vertices(s) |->
                         IF v \in voiders THEN s.acc[v] + work ELSE s.acc[v]]]

(* TransactionConsensusAlgorithm.update_consensus, from update_voided_info *)
(* on.  `order` is the order in which Python iterates over a set of hashes.*)
TxUpdateVoidedInfo(s, t, order) ==
    LET voiders == UNION {s.voided[u] : u \in Before(s, t)}
        own == IF s.conflict[t] # <<>> THEN {t} ELSE {}
        credited == Check(AddWork(s, voiders, s.dag[t].work),
                          t \notin voiders /\ s.acc[t] = s.dag[t].work,
                          "new transaction already voids its past")
        decideVoiders(z) ==
            CheckAll(z, SelectSeq(order, LAMBDA h : h \in voiders /\ ~IsBlock(z, h)))
        voidRival(z, h) ==
            IF Executed(z, h) THEN z
            ELSE IF z.first[h] # NoBlock
            THEN Check(z, FALSE, "voided conflict has a first block")
            ELSE TxMarkAsVoided(z, h)
        voidRivals(z) == FoldLeft(voidRival, z, z.conflict[t])
        decideOwn(z) == IF z.voided[t] = {t} THEN CheckConflicts(z, t) ELSE z
    IN AssertValidConsensus(decideOwn(voidRivals(decideVoiders(
           [credited EXCEPT !.voided[t] = voiders \cup own]))), t)

TxUpdate(s, t, order) == TxUpdateVoidedInfo(MarkInputsAsUsed(s, t), t, order)

----------------------------------------------------------------------------
(* Blocks: hathor/consensus/block_consensus.py                             *)

(* union_voided_by_from_parents: a block's own hash is not passed on.      *)
UnionVoidedByFromParents(s, b) ==
    (s.voided[s.dag[b].parent] \ {s.dag[b].parent})
        \cup UNION {s.voided[t] : t \in s.dag[b].txs}

UpdateVoidedByFromParents(s, b) ==
    LET voiders == UnionVoidedByFromParents(s, b)
    IN IF voiders = {} THEN s
       ELSE DelTip([s EXCEPT !.voided[b] = @ \cup voiders], b)

RECURSIVE FirstParentInBestChain(_, _)
FirstParentInBestChain(s, b) ==
    LET p == s.dag[b].parent
    IN IF Executed(s, p) \/ p = GenesisBlock THEN p ELSE FirstParentInBestChain(s, p)

(* The transactions a block adds to the work of its chain: those in its    *)
(* past not used by an earlier block and not confirmed by time newest.     *)
RECURSIVE NewTxs(_, _, _, _)
NewTxs(s, heap, used, newest) ==
    LET fresh == {v \in heap : /\ ~IsBlock(s, v)
                               /\ v \notin used
                               /\ s.first[v] = NoBlock \/ s.dag[s.first[v]].ts > newest}
    IN IF fresh = {} THEN {}
       ELSE fresh \cup NewTxs(s, UNION {Before(s, v) : v \in fresh}, used \cup fresh, newest)

(* _score_block_dfs: the blocks down to time newest, the lowest first.     *)
AddToScore(below, b, mark, newest) ==
    LET s == below.s
        mine == NewTxs(s, s.dag[b].txs, below.used, newest)
        score == s.dag[b].work + below.score
                 + FoldLeft(LAMBDA sum, t : sum + s.dag[t].work, 0, SetToSeq(mine))
        marked(z) ==
            IF ~mark THEN z
            ELSE Check([z EXCEPT !.first = [v \in Vertices(z) |->
                                       IF v \in mine THEN b ELSE z.first[v]]],
                       \A t \in mine : z.first[t] = NoBlock,
                       "transaction has two first blocks")
        stored(z) == IF z.score[b] = 0 THEN [z EXCEPT !.score[b] = score]
                     ELSE Check(z, z.score[b] = score, "score of a block changed")
    IN [s |-> stored(marked(s)), used |-> below.used \cup mine, score |-> score]

RECURSIVE ScoreBlock(_, _, _, _, _)
ScoreBlock(s, b, used, mark, newest) ==
    LET p == s.dag[b].parent
    IN AddToScore(IF s.dag[p].ts <= newest
                  THEN [s |-> s, used |-> used, score |-> s.score[p]]
                  ELSE ScoreBlock(s, p, used, mark, newest), b, mark, newest)

CalculateScore(s, b, mark) ==
    IF b = GenesisBlock THEN [s |-> s, used |-> {}, score |-> s.score[b]]
    ELSE ScoreBlock(s, b, {}, mark, s.dag[FirstParentInBestChain(s, b)].ts)

(* add_voided_by_to_multiple_chains                                        *)
RECURSIVE VoidChain(_, _, _)
VoidChain(s, b, common) ==
    IF s.dag[b].ts <= s.dag[common].ts THEN s
    ELSE VoidChain(IF b \in s.voided[b] THEN s ELSE BlockMarkAsVoided(s, b),
                   s.dag[b].parent, common)

AddVoidedByToMultipleChains(s, heads, common) ==
    FoldLeft(LAMBDA z, head : VoidChain(z, head, common), s, SetToSortSeq(heads, <))

(* A mutant of RemoveVoidedByFromChain: the tail of the chain is left.     *)
RemoveVoidedByFromHead(s, b) == [s EXCEPT !.voided[b] = @ \ {b}]

RECURSIVE RemoveVoidedByFromChain(_, _)
RemoveVoidedByFromChain(s, b) ==
    IF b \notin s.voided[b] THEN s
    ELSE RemoveVoidedByFromChain([s EXCEPT !.voided[b] = @ \ {b}], s.dag[b].parent)

(* update_score_and_mark_as_the_best_chain_if_possible                     *)
RECURSIVE MarkAsTheBestChainIfPossible(_, _), FindBestInstead(_, _, _)
MarkAsTheBestChainIfPossible(s, b) ==
    LET retry(z) == FindBestInstead(z, b, WithBestScore(z, BestTips(z)))
        accept(z) == IF UnionVoidedByFromParents(z, b) = {} THEN z
                     ELSE retry(CacheTips(UpdateVoidedByFromParents(z, b)))
    IN accept(RemoveVoidedByFromChain(CalculateScore(s, b, TRUE).s, b))

(* The chain turned out to be voided: the best of the others is tried.     *)
FindBestInstead(s, b, best) ==
    LET top == MinOf(best)
        try(z) == IF Cardinality(best) > 1 THEN z
                  ELSE IF top = b THEN Check(z, FALSE, "a voided block is the best head")
                  ELSE MarkAsTheBestChainIfPossible(z, top)
    IN IF best = {} THEN Check(s, FALSE, "no best block")
       ELSE try(AddVoidedByToMultipleChains(s, {b}, FirstParentInBestChain(s, top)))

(* The height index.                                                       *)
IndexAddNew(s, b) ==
    LET h == Height(s, b)
    IN IF h > Len(s.index) \/ (h < Len(s.index) /\ s.index[h + 1] # b)
       THEN Check(s, FALSE, "height index would need a re-org")
       ELSE IF h = Len(s.index) THEN [s EXCEPT !.index = Append(@, b)] ELSE s

RECURSIVE IndexUpdateNewChain(_, _)
IndexUpdateNewChain(s, b) ==
    LET h == Height(s, b)
    IN IF h < Len(s.index) /\ s.index[h + 1] = b THEN s
       ELSE LET s1 == IndexUpdateNewChain(s, s.dag[b].parent)
            IN [s1 EXCEPT !.index = Append(SubSeq(@, 1, h), b)]

MarkAsReorg(s, common) ==
    [Check(s, s.reorg = NoBlock, "two re-orgs in one update") EXCEPT !.reorg = common]

(* Case (i) of update_voided_info: the head of the best chain is extended. *)
ExtendBestChain(s, b) ==
    LET index(z) == IF Executed(z, b) THEN [IndexAddNew(z, b) EXCEPT !.cache = {b}] ELSE z
    IN index(MarkAsTheBestChainIfPossible(s, b))

(* The block loses, ties or wins against the heads of the best chains.     *)
DecideChain(s, b, score, heads, best) ==
    LET common == FirstParentInBestChain(s, b)
        voidHeads == AddVoidedByToMultipleChains(
                        Check(s, Cardinality({x \in heads : Executed(s, x)}) <= 1,
                              "more than one valid head"), heads, common)
        tie(z) == IF Executed(z, MaxOf(heads)) THEN MarkAsReorg(z, common) ELSE z
        index(z) == [IndexUpdateNewChain(
                        Check(z, z.index[Len(z.index)] # b, "already indexed"), b)
                            EXCEPT !.cache = {b}]
        win(z) == IF ~Executed(z, b) THEN z
                  ELSE IF common \in heads THEN index(z)
                  ELSE MarkAsReorg(index(z), common)
    IN IF score < best THEN UpdateVoidedByFromParents(s, b)
       ELSE IF score = best THEN tie([voidHeads EXCEPT !.cache = heads \cup {b}])
       ELSE win(MarkAsTheBestChainIfPossible(voidHeads, b))

(* The other cases: void the block, compare its score, maybe make it win.  *)
CompareChains(s, b) ==
    LET decide(scored, heads, best) ==
            DecideChain(scored.s, b, scored.score, heads, best)
        compare(z, heads, best) ==
            decide(CalculateScore(Check(z, \A x \in heads : z.score[x] = best,
                                        "heads of the best chains differ in score"),
                                  b, FALSE), heads, best)
        start(z) == IF BestTips(z) = {} THEN Check(z, FALSE, "no best block")
                    ELSE compare(z, BestTips(z), z.score[MinOf(BestTips(z))])
    IN start(CacheTips(BlockAddVoidedBy(s, b)))

(* BlockConsensusAlgorithm.update_voided_info                              *)
BlockUpdate(s, b, order) ==
    LET voiders == UnionVoidedByFromParents(s, b)
        p == s.dag[b].parent
        decideVoiders(z) ==
            CheckAll(z, SelectSeq(order, LAMBDA h : h \in voiders /\ ~IsBlock(s, h)))
        place(z) == IF Children(z, p) = {b} /\ Executed(z, p)
                    THEN ExtendBestChain(z, b) ELSE CompareChains(z, b)
    IN place(decideVoiders(Check(AddWork(s, voiders, s.dag[b].work), b \notin voiders,
                                 "new block already voids its past")))

----------------------------------------------------------------------------
(* ConsensusAlgorithm.unsafe_update, called once the vertex is saved and   *)
(* added to the indexes.                                                   *)

Save(s, v) ==
    LET n == Len(s.dag) + 1
        with(f, x) == [i \in 1 .. n |-> IF i = n THEN x ELSE f[i]]
        s1 == [s EXCEPT !.dag = with(@, v), !.voided = with(@, {}),
                        !.conflict = with(@, <<>>), !.acc = with(@, v.work),
                        !.score = with(@, 0), !.first = with(@, NoBlock),
                        !.reorg = NoBlock]
    IN IF v.block THEN AddTip(s1, n) ELSE s1

UnsafeUpdate(s, v, order) ==
    LET n == Len(s.dag) + 1
        update(z) == IF v.block THEN BlockUpdate(z, n, order) ELSE TxUpdate(z, n, order)
        old == s.index[Len(s.index)]
        checkReorg(z) ==
            Check(z, z.reorg # NoBlock => /\ old # z.index[Len(z.index)]
                                          /\ Height(z, old) > Height(z, z.reorg),
                  "re-org without a change of the best block")
    IN checkReorg(update(Save(s, v)))

(* The orders in which Python may go through a set of the hashes that void *)
(* something: by age or by reverse age.                                    *)
Orders(s) ==
    LET up == SetToSortSeq(UNION {s.voided[v] : v \in Vertices(s)}, <)
    IN {up, Reverse(up)}

(* A new vertex is stamped right after its past, or now.                   *)
Stamps(s, past) ==
    {1 + MaxOf({s.dag[v].ts : v \in past}), 1 + MaxOf({s.dag[v].ts : v \in Vertices(s)})}

TxParents(s) == {{GenesisTx}} \cup {{t} : t \in Txs(s)}
                    \cup {{t, u} : t, u \in Txs(s) \ {GenesisTx}}

Outputs(s) == {<<GenesisBlock, i>> : i \in 1 .. GenesisOutputs}
                  \cup {<<t, 1>> : t \in Txs(s) \ {GenesisTx}}

(* The node crashes when an update fails, and accepts nothing more.        *)
Running == store.failures = {} /\ Len(store.dag) < MaxVertices + 3

NewBlock(parent, txs, work, ts, order) ==
    store' = UnsafeUpdate(store, BlockVertex(parent, txs, work, ts), order)

NewTx(txs, inputs, work, ts, order) ==
    store' = UnsafeUpdate(store, TxVertex(txs, inputs, work, ts), order)

Next ==
    \/ /\ Running /\ Cardinality(Blocks(store)) < MaxBlocks + 2
       /\ \E parent \in Blocks(store), txs \in TxParents(store), work \in BlockWorks,
             order \in Orders(store) :
             \E ts \in Stamps(store, {parent} \cup txs) :
                NewBlock(parent, txs, work, ts, order)
    \/ /\ Running /\ Cardinality(Txs(store)) < MaxTxs + 1
       /\ \E txs \in TxParents(store), work \in TxWorks, order \in Orders(store) :
             \E inputs \in {{o} : o \in Outputs(store)}
                               \cup {{o, p} : o, p \in Outputs(store)} :
                \E ts \in Stamps(store, txs \cup {i[1] : i \in inputs}) :
                   NewTx(txs, inputs, work, ts, order)

Spec == Init /\ [][Next]_store

----------------------------------------------------------------------------
(* Properties.  They speak of the storage after an update that completed:  *)
(* one that raises crashes the node.                                       *)

Completed == store.failures = {}

(* Of the transactions that spend an output at most one is executed,       *)
(* whatever re-orgs and re-decided conflicts the update went through.      *)
NoDoubleSpend ==
    Completed => \A t, u \in Txs(store) :
        (t # u /\ store.dag[t].inputs \cap store.dag[u].inputs # {})
            => ~(Executed(store, t) /\ Executed(store, u))

(* The docstring of ConsensusAlgorithm: what voids a transaction voids     *)
(* every transaction that verifies or spends it, and a transaction only    *)
(* voids itself if it has a conflict.                                      *)
VoidednessPropagates ==
    Completed => \A t \in Txs(store) :
        /\ \A u \in Before(store, t) \cap Txs(store) :
              store.voided[u] \subseteq store.voided[t]
        /\ t \in store.voided[t] => store.conflict[t] # <<>>

ExecutedBlocks == {b \in Blocks(store) : Executed(store, b)}

(* The executed blocks are one chain from the genesis: the parent of an    *)
(* executed block is executed, and no two have the same height, also in    *)
(* the middle of ties and after a conflict voided part of the best chain.  *)
ExecutedBlocksAreAChain ==
    Completed =>
        /\ \A b \in ExecutedBlocks \ {GenesisBlock} : Executed(store, store.dag[b].parent)
        /\ \A b, c \in ExecutedBlocks :
              Height(store, b) = Height(store, c) => b = c

RECURSIVE Past(_, _), Future(_, _)
Past(s, v) == {v} \cup UNION {Past(s, u) : u \in Before(s, v)}
Future(s, v) == {v} \cup UNION {Future(s, u) : u \in After(s, v)}

(* meta.first_block is exact: it names the lowest executed block that has  *)
(* the transaction in its past, and nothing if there is none, although it  *)
(* is maintained by walks that stop at other blocks' markers.              *)
FirstBlockIsFirst ==
    Completed => \A t \in Txs(store) :
        LET confirming == {b \in ExecutedBlocks : t \in Past(store, b)}
        IN IF confirming = {} THEN store.first[t] = NoBlock
           ELSE store.first[t] = CHOOSE b \in confirming : \A c \in confirming :
                                    Height(store, b) <= Height(store, c)

TrueWork(v) == FoldSet(LAMBDA u, n : n + store.dag[u].work, 0, Future(store, v))

(* A transaction that is voided only because it lost a conflict did lose:  *)
(* some rival that nothing else voids has at least the work it is credited *)
(* with, although rivals' weights are stored lazily and summed only as far *)
(* as each comparison needs.                                               *)
LoserIsOutweighed ==
    Completed => \A u \in Txs(store) : store.voided[u] = {u} =>
        \E i \in 1 .. Len(store.conflict[u]) :
            LET r == store.conflict[u][i]
            IN store.voided[r] \subseteq {r} /\ TrueWork(r) >= store.acc[u]

(* No assertion of the consensus code fails, whatever the DAG and the      *)
(* order in which it arrived: among them, 'assert best_heads[0].hash !=    *)
(* block.hash' when a block that turned out to be voided looks for the     *)
(* chain that is best instead.                                             *)
NoAssertionFails == store.failures = {}

(* The docstring of update_voided_info: 'The best chain is a chain that    *)
(* has the highest score of all chains.'  Unless chains are tied for the   *)
(* highest score, the head of the executed chain has it, after the update  *)
(* for a block and among the chains that no transaction voids.             *)
BestChainHasHighestScore ==
    LET valid == {b \in Blocks(store) : store.voided[b] \subseteq {b}}
        head == CHOOSE b \in ExecutedBlocks : \A c \in ExecutedBlocks :
                    Height(store, c) <= Height(store, b)
    IN (Completed /\ IsBlock(store, Len(store.dag))) =>
         \A b \in valid :
            \/ store.score[b] <= store.score[head]
            \/ \E c \in valid \ {b} : store.score[c] >= store.score[b]

(* The comment in union_voided_by_from_parents: 'the voidance caused by a  *)
(* transaction must be sent ahead.'  No executed block has a voided        *)
(* transaction in its past.                                                *)
ExecutedBlocksConfirmExecutedTxs ==
    Completed => \A b \in ExecutedBlocks : \A t \in Past(store, b) : Executed(store, t)
=============================================================================
