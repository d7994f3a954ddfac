--------------------------- MODULE SyncAgentProofs ---------------------------
(***************************************************************************)
(* Proofs about SyncAgent: for any tree of blocks, mempool, growth and     *)
(* re-orgs on either side, limits and fan-out.                             *)
(*                                                                         *)
(* The run is a sequential client, and its connection keeps the order of   *)
(* messages: what is in the two channels and in the peer's streaming       *)
(* server is determined by where the run is (Conversation).  A stream that *)
(* the run gave up leaves traffic behind, which has to be gone before the  *)
(* answer to the next request comes: STOP-BLOCK-STREAMING was sent first.  *)
(***************************************************************************)
EXTENDS SyncAgent, FiniteSetTheorems, WellFoundedInduction, TLAPS

-----------------------------------------------------------------------------
(* Types.                                                                  *)

(* Bounded sets: the heights that a search asks for, and the answer.       *)
HeightSets == {S \in SUBSET Nat : \E k \in Nat : \A h \in S : h <= k}
HashLists == {S \in SUBSET Blocks : \E k \in Nat : \A b \in S : Height[b] <= k}

Requests ==
    [type : {"GET-BEST-BLOCK", "STOP-BLOCK-STREAMING", "GET-TIPS"}]
    \cup [type : {"GET-PEER-BLOCK-HASHES"}, heights : HeightSets]
    \cup [type : {"GET-NEXT-BLOCKS"}, start : Blocks, end : Blocks, quantity : Int]
    \cup [type : {"GET-DATA"}, tx : Txs]
    \cup [type : {"RELAY"}, enable : BOOLEAN]

EndCodes == {"PER_REQUEST", "STREAM_BECAME_VOIDED", "END_HASH_REACHED", "NO_MORE_BLOCKS",
             "LIMIT_EXCEEDED"}

Answers ==
    [type : {"BEST-BLOCK", "BLOCKS"}, block : Blocks]
    \cup [type : {"PEER-BLOCK-HASHES"}, list : HashLists]
    \cup [type : {"BLOCKS-END"}, code : EndCodes]
    \cup [type : {"TIPS"}, tx : Txs]
    \cup [type : {"TIPS-END"}]
    \cup [type : {"DATA"}, origin : {"mempool"}, tx : Txs]
    \cup [type : {"DATA"}, origin : {""}, tx : Blocks \cup Txs]

Runs ==
    [pc : {"idle", "best", "search", "stream", "tips", "dfs", "data"},
     state : {"unknown", "blocks", "mempool"}, myBest : Blocks, peerBest : Blocks,
     lo : Blocks, hi : Blocks, synced : BOOLEAN, syncedBlock : Blocks, relay : BOOLEAN]

BlkClients ==
    [exists : BOOLEAN, fired : BOOLEAN, got : Int, max : Int, repeated : Int,
     last : Blocks \cup {-1}]

Mempools ==
    [missing : SUBSET Txs, stack : Seq(Txs), cache : SUBSET Txs, asked : SUBSET Txs,
     tips : SUBSET Txs, receiving : BOOLEAN]

(* A storage: a set of blocks closed under parents, with a best one, and   *)
(* transactions.                                                           *)
Storage(n) ==
    /\ n \in [blocks : SUBSET Blocks, best : Blocks, txs : SUBSET Txs]
    /\ 0 \in n.blocks /\ n.best \in n.blocks
    /\ \A b \in n.blocks : Parent[b] \in n.blocks

TypeOK ==
    /\ Storage(me) /\ Storage(peer)
    /\ \A t \in peer.txs : TxDeps[t] \subseteq peer.txs
    /\ run \in Runs /\ mempool \in Mempools
    /\ toPeer \in Seq(Requests) /\ toMe \in Seq(Answers)
    /\ server \in [running : BOOLEAN, cur : Blocks, end : Blocks, left : Int]
    /\ blkClient \in BlkClients

-----------------------------------------------------------------------------
(* What is on its way.                                                     *)

Kind(m) == IF m.type = "DATA" /\ m.origin # "mempool" THEN "RELAYED" ELSE m.type

All(q, kinds) == \A i \in 1 .. Len(q) : Kind(q[i]) \in kinds

(* The awaited answer is on its way; only relayed vertices come after it.  *)
AnswerIn(q, final, before) ==
    \E k \in 1 .. Len(q) :
        /\ Kind(q[k]) = final
        /\ \A i \in 1 .. k - 1 : Kind(q[i]) \in before
        /\ \A i \in k + 1 .. Len(q) : Kind(q[i]) = "RELAYED"

Noise == {"RELAYED"}
Traffic == {"RELAYED", "BLOCKS", "BLOCKS-END"}

Quiet(m) == m.type \in {"RELAY", "STOP-BLOCK-STREAMING"}

(* The only request that will be answered is the last one.                 *)
Asking(q, type) ==
    /\ q # <<>> /\ q[Len(q)].type = type
    /\ \A i \in 1 .. Len(q) - 1 : Quiet(q[i])

NothingAsked(q) == \A i \in 1 .. Len(q) : Quiet(q[i])

(* A request of this type, or the end of its answer, is on its way.        *)
Awaiting(request, answer, before) ==
    \/ Asking(toPeer, request) /\ All(toMe, Noise)
    \/ toPeer = <<>> /\ AnswerIn(toMe, answer, before)

(* What is left of a stream that was given up is dropped, and will end.    *)
Leftovers ==
    /\ server.running => \E i \in 1 .. Len(toPeer) : toPeer[i].type = "STOP-BLOCK-STREAMING"
    /\ server.running \/ ~All(toMe, {"RELAYED", "BEST-BLOCK"}) =>
          blkClient.exists /\ blkClient.fired /\ run.state = "blocks"

Conversation ==
    /\ run.pc = "idle" => NothingAsked(toPeer) /\ All(toMe, Traffic) /\ Leftovers
    /\ run.pc = "best" =>
          /\ run.state = "blocks" /\ Leftovers
          /\ \/ Asking(toPeer, "GET-BEST-BLOCK") /\ All(toMe, Traffic)
             \/ toPeer = <<>> /\ AnswerIn(toMe, "BEST-BLOCK", Traffic)
    /\ run.pc = "search" =>
          /\ run.state = "blocks" /\ ~server.running
          /\ Awaiting("GET-PEER-BLOCK-HASHES", "PEER-BLOCK-HASHES", Noise)
    /\ run.pc = "stream" =>
          /\ run.state = "blocks" /\ blkClient.exists /\ ~blkClient.fired
          /\ \/ ~server.running /\ Awaiting("GET-NEXT-BLOCKS", "BLOCKS-END", Noise \cup {"BLOCKS"})
             \/ server.running /\ toPeer = <<>> /\ All(toMe, Noise \cup {"BLOCKS"})
    /\ run.pc = "tips" =>
          /\ mempool.receiving /\ run.relay /\ ~server.running
          /\ Awaiting("GET-TIPS", "TIPS-END", Noise \cup {"TIPS"})
    /\ run.pc = "dfs" => run.relay /\ ~server.running /\ NothingAsked(toPeer) /\ All(toMe, Noise)
    /\ run.pc = "data" => run.relay /\ ~server.running /\ Awaiting("GET-DATA", "DATA", Noise)

(* What is asked of the peer, and what it answers, is in its storage.      *)
GoodRequest(m, p, asked) ==
    /\ m.type = "GET-NEXT-BLOCKS" => m.start \in p.blocks /\ m.end \in p.blocks
    /\ m.type = "GET-DATA" => m.tx \in asked

GoodAnswer(m, p, asked) ==
    /\ Kind(m) = "BEST-BLOCK" => m.block \in p.blocks
    /\ Kind(m) = "PEER-BLOCK-HASHES" => m.list \subseteq p.blocks
    /\ Kind(m) = "TIPS" => m.tx \in p.txs
    /\ Kind(m) = "DATA" => m.tx \in asked

KnownToPeer ==
    /\ run.peerBest \in peer.blocks /\ run.lo \in peer.blocks
    /\ mempool.missing \subseteq peer.txs /\ mempool.tips \subseteq peer.txs
    /\ mempool.cache \subseteq peer.txs /\ mempool.asked \subseteq peer.txs
    /\ mempool.stack \in Seq(peer.txs)
    /\ \A i \in 1 .. Len(toPeer) : GoodRequest(toPeer[i], peer, mempool.asked)
    /\ \A i \in 1 .. Len(toMe) : GoodAnswer(toMe[i], peer, mempool.asked)

(* What the run remembers of my own chain stays stored, and a stream       *)
(* starts at a block of it, so that each of its blocks has its parent.     *)
FirstBlock(q, b) ==
    \A i \in 1 .. Len(q) :
        q[i].type = "BLOCKS" /\ (\A j \in 1 .. i - 1 : q[j].type # "BLOCKS") => q[i].block = b

KnownToMe ==
    /\ run.myBest \in me.blocks /\ run.lo \in me.blocks
    /\ blkClient.last \in me.blocks \cup {-1}
    /\ run.pc = "stream" /\ blkClient.last = -1 =>
          /\ FirstBlock(toMe, run.lo)
          /\ server.running /\ (\A i \in 1 .. Len(toMe) : toMe[i].type # "BLOCKS") =>
                server.cur = run.lo
          /\ \A i \in 1 .. Len(toPeer) :
                toPeer[i].type = "GET-NEXT-BLOCKS" => toPeer[i].start = run.lo

(* What the two nodes agree on, and an open connection.                    *)
Agreement == TypeOK /\ Conversation /\ KnownToPeer /\ KnownToMe /\ SyncedMeansStored

Talking ==
    /\ TypeOK /\ Conversation /\ KnownToPeer /\ KnownToMe
    /\ SyncedMeansStored /\ Open

(* The score only counts unsolicited vertices, and only it closes.         *)
Conduct ==
    /\ score \in Nat /\ unsolicited \in Nat /\ score <= unsolicited
    /\ OnlyLateRelaysClose

IInv == Agreement /\ Conduct

-----------------------------------------------------------------------------
(* The chain of a block.                                                   *)

LEMMA Least ==
  ASSUME NEW S, S \subseteq Nat, S # {}
  PROVE  \E x \in S : \A y \in S : x <= y
<1>1. PICK x \in S : \A y \in S : ~ (<<y, x>> \in OpToRel(<, Nat))
  BY WFMin, NatLessThanWellFounded
<1>2. ASSUME NEW y \in S PROVE x <= y
  <2>1. x \in Nat /\ y \in Nat
    OBVIOUS
  <2>2. ~ (<<y, x>> \in {ss \in Nat \X Nat : ss[1] < ss[2]})
    BY <1>1 DEF OpToRel
  <2> QED BY <2>1, <2>2
<1> QED BY <1>2

(* A path up the tree, from block b.                                       *)
IsPath(f, b, n) ==
    /\ f \in [0 .. n -> Blocks] /\ f[0] = b
    /\ \A k \in 1 .. n : f[k] = Parent[f[k - 1]]

LEMMA PathExists ==
  ASSUME AgentAssumption, NEW b \in Blocks, NEW n \in Nat
  PROVE  \E f : IsPath(f, b, n)
<1> DEFINE S == {i \in Nat : ~ \E f : IsPath(f, b, i)}
<1>1. SUFFICES ASSUME S # {} PROVE FALSE
  OBVIOUS
<1>2. PICK i \in S : \A j \in S : i <= j
  BY <1>1, Least
<1>3. i \in Nat /\ ~ \E f : IsPath(f, b, i)
  OBVIOUS
<1>4. CASE i = 0
  <2>1. IsPath([k \in 0 .. 0 |-> b], b, 0)
    BY DEF IsPath
  <2> QED BY <1>3, <1>4, <2>1
<1>5. CASE i # 0
  <2>1. i - 1 \in Nat /\ i - 1 \notin S
    BY <1>2, <1>3, <1>5
  <2>2. PICK f : IsPath(f, b, i - 1)
    BY <2>1
  <2> DEFINE g == [k \in 0 .. i |-> IF k = i THEN Parent[f[i - 1]] ELSE f[k]]
  <2>3. f[i - 1] \in Blocks /\ Parent[f[i - 1]] \in Blocks
    BY <1>3, <1>5, <2>2 DEF IsPath, AgentAssumption
  <2>4. g \in [0 .. i -> Blocks] /\ g[0] = b
    BY <1>3, <1>5, <2>2, <2>3 DEF IsPath
  <2>5. ASSUME NEW k \in 1 .. i PROVE g[k] = Parent[g[k - 1]]
    BY <1>3, <1>5, <2>2 DEF IsPath
  <2>6. IsPath(g, b, i)
    BY <2>4, <2>5 DEF IsPath
  <2> QED BY <1>3, <2>6
<1> QED BY <1>4, <1>5

(* Paths from the same block agree.                                        *)
LEMMA PathUnique ==
  ASSUME NEW b, NEW m \in Nat, NEW n \in Nat, NEW f, NEW g, IsPath(f, b, m), IsPath(g, b, n),
         NEW k \in 0 .. m, k <= n
  PROVE  f[k] = g[k]
<1> DEFINE S == {i \in 0 .. m : i <= n /\ f[i] # g[i]}
<1>1. SUFFICES ASSUME S # {} PROVE FALSE
  OBVIOUS
<1>2. S \subseteq Nat
  OBVIOUS
<1>3. PICK i \in S : \A j \in S : i <= j
  BY <1>1, <1>2, Least
<1>4. i \in 0 .. m /\ i <= n /\ f[i] # g[i] /\ i # 0
  BY DEF IsPath
<1>5. i - 1 \in 0 .. m /\ i - 1 <= n /\ i - 1 \notin S
  BY <1>3, <1>4
<1>6. f[i - 1] = g[i - 1]
  BY <1>5
<1>7. i \in 1 .. m /\ i \in 1 .. n
  BY <1>4
<1> QED BY <1>4, <1>6, <1>7 DEF IsPath

LEMMA InChain ==
  ASSUME AgentAssumption, NEW b \in Blocks, NEW c
  PROVE  c \in Chain(b) <=> \E n \in 0 .. Height[b] : \E f : IsPath(f, b, n) /\ f[n] = c
<1> DEFINE Up(n) == CHOOSE up : up = [k \in 0 .. n |-> IF k = 0 THEN b ELSE Parent[up[k - 1]]]
<1>1. ASSUME NEW n \in Nat PROVE IsPath(Up(n), b, n)
  <2>1. PICK f : IsPath(f, b, n)
    BY PathExists
  <2>2. f = [k \in 0 .. n |-> IF k = 0 THEN b ELSE Parent[f[k - 1]]]
    BY <2>1 DEF IsPath
  <2>3. PICK u : u = Up(n)
    OBVIOUS
  <2>4. u = [k \in 0 .. n |-> IF k = 0 THEN b ELSE Parent[u[k - 1]]]
    BY <2>2, <2>3
  <2> HIDE DEF Up
  <2> DEFINE S == {k \in 0 .. n : u[k] # f[k]}
  <2>5. S = {}
    <3>1. SUFFICES ASSUME S # {} PROVE FALSE
      OBVIOUS
    <3>2. S \subseteq Nat
      OBVIOUS
    <3>3. PICK k \in S : \A j \in S : k <= j
      BY <3>1, <3>2, Least
    <3>4. k \in 0 .. n /\ u[k] # f[k] /\ k # 0
      BY <2>1, <2>4 DEF IsPath
    <3>5. k - 1 \in 0 .. n /\ k - 1 \notin S
      BY <3>3, <3>4
    <3>6. u[k - 1] = f[k - 1]
      BY <3>5
    <3>7. u[k] = Parent[u[k - 1]]
      BY <2>4, <3>4
    <3>8. f[k] = Parent[f[k - 1]]
      BY <2>1, <3>4 DEF IsPath
    <3> QED BY <3>4, <3>6, <3>7, <3>8
  <2>6. u = f
    <3>1. f \in [0 .. n -> Blocks]
      BY <2>1 DEF IsPath
    <3>2. u = [k \in 0 .. n |-> u[k]]
      BY <2>4
    <3> QED BY <2>5, <3>1, <3>2
  <2> QED BY <2>1, <2>3, <2>6
<1>2. c \in Chain(b) <=> c \in Blocks /\ \E n \in 0 .. Height[b] : Up(n)[n] = c
  BY DEF Chain
<1>3. Height[b] \in Nat
  BY DEF AgentAssumption
<1> HIDE DEF Up
<1>4. ASSUME c \in Chain(b) PROVE \E n \in 0 .. Height[b] : \E f : IsPath(f, b, n) /\ f[n] = c
  <2>1. PICK n \in 0 .. Height[b] : Up(n)[n] = c
    BY <1>2, <1>4
  <2>2. IsPath(Up(n), b, n)
    BY <1>1, <1>3
  <2> QED BY <2>1, <2>2
<1>5. ASSUME NEW n \in 0 .. Height[b], NEW f, IsPath(f, b, n), f[n] = c PROVE c \in Chain(b)
  <2>1. n \in Nat /\ n \in 0 .. n
    BY <1>3
  <2>2. Up(n)[n] = c
    BY <1>1, <1>5, <2>1, PathUnique
  <2>3. c \in Blocks
    BY <1>5, <2>1 DEF IsPath
  <2> QED BY <1>2, <2>2, <2>3
<1> QED BY <1>4, <1>5

(* A chain is made of blocks of any closed set that has its head.          *)
LEMMA ChainWithin ==
  ASSUME AgentAssumption, NEW S \in SUBSET Blocks, NEW b \in S, \A c \in S : Parent[c] \in S
  PROVE  Chain(b) \subseteq S
<1>1. SUFFICES ASSUME NEW c \in Chain(b) PROVE c \in S
  OBVIOUS
<1>2. Height[b] \in Nat
  BY DEF AgentAssumption
<1>3. PICK n \in 0 .. Height[b] : \E f : IsPath(f, b, n) /\ f[n] = c
  BY <1>1, InChain
<1>4. PICK f : IsPath(f, b, n) /\ f[n] = c
  BY <1>3
<1> DEFINE T == {k \in 0 .. n : f[k] \notin S}
<1>5. T = {}
  <2>1. SUFFICES ASSUME T # {} PROVE FALSE
    OBVIOUS
  <2>2. T \subseteq Nat
    OBVIOUS
  <2>3. PICK k \in T : \A j \in T : k <= j
    BY <2>1, <2>2, Least
  <2>4. k \in 0 .. n /\ f[k] \notin S /\ k # 0
    BY <1>4 DEF IsPath
  <2>5. k - 1 \in 0 .. n /\ k - 1 \notin T
    BY <1>2, <2>3, <2>4
  <2>6. f[k - 1] \in S
    BY <2>5
  <2>7. f[k] = Parent[f[k - 1]]
    BY <1>4, <2>4 DEF IsPath
  <2> QED BY <2>4, <2>6, <2>7
<1> QED BY <1>2, <1>4, <1>5

(* The chain of a block is a storage: it goes down to the genesis.         *)
LEMMA ChainIsClosed ==
  ASSUME AgentAssumption, NEW b \in Blocks
  PROVE  /\ Chain(b) \subseteq Blocks /\ b \in Chain(b) /\ 0 \in Chain(b)
         /\ \A c \in Chain(b) : Parent[c] \in Chain(b)
<1>1. Height[b] \in Nat
  BY DEF AgentAssumption
<1>2. Chain(b) \subseteq Blocks
  BY DEF Chain
<1>3. b \in Chain(b)
  <2>1. PICK f : IsPath(f, b, 0)
    BY PathExists
  <2>2. f[0] = b /\ 0 \in 0 .. Height[b]
    BY <1>1, <2>1 DEF IsPath
  <2> QED BY <2>1, <2>2, InChain
(* Each step goes down by one, as far as the height allows.                *)
<1>4. ASSUME NEW n \in 0 .. Height[b], NEW f, IsPath(f, b, n)
      PROVE  Height[f[n]] = Height[b] - n
  <2> DEFINE T == {k \in 0 .. n : Height[f[k]] # Height[b] - k}
  <2>1. SUFFICES ASSUME T # {} PROVE FALSE
    BY <1>1
  <2>2. T \subseteq Nat
    OBVIOUS
  <2>3. PICK k \in T : \A j \in T : k <= j
    BY <2>1, <2>2, Least
  <2>4. k \in 0 .. n /\ Height[f[k]] # Height[b] - k
    OBVIOUS
  <2>5. k # 0
    BY <1>1, <1>4, <2>4 DEF IsPath
  <2>6. k - 1 \in 0 .. n /\ k - 1 \notin T
    BY <1>1, <2>3, <2>4, <2>5
  <2>7. Height[f[k - 1]] = Height[b] - (k - 1)
    BY <2>6
  <2>8. f[k] = Parent[f[k - 1]] /\ f[k - 1] \in Blocks /\ f[k] \in Blocks
    BY <1>4, <2>4, <2>5, <2>6 DEF IsPath
  <2>9. f[k - 1] # 0
    BY <1>1, <2>4, <2>7 DEF AgentAssumption
  <2>10. Height[f[k - 1]] = Height[f[k]] + 1 /\ Height[f[k]] \in Nat
    BY <2>8, <2>9 DEF AgentAssumption
  <2> QED BY <1>1, <2>4, <2>7, <2>10
<1>5. ASSUME NEW c \in Blocks, Height[c] = 0 PROVE c = 0
  BY <1>5 DEF AgentAssumption
<1>6. 0 \in Chain(b)
  <2>1. PICK f : IsPath(f, b, Height[b])
    BY <1>1, PathExists
  <2>2. Height[b] \in 0 .. Height[b]
    BY <1>1
  <2>3. Height[f[Height[b]]] = Height[b] - Height[b] /\ f[Height[b]] \in Blocks
    BY <1>4, <2>1, <2>2 DEF IsPath
  <2>4. f[Height[b]] = 0
    BY <1>1, <1>5, <2>3
  <2> QED BY <2>1, <2>2, <2>4, InChain
<1>7. ASSUME NEW c \in Chain(b) PROVE Parent[c] \in Chain(b)
  <2>1. PICK n \in 0 .. Height[b] : \E f : IsPath(f, b, n) /\ f[n] = c
    BY InChain
  <2>2. PICK f : IsPath(f, b, n) /\ f[n] = c
    BY <2>1
  <2>3. c \in Blocks
    BY <1>2
  <2>4. CASE n = Height[b]
    <3>1. Height[c] = Height[b] - n
      BY <1>4, <2>2
    <3>2. c = 0
      BY <1>1, <1>5, <2>3, <2>4, <3>1
    <3> QED BY <1>6, <3>2 DEF AgentAssumption
  <2>5. CASE n # Height[b]
    <3>1. n \in Nat /\ n + 1 \in 0 .. Height[b] /\ n + 1 \in Nat /\ n \in 0 .. n /\ n <= n + 1
      BY <1>1, <2>5
    <3>2. PICK g : IsPath(g, b, n + 1)
      BY <3>1, PathExists
    <3>3. g[n] = c
      BY <2>2, <3>1, <3>2, PathUnique
    <3>4. g[n + 1] = Parent[c]
      BY <3>1, <3>2, <3>3 DEF IsPath
    <3> QED BY <3>1, <3>2, <3>4, InChain
  <2> QED BY <2>4, <2>5
<1> QED BY <1>2, <1>3, <1>6, <1>7

-----------------------------------------------------------------------------
(* Channels: what holds of them when a message is sent or received.        *)

LEMMA AllConcat ==
  ASSUME NEW X, NEW q \in Seq(X), NEW r \in Seq(X), NEW K, All(q, K), All(r, K)
  PROVE  All(q \o r, K)
  BY DEF All

LEMMA AllMonotone ==
  ASSUME NEW q, NEW K, NEW L, K \subseteq L, All(q, K)
  PROVE  All(q, L)
  BY DEF All

LEMMA AllHead ==
  ASSUME NEW X, NEW q \in Seq(X), q # <<>>, NEW K, All(q, K)
  PROVE  Kind(Head(q)) \in K /\ All(Tail(q), K)
  BY DEF All

LEMMA AnswerSent ==
  ASSUME NEW X, NEW q \in Seq(X), NEW r \in Seq(X), NEW f, NEW K, All(q, K), AnswerIn(r, f, K)
  PROVE  AnswerIn(q \o r, f, K)
<1>1. PICK k \in 1 .. Len(r) :
        /\ Kind(r[k]) = f
        /\ \A i \in 1 .. k - 1 : Kind(r[i]) \in K
        /\ \A i \in k + 1 .. Len(r) : Kind(r[i]) = "RELAYED"
  BY DEF AnswerIn
<1> DEFINE n == Len(q) + k
<1>2. n \in 1 .. Len(q \o r) /\ (q \o r)[n] = r[k]
  OBVIOUS
<1>3. ASSUME NEW i \in 1 .. n - 1 PROVE Kind((q \o r)[i]) \in K
  <2>1. CASE i <= Len(q)
    BY <2>1 DEF All
  <2>2. CASE i > Len(q)
    <3>1. (q \o r)[i] = r[i - Len(q)] /\ i - Len(q) \in 1 .. k - 1
      BY <2>2
    <3> QED BY <1>1, <3>1
  <2> QED BY <2>1, <2>2
<1>4. ASSUME NEW i \in n + 1 .. Len(q \o r) PROVE Kind((q \o r)[i]) = "RELAYED"
  <2>1. (q \o r)[i] = r[i - Len(q)] /\ i - Len(q) \in k + 1 .. Len(r)
    OBVIOUS
  <2> QED BY <1>1, <2>1
<1> HIDE DEF n
<1> QED BY <1>1, <1>2, <1>3, <1>4 DEF AnswerIn

(* Only relayed vertices follow.                                           *)
LEMMA AnswerStays ==
  ASSUME NEW X, NEW q \in Seq(X), NEW r \in Seq(X), NEW f, NEW K, AnswerIn(q, f, K), All(r, Noise)
  PROVE  AnswerIn(q \o r, f, K)
<1>1. PICK k \in 1 .. Len(q) :
        /\ Kind(q[k]) = f
        /\ \A i \in 1 .. k - 1 : Kind(q[i]) \in K
        /\ \A i \in k + 1 .. Len(q) : Kind(q[i]) = "RELAYED"
  BY DEF AnswerIn
<1>2. k \in 1 .. Len(q \o r) /\ \A i \in 1 .. Len(q) : (q \o r)[i] = q[i]
  OBVIOUS
<1>3. ASSUME NEW i \in k + 1 .. Len(q \o r) PROVE Kind((q \o r)[i]) = "RELAYED"
  <2>1. CASE i <= Len(q)
    BY <1>1, <2>1
  <2>2. CASE i > Len(q)
    <3>1. (q \o r)[i] = r[i - Len(q)] /\ i - Len(q) \in 1 .. Len(r)
      BY <2>2
    <3> QED BY <3>1 DEF All, Noise
  <2> QED BY <2>1, <2>2
<1>4. \A i \in 1 .. k - 1 : Kind((q \o r)[i]) \in K
  BY <1>1, <1>2
<1> QED BY <1>1, <1>2, <1>3, <1>4 DEF AnswerIn

LEMMA AnswerHead ==
  ASSUME NEW X, NEW q \in Seq(X), NEW f, NEW K, AnswerIn(q, f, K)
  PROVE  /\ q # <<>>
         /\ \/ Kind(Head(q)) = f /\ All(Tail(q), Noise)
            \/ Kind(Head(q)) \in K /\ AnswerIn(Tail(q), f, K)
<1>1. PICK k \in 1 .. Len(q) :
        /\ Kind(q[k]) = f
        /\ \A i \in 1 .. k - 1 : Kind(q[i]) \in K
        /\ \A i \in k + 1 .. Len(q) : Kind(q[i]) = "RELAYED"
  BY DEF AnswerIn
<1>2. q # <<>> /\ Len(Tail(q)) = Len(q) - 1 /\ Head(q) = q[1]
  OBVIOUS
<1>3. \A i \in 1 .. Len(Tail(q)) : Tail(q)[i] = q[i + 1]
  OBVIOUS
<1>4. CASE k = 1
  <2>1. All(Tail(q), Noise)
    BY <1>1, <1>2, <1>3, <1>4 DEF All, Noise
  <2> QED BY <1>1, <1>2, <1>4, <2>1
<1>5. CASE k # 1
  <2>1. k - 1 \in 1 .. Len(Tail(q)) /\ Tail(q)[k - 1] = q[k] /\ 1 \in 1 .. k - 1
    BY <1>2, <1>3, <1>5
  <2>2. \A i \in 1 .. (k - 1) - 1 : Kind(Tail(q)[i]) \in K
    BY <1>1, <1>2, <1>3
  <2>3. \A i \in (k - 1) + 1 .. Len(Tail(q)) : Kind(Tail(q)[i]) = "RELAYED"
    BY <1>1, <1>2, <1>3
  <2>4. AnswerIn(Tail(q), f, K)
    BY <1>1, <2>1, <2>2, <2>3 DEF AnswerIn
  <2> QED BY <1>1, <1>2, <2>1, <2>4
<1> QED BY <1>4, <1>5

(* A sequence of length 0 is the empty one.                                *)
LEMMA NoElements ==
  ASSUME NEW X, NEW q \in Seq(X), Len(q) = 0
  PROVE  q = <<>>
  OBVIOUS

LEMMA AskingHead ==
  ASSUME NEW X, NEW q \in Seq(X), NEW t, Asking(q, t)
  PROVE  /\ q # <<>>
         /\ \/ Head(q).type = t /\ Tail(q) = <<>>
            \/ Quiet(Head(q)) /\ Asking(Tail(q), t)
<1>1. /\ q # <<>> /\ q[Len(q)].type = t
      /\ \A i \in 1 .. Len(q) - 1 : Quiet(q[i])
  BY DEF Asking
<1>2. Len(Tail(q)) = Len(q) - 1 /\ Head(q) = q[1] /\ Len(q) \in Nat /\ Len(q) # 0
  BY <1>1
<1>3. \A i \in 1 .. Len(Tail(q)) : Tail(q)[i] = q[i + 1]
  BY <1>1
<1>4. CASE Len(q) = 1
  <2>1. Tail(q) \in Seq(X)
    BY <1>1
  <2>2. Len(Tail(q)) = 0
    BY <1>2, <1>4
  <2>3. Tail(q) = <<>>
    BY ONLY <2>1, <2>2, NoElements
  <2> QED BY <1>1, <1>2, <1>4, <2>3
<1>5. CASE Len(q) # 1
  <2>1. Tail(q) # <<>> /\ Tail(q)[Len(Tail(q))] = q[Len(q)]
    <3>1. Len(Tail(q)) \in 1 .. Len(Tail(q)) /\ Len(Tail(q)) + 1 = Len(q)
      BY <1>2, <1>5
    <3>2. Tail(q)[Len(Tail(q))] = q[Len(Tail(q)) + 1]
      BY <1>3, <3>1
    <3>3. Tail(q) # <<>>
      BY <1>2, <1>5
    <3> QED BY <3>1, <3>2, <3>3, Zenon
  <2>2. \A i \in 1 .. Len(Tail(q)) - 1 : Quiet(Tail(q)[i])
    BY <1>1, <1>2, <1>3
  <2>3. Quiet(Head(q))
    BY <1>1, <1>2, <1>5
  <2> QED BY <1>1, <2>1, <2>2, <2>3 DEF Asking
<1> QED BY <1>4, <1>5

LEMMA NothingAskedTail ==
  ASSUME NEW X, NEW q \in Seq(X), q # <<>>, NothingAsked(q)
  PROVE  Quiet(Head(q)) /\ NothingAsked(Tail(q))
  BY DEF NothingAsked

LEMMA NothingAskedConcat ==
  ASSUME NEW X, NEW q \in Seq(X), NEW r \in Seq(X), NothingAsked(q), NothingAsked(r)
  PROVE  NothingAsked(q \o r)
  BY DEF NothingAsked

LEMMA AskingSent ==
  ASSUME NEW X, NEW q \in Seq(X), NEW m \in X, NothingAsked(q)
  PROVE  Asking(Append(q, m), m.type) /\ Asking(q \o <<m>>, m.type)
<1>1. /\ Append(q, m) = q \o <<m>> /\ Len(Append(q, m)) = Len(q) + 1
      /\ Append(q, m)[Len(q) + 1] = m /\ Append(q, m) # <<>>
      /\ \A i \in 1 .. Len(q) : Append(q, m)[i] = q[i]
  OBVIOUS
<1>2. Asking(Append(q, m), m.type)
  BY <1>1 DEF Asking, NothingAsked
<1> QED BY <1>1, <1>2

LEMMA FirstBlockSent ==
  ASSUME NEW X, NEW q \in Seq(X), NEW r \in Seq(X), NEW b, FirstBlock(q, b),
         (\A i \in 1 .. Len(q) : q[i].type # "BLOCKS") => FirstBlock(r, b)
  PROVE  FirstBlock(q \o r, b)
<1> SUFFICES ASSUME NEW i \in 1 .. Len(q \o r), (q \o r)[i].type = "BLOCKS",
                    \A j \in 1 .. i - 1 : (q \o r)[j].type # "BLOCKS"
             PROVE  (q \o r)[i].block = b
  BY DEF FirstBlock
<1>1. CASE i <= Len(q)
  <2>1. (q \o r)[i] = q[i] /\ i \in 1 .. Len(q) /\ \A j \in 1 .. i - 1 : (q \o r)[j] = q[j]
    BY <1>1
  <2> QED BY <2>1 DEF FirstBlock
<1>2. CASE i > Len(q)
  <2>1. (q \o r)[i] = r[i - Len(q)] /\ i - Len(q) \in 1 .. Len(r)
    BY <1>2
  <2>2. ASSUME NEW j \in 1 .. (i - Len(q)) - 1 PROVE r[j].type # "BLOCKS"
    <3>1. j + Len(q) \in 1 .. i - 1 /\ (q \o r)[j + Len(q)] = r[j]
      BY <1>2
    <3> QED BY <3>1
  <2>3. \A j \in 1 .. Len(q) : j \in 1 .. i - 1 /\ (q \o r)[j] = q[j]
    BY <1>2
  <2> QED BY <2>1, <2>2, <2>3 DEF FirstBlock
<1> QED BY <1>1, <1>2

LEMMA FirstBlockTail ==
  ASSUME NEW X, NEW q \in Seq(X), q # <<>>, NEW b, FirstBlock(q, b)
  PROVE  /\ Head(q).type = "BLOCKS" => Head(q).block = b
         /\ Head(q).type # "BLOCKS" => FirstBlock(Tail(q), b)
<1>1. /\ Len(q) \in Nat /\ Len(q) # 0 /\ Head(q) = q[1] /\ Len(Tail(q)) = Len(q) - 1
      /\ \A i \in 1 .. Len(q) - 1 : Tail(q)[i] = q[i + 1]
  OBVIOUS
<1>2. Head(q).type = "BLOCKS" => Head(q).block = b
  BY <1>1 DEF FirstBlock
<1>3. ASSUME Head(q).type # "BLOCKS", NEW i \in 1 .. Len(Tail(q)), Tail(q)[i].type = "BLOCKS",
             \A j \in 1 .. i - 1 : Tail(q)[j].type # "BLOCKS"
      PROVE  Tail(q)[i].block = b
  <2>1. ASSUME NEW j \in 1 .. (i + 1) - 1 PROVE q[j].type # "BLOCKS"
    <3>1. CASE j = 1
      BY <1>1, <1>3, <3>1
    <3>2. CASE j # 1
      <4>1. j - 1 \in 1 .. i - 1 /\ Tail(q)[j - 1] = q[j]
        BY <1>1, <3>2
      <4> QED BY <1>3, <4>1
    <3> QED BY <3>1, <3>2
  <2>2. i + 1 \in 1 .. Len(q) /\ Tail(q)[i] = q[i + 1]
    BY <1>1
  <2> QED BY <1>3, <2>1, <2>2 DEF FirstBlock
<1> QED BY <1>2, <1>3 DEF FirstBlock

LEMMA TailElements ==
  ASSUME NEW X, NEW q \in Seq(X), q # <<>>
  PROVE  /\ Head(q) \in X /\ Tail(q) \in Seq(X) /\ Head(q) = q[1] /\ 1 \in 1 .. Len(q)
         /\ Len(Tail(q)) = Len(q) - 1
         /\ \A i \in 1 .. Len(Tail(q)) : i + 1 \in 1 .. Len(q) /\ Tail(q)[i] = q[i + 1]
  OBVIOUS

LEMMA LastOne ==
  ASSUME NEW X, NEW q \in Seq(X), q # <<>>, Tail(q) = <<>>
  PROVE  Len(q) = 1
<1>1. Len(q) \in Nat /\ Len(q) # 0 /\ Len(Tail(q)) = Len(q) - 1
  OBVIOUS
<1>2. Len(q) # 1 => Tail(q) # <<>>
  <2>1. Len(Tail(q)) # 0 => Tail(q) # <<>>
    OBVIOUS
  <2> QED BY <1>1, <2>1
<1> QED BY <1>2

LEMMA ConcatElements ==
  ASSUME NEW X, NEW q \in Seq(X), NEW r \in Seq(X)
  PROVE  /\ q \o r \in Seq(X)
         /\ \A i \in 1 .. Len(q \o r) :
               (i \in 1 .. Len(q) /\ (q \o r)[i] = q[i])
               \/ (i - Len(q) \in 1 .. Len(r) /\ (q \o r)[i] = r[i - Len(q)])
         /\ \A i \in 1 .. Len(q) : i \in 1 .. Len(q \o r) /\ (q \o r)[i] = q[i]
  OBVIOUS

LEMMA ConcatRight ==
  ASSUME NEW X, NEW q \in Seq(X), NEW r \in Seq(X), NEW j \in 1 .. Len(r)
  PROVE  Len(q) + j \in 1 .. Len(q \o r) /\ (q \o r)[Len(q) + j] = r[j]
  OBVIOUS

LEMMA RequestForm ==
  ASSUME NEW m \in Requests
  PROVE  /\ m.type \in {"GET-BEST-BLOCK", "STOP-BLOCK-STREAMING", "GET-TIPS",
                        "GET-PEER-BLOCK-HASHES", "GET-NEXT-BLOCKS", "GET-DATA", "RELAY"}
         /\ m.type = "GET-PEER-BLOCK-HASHES" => m.heights \in HeightSets
         /\ m.type = "GET-NEXT-BLOCKS" => m.start \in Blocks /\ m.end \in Blocks /\ m.quantity \in Int
         /\ m.type = "GET-DATA" => m.tx \in Txs
  BY DEF Requests

LEMMA AnswerForm ==
  ASSUME NEW m \in Answers
  PROVE  /\ Kind(m) \in {"BEST-BLOCK", "BLOCKS", "PEER-BLOCK-HASHES", "BLOCKS-END", "TIPS",
                         "TIPS-END", "DATA", "RELAYED"}
         /\ Kind(m) # "RELAYED" => m.type = Kind(m)
         /\ Kind(m) = "RELAYED" => m.type = "DATA" /\ m.origin # "mempool" /\ m.tx \in Blocks \cup Txs
         /\ Kind(m) = "DATA" => m.origin = "mempool" /\ m.tx \in Txs
         /\ Kind(m) \in {"BEST-BLOCK", "BLOCKS"} => m.block \in Blocks
         /\ Kind(m) = "PEER-BLOCK-HASHES" => m.list \in HashLists
         /\ Kind(m) = "TIPS" => m.tx \in Txs
         /\ m.type \in {"BEST-BLOCK", "BLOCKS", "PEER-BLOCK-HASHES", "BLOCKS-END", "TIPS",
                        "TIPS-END", "DATA"}
         /\ m.type # "DATA" => Kind(m) = m.type
<1>1. CASE m \in [type : {"BEST-BLOCK", "BLOCKS"}, block : Blocks]
  BY <1>1 DEF Kind
<1>2. CASE m \in [type : {"PEER-BLOCK-HASHES"}, list : HashLists]
  BY <1>2 DEF Kind
<1>3. CASE m \in [type : {"BLOCKS-END"}, code : EndCodes]
  BY <1>3 DEF Kind
<1>4. CASE m \in [type : {"TIPS"}, tx : Txs]
  BY <1>4 DEF Kind
<1>5. CASE m \in [type : {"TIPS-END"}]
  BY <1>5 DEF Kind
<1>6. CASE m \in [type : {"DATA"}, origin : {"mempool"}, tx : Txs]
  BY <1>6 DEF Kind
<1>7. CASE m \in [type : {"DATA"}, origin : {""}, tx : Blocks \cup Txs]
  BY <1>7 DEF Kind
<1> QED BY <1>1, <1>2, <1>3, <1>4, <1>5, <1>6, <1>7 DEF Answers

-----------------------------------------------------------------------------
(* The steps of the environment.                                           *)

LEMMA AddBlockStorage ==
  ASSUME AgentAssumption, NEW n, Storage(n), NEW b \in Blocks, Parent[b] \in n.blocks
  PROVE  /\ Storage(AddBlock(n, b))
         /\ AddBlock(n, b).blocks = n.blocks \cup {b} /\ AddBlock(n, b).txs = n.txs
<1> DEFINE m == AddBlock(n, b)
<1>1. /\ m \in [blocks : SUBSET Blocks, best : Blocks, txs : SUBSET Txs]
      /\ m.blocks = n.blocks \cup {b} /\ m.txs = n.txs /\ m.best \in {b, n.best}
  BY DEF Storage, AddBlock
<1> HIDE DEF m
<1>2. Storage(m)
  BY <1>1 DEF Storage
<1> QED BY <1>1, <1>2 DEF m

LEMMA AddTxStorage ==
  ASSUME NEW n, Storage(n), NEW t \in Txs
  PROVE  /\ Storage([n EXCEPT !.txs = @ \cup {t}])
         /\ [n EXCEPT !.txs = @ \cup {t}].blocks = n.blocks
         /\ [n EXCEPT !.txs = @ \cup {t}].txs = n.txs \cup {t}
<1> DEFINE m == [n EXCEPT !.txs = @ \cup {t}]
<1>1. /\ m \in [blocks : SUBSET Blocks, best : Blocks, txs : SUBSET Txs]
      /\ m.blocks = n.blocks /\ m.txs = n.txs \cup {t} /\ m.best = n.best
  BY DEF Storage
<1> HIDE DEF m
<1>2. Storage(m)
  BY <1>1 DEF Storage
<1> QED BY <1>1, <1>2 DEF m

(* A relayed vertex comes after whatever is on its way.                    *)
LEMMA ConversationRelayed ==
  ASSUME TypeOK, Conversation, NEW r \in Seq(Answers), All(r, Noise), toMe' = toMe \o r,
         UNCHANGED <<server, toPeer, run, blkClient, mempool>>
  PROVE  Conversation'
<1>1. toMe \in Seq(Answers)
  BY DEF TypeOK
<1>2. ASSUME NEW K, "RELAYED" \in K, All(toMe, K) PROVE All(toMe', K)
  <2>1. All(r, K)
    BY <1>2, AllMonotone DEF Noise
  <2> QED BY <1>1, <1>2, <2>1, AllConcat
<1>3. ASSUME NEW f, NEW K, AnswerIn(toMe, f, K) PROVE AnswerIn(toMe', f, K)
  BY <1>1, <1>3, AnswerStays
<1>4. ASSUME NEW q, NEW f, NEW K, Awaiting(q, f, K) PROVE Awaiting(q, f, K)'
  BY <1>2, <1>3, <1>4 DEF Awaiting, Noise
<1>5. Leftovers => Leftovers'
  BY <1>2 DEF Leftovers
<1>6. All(toMe, Traffic) => All(toMe', Traffic)
  BY <1>2 DEF Traffic
<1>7. All(toMe, Noise) => All(toMe', Noise)
  BY <1>2 DEF Noise
<1>8. All(toMe, Noise \cup {"BLOCKS"}) => All(toMe', Noise \cup {"BLOCKS"})
  BY <1>2 DEF Noise
<1>9. AnswerIn(toMe, "BEST-BLOCK", Traffic) => AnswerIn(toMe', "BEST-BLOCK", Traffic)
  BY <1>3
<1>10. /\ Awaiting("GET-PEER-BLOCK-HASHES", "PEER-BLOCK-HASHES", Noise) =>
              Awaiting("GET-PEER-BLOCK-HASHES", "PEER-BLOCK-HASHES", Noise)'
       /\ Awaiting("GET-NEXT-BLOCKS", "BLOCKS-END", Noise \cup {"BLOCKS"}) =>
              Awaiting("GET-NEXT-BLOCKS", "BLOCKS-END", Noise \cup {"BLOCKS"})'
       /\ Awaiting("GET-TIPS", "TIPS-END", Noise \cup {"TIPS"}) =>
              Awaiting("GET-TIPS", "TIPS-END", Noise \cup {"TIPS"})'
       /\ Awaiting("GET-DATA", "DATA", Noise) => Awaiting("GET-DATA", "DATA", Noise)'
  BY <1>4
<1> QED BY <1>5, <1>6, <1>7, <1>8, <1>9, <1>10 DEF Conversation

LEMMA PeerAcceptsStep ==
  ASSUME AgentAssumption, Talking, PeerAccepts PROVE Talking'
<1>1. PICK v : /\ \/ v \in Blocks /\ CanAddBlock(peer, v) /\ peer' = AddBlock(peer, v)
                  \/ v \in Txs /\ CanAddTx(peer, v) /\ peer' = [peer EXCEPT !.txs = @ \cup {v}]
               /\ Relay(v)
  BY DEF PeerAccepts
<1>2. UNCHANGED <<me, server, toPeer, run, blkClient, mempool, closed>>
  BY DEF PeerAccepts, agentVars
<1>3. /\ Storage(peer') /\ peer.blocks \subseteq peer'.blocks /\ peer.txs \subseteq peer'.txs
      /\ \A t \in peer'.txs : TxDeps[t] \subseteq peer'.txs
  <2>1. Storage(peer) /\ \A t \in peer.txs : TxDeps[t] \subseteq peer.txs
    BY DEF Talking, TypeOK
  <2>2. CASE v \in Blocks /\ CanAddBlock(peer, v) /\ peer' = AddBlock(peer, v)
    BY <2>1, <2>2, AddBlockStorage DEF CanAddBlock
  <2>3. CASE v \in Txs /\ CanAddTx(peer, v) /\ peer' = [peer EXCEPT !.txs = @ \cup {v}]
    BY <2>1, <2>3, AddTxStorage DEF CanAddTx
  <2> QED BY <1>1, <2>2, <2>3
<1>4. PICK r \in Seq(Answers) : All(r, Noise) /\ toMe' = toMe \o r
  <2> DEFINE d == [type |-> "DATA", origin |-> "", tx |-> v]
  <2>1. d \in Answers /\ Kind(d) = "RELAYED"
    BY <1>1 DEF Answers, Kind
  <2> HIDE DEF d
  <2>2. <<d>> \in Seq(Answers) /\ All(<<d>>, Noise)
    BY <2>1 DEF All, Noise
  <2>3. toMe \in Seq(Answers)
    BY DEF Talking, TypeOK
  <2>4. <<>> \in Seq(Answers) /\ All(<<>>, Noise) /\ toMe = toMe \o <<>>
    BY <2>3 DEF All
  <2>5. toMe' \in {toMe, toMe \o <<d>>}
    BY <1>1 DEF Relay, Answer, d
  <2> QED BY <2>2, <2>4, <2>5
<1>5. toMe \in Seq(Answers) /\ toMe' \in Seq(Answers)
  BY <1>4, ConcatElements DEF Talking, TypeOK
<1>6. TypeOK'
  BY <1>2, <1>3, <1>5 DEF Talking, TypeOK
<1>7. Conversation'
  BY <1>2, <1>4, ConversationRelayed DEF Talking
<1>8. KnownToPeer'
  <2>1. ASSUME NEW i \in 1 .. Len(toMe') PROVE GoodAnswer(toMe'[i], peer', mempool.asked)
    <3>1. CASE i \in 1 .. Len(toMe) /\ toMe'[i] = toMe[i]
      BY <1>3, <3>1 DEF Talking, KnownToPeer, GoodAnswer
    <3>2. CASE i - Len(toMe) \in 1 .. Len(r) /\ toMe'[i] = r[i - Len(toMe)]
      BY <1>4, <3>2 DEF All, Noise, GoodAnswer
    <3> QED BY <1>4, <1>5, <3>1, <3>2, ConcatElements
  <2>2. ASSUME NEW i \in 1 .. Len(toPeer) PROVE GoodRequest(toPeer[i], peer', mempool.asked)
    BY <1>3 DEF Talking, KnownToPeer, GoodRequest
  <2>3. mempool.stack \in Seq(peer'.txs)
    BY <1>3 DEF Talking, KnownToPeer
  <2> QED BY <1>2, <1>3, <2>1, <2>2, <2>3 DEF Talking, KnownToPeer
<1>9. KnownToMe'
  <2>1. \A i \in 1 .. Len(r) : r[i].type # "BLOCKS"
    BY <1>4 DEF All, Noise, Kind
  <2>2. FirstBlock(toMe, run.lo) => FirstBlock(toMe', run.lo)
    BY <1>4, <1>5, <2>1, FirstBlockSent DEF FirstBlock
  <2>3. (\A i \in 1 .. Len(toMe') : toMe'[i].type # "BLOCKS") =>
           \A i \in 1 .. Len(toMe) : toMe[i].type # "BLOCKS"
    BY <1>4, <1>5, ConcatElements
  <2> QED BY <1>2, <2>2, <2>3 DEF Talking, KnownToMe
<1> QED BY <1>2, <1>6, <1>7, <1>8, <1>9 DEF Talking, SyncedMeansStored, Open

LEMMA IAcceptStep ==
  ASSUME AgentAssumption, Talking, IAccept PROVE Talking'
<1>1. PICK v : \/ v \in Blocks /\ CanAddBlock(me, v) /\ me' = AddBlock(me, v)
               \/ v \in Txs /\ CanAddTx(me, v) /\ me' = [me EXCEPT !.txs = @ \cup {v}]
  BY DEF IAccept
<1>2. UNCHANGED <<peer, server, toPeer, toMe, run, blkClient, mempool, closed>>
  BY DEF IAccept, agentVars, peerVars
<1>3. Storage(me') /\ me.blocks \subseteq me'.blocks
  <2>1. Storage(me)
    BY DEF Talking, TypeOK
  <2>2. CASE v \in Blocks /\ CanAddBlock(me, v) /\ me' = AddBlock(me, v)
    BY <2>1, <2>2, AddBlockStorage DEF CanAddBlock
  <2>3. CASE v \in Txs /\ CanAddTx(me, v) /\ me' = [me EXCEPT !.txs = @ \cup {v}]
    BY <2>1, <2>3, AddTxStorage
  <2> QED BY <1>1, <2>2, <2>3
<1>4. TypeOK' /\ KnownToPeer'
  BY <1>2, <1>3 DEF Talking, TypeOK, KnownToPeer
<1>5. Conversation'
  BY <1>2 DEF Talking, Conversation, Leftovers, Awaiting
<1>6. KnownToMe'
  BY <1>2, <1>3 DEF Talking, KnownToMe
<1> QED BY <1>2, <1>3, <1>4, <1>5, <1>6 DEF Talking, SyncedMeansStored, Open

(* A run starts: it asks, after what a stream it gave up left to be sent.  *)
LEMMA RunSyncStep ==
  ASSUME AgentAssumption, Talking, RunSync PROVE Talking'
<1> DEFINE b == [type |-> "GET-BEST-BLOCK"]
<1>1. /\ run.pc = "idle" /\ toPeer' = Append(toPeer, b)
      /\ run' = [run EXCEPT !.pc = "best", !.state = "blocks", !.myBest = me.best]
      /\ UNCHANGED <<me, peer, server, toMe, blkClient, mempool, closed>>
  BY DEF RunSync, Ask, peerVars
<1>2. b \in Requests /\ b.type = "GET-BEST-BLOCK"
  BY DEF Requests
<1> HIDE DEF b
<1>3. /\ run \in Runs /\ Storage(me) /\ toPeer \in Seq(Requests) /\ NothingAsked(toPeer)
      /\ All(toMe, Traffic) /\ Leftovers
  BY <1>1 DEF Talking, TypeOK, Conversation
<1>4. /\ run' \in Runs /\ run'.pc = "best" /\ run'.state = "blocks" /\ run'.myBest = me.best
      /\ run'.peerBest = run.peerBest /\ run'.lo = run.lo /\ run'.synced = run.synced
      /\ run'.syncedBlock = run.syncedBlock
  BY <1>1, <1>3 DEF Runs, Storage
<1>5. /\ toPeer' \in Seq(Requests) /\ Len(toPeer') = Len(toPeer) + 1
      /\ toPeer'[Len(toPeer) + 1] = b /\ \A i \in 1 .. Len(toPeer) : toPeer'[i] = toPeer[i]
  BY <1>1, <1>2, <1>3
<1>6. Asking(toPeer', "GET-BEST-BLOCK")
  BY <1>1, <1>2, <1>3, AskingSent
<1>7. Leftovers'
  <2>1. Len(toPeer) \in Nat
    BY <1>3
  <2> QED BY <1>1, <1>3, <1>4, <1>5, <2>1 DEF Leftovers
<1>8. TypeOK'
  BY <1>1, <1>4, <1>5 DEF Talking, TypeOK
<1>9. Conversation'
  BY <1>1, <1>3, <1>4, <1>6, <1>7 DEF Conversation
<1>10. KnownToPeer'
  <2>1. ASSUME NEW i \in 1 .. Len(toPeer') PROVE GoodRequest(toPeer'[i], peer, mempool.asked)
    <3>1. CASE i = Len(toPeer) + 1
      BY <1>2, <1>5, <3>1 DEF GoodRequest
    <3>2. CASE i # Len(toPeer) + 1
      <4>1. i \in 1 .. Len(toPeer)
        BY <1>3, <1>5, <3>2
      <4> QED BY <1>5, <4>1 DEF Talking, KnownToPeer
    <3> QED BY <3>1, <3>2
  <2> QED BY <1>1, <1>4, <2>1 DEF Talking, KnownToPeer
<1>11. KnownToMe'
  BY <1>1, <1>3, <1>4 DEF Talking, KnownToMe, Storage
<1> QED BY <1>1, <1>4, <1>8, <1>9, <1>10, <1>11 DEF Talking, SyncedMeansStored, Open

-----------------------------------------------------------------------------
(* The steps of the peer.                                                  *)

(* The request at the head of the channel tells where the run is.          *)
LEMMA WhoAsks ==
  ASSUME TypeOK, Conversation, toPeer # <<>>, ~Quiet(Head(toPeer))
  PROVE  /\ Tail(toPeer) = <<>>
         /\ Head(toPeer).type = "GET-BEST-BLOCK" => run.pc = "best" /\ All(toMe, Traffic)
         /\ Head(toPeer).type = "GET-PEER-BLOCK-HASHES" => run.pc = "search"
         /\ Head(toPeer).type = "GET-NEXT-BLOCKS" => run.pc = "stream"
         /\ Head(toPeer).type = "GET-TIPS" => run.pc = "tips"
         /\ Head(toPeer).type = "GET-DATA" => run.pc = "data"
         /\ Head(toPeer).type # "GET-BEST-BLOCK" => ~server.running /\ All(toMe, Noise)
<1>1. toPeer \in Seq(Requests) /\ run \in Runs
  BY DEF TypeOK
<1>2. ~NothingAsked(toPeer)
  BY <1>1, NothingAskedTail
<1>3. ASSUME NEW t, Asking(toPeer, t) PROVE Tail(toPeer) = <<>> /\ Head(toPeer).type = t
  BY <1>1, <1>3, AskingHead
<1>4. run.pc \notin {"idle", "dfs"}
  BY <1>2 DEF Conversation
<1>5. CASE run.pc = "best"
  BY <1>3, <1>5 DEF Conversation
<1>6. CASE run.pc = "search"
  BY <1>3, <1>6 DEF Conversation, Awaiting
<1>7. CASE run.pc = "stream"
  BY <1>3, <1>7 DEF Conversation, Awaiting
<1>8. CASE run.pc = "tips"
  BY <1>3, <1>8 DEF Conversation, Awaiting
<1>9. CASE run.pc = "data"
  BY <1>3, <1>9 DEF Conversation, Awaiting
<1> QED BY <1>1, <1>4, <1>5, <1>6, <1>7, <1>8, <1>9 DEF Runs

(* A request that is taken leaves the others as they were.                 *)
LEMMA RequestTaken ==
  ASSUME Talking, toPeer # <<>>, toPeer' = Tail(toPeer), UNCHANGED <<peer, mempool>>
  PROVE  /\ toPeer' \in Seq(Requests)
         /\ \A i \in 1 .. Len(toPeer') : i + 1 \in 1 .. Len(toPeer) /\ toPeer'[i] = toPeer[i + 1]
         /\ \A i \in 1 .. Len(toPeer') : GoodRequest(toPeer'[i], peer', mempool'.asked)
         /\ Head(toPeer) \in Requests /\ GoodRequest(Head(toPeer), peer, mempool.asked)
         /\ Head(toPeer) = toPeer[1] /\ 1 \in 1 .. Len(toPeer)
<1>1. toPeer \in Seq(Requests)
  BY DEF Talking, TypeOK
<1>2. /\ Head(toPeer) \in Requests /\ Tail(toPeer) \in Seq(Requests) /\ Head(toPeer) = toPeer[1]
      /\ 1 \in 1 .. Len(toPeer)
      /\ \A i \in 1 .. Len(Tail(toPeer)) :
            i + 1 \in 1 .. Len(toPeer) /\ Tail(toPeer)[i] = toPeer[i + 1]
  BY <1>1, TailElements
<1>3. \A i \in 1 .. Len(toPeer) : GoodRequest(toPeer[i], peer, mempool.asked)
  BY DEF Talking, KnownToPeer
<1>4. \A i \in 1 .. Len(Tail(toPeer)) : GoodRequest(Tail(toPeer)[i], peer, mempool.asked)
  BY <1>2, <1>3
<1> QED BY <1>2, <1>3, <1>4

(* RELAY and STOP-BLOCK-STREAMING.                                         *)
LEMMA QuietStep ==
  ASSUME AgentAssumption, Talking, PeerReceive, Quiet(Head(toPeer)) PROVE Talking'
<1> DEFINE over == BlocksEnd("PER_REQUEST")
<1>1. /\ toPeer # <<>> /\ toPeer' = Tail(toPeer)
      /\ UNCHANGED <<me, peer, run, blkClient, mempool>>
  BY DEF PeerReceive, agentVars
<1>2. /\ closed' = closed /\ server' \in {server, NoServer}
      /\ \/ toMe' = toMe
         \/ server.running /\ toMe' = toMe \o <<over>> /\ server' = NoServer
      /\ Head(toPeer).type = "STOP-BLOCK-STREAMING" => server' = NoServer
  BY DEF PeerReceive, Quiet, HandleStop, Answer
<1>3. over \in Answers /\ Kind(over) = "BLOCKS-END" /\ over.type = "BLOCKS-END"
  BY DEF Answers, EndCodes, BlocksEnd, Kind
<1> HIDE DEF over
<1>4. /\ NoServer \in [running : BOOLEAN, cur : Blocks, end : Blocks, left : Int]
      /\ ~NoServer.running
  BY DEF NoServer, AgentAssumption
<1>5. toMe \in Seq(Answers) /\ <<over>> \in Seq(Answers) /\ toPeer \in Seq(Requests) /\ run \in Runs
  BY <1>3 DEF Talking, TypeOK
<1>6. toMe' \in Seq(Answers)
  BY <1>2, <1>5
<1>7. TypeOK'
  BY <1>1, <1>2, <1>4, <1>6, RequestTaken DEF Talking, TypeOK
<1>8. NothingAsked(toPeer) => NothingAsked(toPeer')
  BY <1>1, <1>5, NothingAskedTail
<1>9. ASSUME NEW t \in {"GET-BEST-BLOCK", "GET-PEER-BLOCK-HASHES", "GET-NEXT-BLOCKS", "GET-TIPS",
                        "GET-DATA"}, Asking(toPeer, t)
      PROVE  Asking(toPeer', t)
  BY <1>1, <1>5, <1>9, AskingHead DEF Quiet
<1>10. run.pc \notin {"idle", "best"} =>
          /\ toMe' = toMe /\ ~server.running /\ ~server'.running
  <2>1. run.pc \notin {"idle", "best"} => ~server.running
    BY <1>1, <1>5 DEF Talking, Conversation, Runs
  <2> QED BY <1>2, <1>4, <2>1
<1>11. run.pc \in {"idle", "best"} => Leftovers'
  <2>1. SUFFICES ASSUME run.pc \in {"idle", "best"} PROVE Leftovers'
    OBVIOUS
  <2>2. Leftovers
    BY <2>1 DEF Talking, Conversation
  <2>3. ASSUME server'.running
        PROVE  \E i \in 1 .. Len(toPeer') : toPeer'[i].type = "STOP-BLOCK-STREAMING"
    <3>1. server' = server /\ Head(toPeer).type # "STOP-BLOCK-STREAMING"
      BY <1>2, <1>4, <2>3
    <3>2. PICK i \in 1 .. Len(toPeer) : toPeer[i].type = "STOP-BLOCK-STREAMING"
      BY <2>2, <2>3, <3>1 DEF Leftovers
    <3>3. i # 1
      BY <1>1, <3>1, <3>2, RequestTaken
    <3>4. i - 1 \in 1 .. Len(toPeer') /\ toPeer'[i - 1] = toPeer[i]
      BY <1>1, <1>5, <3>3
    <3> QED BY <3>2, <3>4
  <2>4. server'.running => server.running
    BY <1>2, <1>4
  <2>5. CASE toMe' = toMe
    BY <1>1, <2>2, <2>3, <2>4, <2>5 DEF Leftovers
  <2>6. CASE server.running
    BY <1>1, <2>2, <2>3, <2>6 DEF Leftovers
  <2> QED BY <1>2, <2>5, <2>6
<1>12. All(toMe, Traffic) => All(toMe', Traffic)
  <2>1. All(<<over>>, Traffic)
    BY <1>3 DEF All, Traffic
  <2> QED BY <1>2, <1>5, <2>1, AllConcat
<1>13. Conversation'
  <2>1. CASE run.pc = "idle"
    BY <1>1, <1>8, <1>11, <1>12, <2>1 DEF Talking, Conversation
  <2>2. CASE run.pc = "best"
    BY <1>1, <1>9, <1>11, <1>12, <2>2 DEF Talking, Conversation
  <2>3. CASE run.pc = "dfs"
    BY <1>1, <1>8, <1>10, <2>3 DEF Talking, Conversation
  <2>4. CASE run.pc = "search"
    BY <1>1, <1>9, <1>10, <2>4 DEF Talking, Conversation, Awaiting
  <2>5. CASE run.pc = "stream"
    BY <1>1, <1>9, <1>10, <2>5 DEF Talking, Conversation, Awaiting
  <2>6. CASE run.pc = "tips"
    BY <1>1, <1>9, <1>10, <2>6 DEF Talking, Conversation, Awaiting
  <2>7. CASE run.pc = "data"
    BY <1>1, <1>9, <1>10, <2>7 DEF Talking, Conversation, Awaiting
  <2> QED BY <1>5, <2>1, <2>2, <2>3, <2>4, <2>5, <2>6, <2>7 DEF Runs
<1>14. KnownToPeer'
  <2>1. ASSUME NEW i \in 1 .. Len(toMe') PROVE GoodAnswer(toMe'[i], peer, mempool.asked)
    <3>1. toMe'[i] = over \/ (i \in 1 .. Len(toMe) /\ toMe'[i] = toMe[i])
      BY <1>2, <1>5
    <3>2. GoodAnswer(over, peer, mempool.asked)
      BY <1>3 DEF GoodAnswer
    <3> QED BY <3>1, <3>2 DEF Talking, KnownToPeer
  <2> QED BY <1>1, <2>1, RequestTaken DEF Talking, KnownToPeer
<1>15. KnownToMe'
  <2>1. CASE run.pc # "stream"
    BY <1>1, <2>1 DEF Talking, KnownToMe
  <2>2. CASE run.pc = "stream"
    <3>1. /\ toMe' = toMe /\ ~server'.running
          /\ \A i \in 1 .. Len(toPeer') : i + 1 \in 1 .. Len(toPeer) /\ toPeer'[i] = toPeer[i + 1]
      BY <1>1, <1>10, <2>2, RequestTaken
    <3> QED BY <1>1, <3>1 DEF Talking, KnownToMe
  <2> QED BY <2>1, <2>2
<1> QED BY <1>1, <1>2, <1>7, <1>13, <1>14, <1>15
        DEF Talking, SyncedMeansStored, Open

(* The answer to the one request that has one, when it is taken.           *)
LEMMA AnsweredStep ==
  ASSUME AgentAssumption, Talking, toPeer # <<>>, ~Quiet(Head(toPeer)), toPeer' = Tail(toPeer),
         NEW r \in Seq(Answers), toMe' = toMe \o r,
         UNCHANGED <<me, peer, server, run, blkClient, mempool, closed>>,
         \A i \in 1 .. Len(r) : GoodAnswer(r[i], peer, mempool.asked),
         \/ Head(toPeer).type = "GET-BEST-BLOCK" /\ AnswerIn(r, "BEST-BLOCK", Traffic)
            /\ All(r, {"BEST-BLOCK"})
         \/ Head(toPeer).type = "GET-PEER-BLOCK-HASHES" /\ AnswerIn(r, "PEER-BLOCK-HASHES", Noise)
         \/ Head(toPeer).type = "GET-TIPS" /\ AnswerIn(r, "TIPS-END", Noise \cup {"TIPS"})
         \/ Head(toPeer).type = "GET-DATA" /\ AnswerIn(r, "DATA", Noise)
  PROVE  Talking'
<1>1. toMe \in Seq(Answers) /\ toMe' \in Seq(Answers) /\ run \in Runs
  BY ConcatElements DEF Talking, TypeOK
<1>2. toPeer' = <<>> /\ toPeer' \in Seq(Requests)
  BY WhoAsks, RequestTaken DEF Talking
<1>3. TypeOK'
  BY <1>1, <1>2 DEF Talking, TypeOK
<1>4. KnownToPeer'
  <2>1. ASSUME NEW i \in 1 .. Len(toMe') PROVE GoodAnswer(toMe'[i], peer, mempool.asked)
    <3>1. CASE i \in 1 .. Len(toMe) /\ toMe'[i] = toMe[i]
      BY <3>1 DEF Talking, KnownToPeer
    <3>2. CASE i - Len(toMe) \in 1 .. Len(r) /\ toMe'[i] = r[i - Len(toMe)]
      BY <3>2
    <3> QED BY <1>1, <3>1, <3>2, ConcatElements
  <2> QED BY <1>2, <2>1 DEF Talking, KnownToPeer
<1>5. run.pc # "stream"
  BY WhoAsks DEF Talking
<1>6. KnownToMe'
  BY <1>5 DEF Talking, KnownToMe
<1>7. Conversation'
  <2>1. CASE Head(toPeer).type = "GET-BEST-BLOCK" /\ AnswerIn(r, "BEST-BLOCK", Traffic)
             /\ All(r, {"BEST-BLOCK"})
    <3>1. run.pc = "best" /\ All(toMe, Traffic) /\ run.state = "blocks" /\ Leftovers
      BY <2>1, WhoAsks DEF Talking, Conversation
    <3>2. ~server.running
      <4>1. \A i \in 1 .. Len(toPeer) : i = 1
        <5>1. toPeer \in Seq(Requests) /\ Tail(toPeer) = <<>>
          BY <1>2 DEF Talking, TypeOK
        <5>2. Len(toPeer) = 1
          BY <5>1, LastOne
        <5> QED BY <5>2
      <4>2. toPeer[1].type # "STOP-BLOCK-STREAMING"
        BY <2>1, RequestTaken
      <4> QED BY <3>1, <4>1, <4>2 DEF Leftovers
    <3>3. AnswerIn(toMe', "BEST-BLOCK", Traffic)
      BY <1>1, <2>1, <3>1, AnswerSent
    <3>4. All(toMe, {"RELAYED", "BEST-BLOCK"}) => All(toMe', {"RELAYED", "BEST-BLOCK"})
      BY <1>1, <2>1, AllConcat, AllMonotone
    <3>5. Leftovers'
      BY <3>1, <3>2, <3>4 DEF Leftovers
    <3> QED BY <1>2, <3>1, <3>3, <3>5 DEF Conversation
  <2>2. Head(toPeer).type # "GET-BEST-BLOCK" =>
           ~server.running /\ All(toMe, Noise) /\ All(toMe, Noise \cup {"TIPS"})
    BY WhoAsks, AllMonotone DEF Talking
  <2>3. CASE Head(toPeer).type = "GET-PEER-BLOCK-HASHES" /\ AnswerIn(r, "PEER-BLOCK-HASHES", Noise)
    <3>1. run.pc = "search" /\ run.state = "blocks" /\ ~server.running
      BY <2>2, <2>3, WhoAsks DEF Talking, Conversation
    <3>2. AnswerIn(toMe', "PEER-BLOCK-HASHES", Noise)
      BY <1>1, <2>2, <2>3, AnswerSent
    <3> QED BY <1>2, <3>1, <3>2 DEF Conversation, Awaiting
  <2>4. CASE Head(toPeer).type = "GET-TIPS" /\ AnswerIn(r, "TIPS-END", Noise \cup {"TIPS"})
    <3>1. run.pc = "tips" /\ mempool.receiving /\ run.relay /\ ~server.running
      BY <2>2, <2>4, WhoAsks DEF Talking, Conversation
    <3>2. AnswerIn(toMe', "TIPS-END", Noise \cup {"TIPS"})
      BY <1>1, <2>2, <2>4, AnswerSent
    <3> QED BY <1>2, <3>1, <3>2 DEF Conversation, Awaiting
  <2>5. CASE Head(toPeer).type = "GET-DATA" /\ AnswerIn(r, "DATA", Noise)
    <3>1. run.pc = "data" /\ run.relay /\ ~server.running
      BY <2>2, <2>5, WhoAsks DEF Talking, Conversation
    <3>2. AnswerIn(toMe', "DATA", Noise)
      BY <1>1, <2>2, <2>5, AnswerSent
    <3> QED BY <1>2, <3>1, <3>2 DEF Conversation, Awaiting
  <2> QED BY <2>1, <2>3, <2>4, <2>5
<1> QED BY <1>3, <1>4, <1>6, <1>7 DEF Talking, SyncedMeansStored, Open

LEMMA OneAnswer ==
  ASSUME NEW m \in Answers, NEW K
  PROVE  /\ <<m>> \in Seq(Answers) /\ AnswerIn(<<m>>, Kind(m), K) /\ All(<<m>>, {Kind(m)})
         /\ Len(<<m>>) = 1 /\ <<m>>[1] = m
  BY DEF AnswerIn, All

(* GET-NEXT-BLOCKS starts the stream: no other one is under way, and both  *)
(* of its ends are stored.                                                 *)
LEMMA GetNextBlocksStep ==
  ASSUME AgentAssumption, Talking, PeerReceive, Head(toPeer).type = "GET-NEXT-BLOCKS" PROVE Talking'
<1>1. PICK m : m = Head(toPeer)
  OBVIOUS
<1>2. /\ toPeer # <<>> /\ toPeer' = Tail(toPeer) /\ HandleGetNextBlocks(m)
      /\ UNCHANGED <<me, peer, run, blkClient, mempool>>
  BY <1>1 DEF PeerReceive, agentVars
<1>3. /\ m \in Requests /\ m.type = "GET-NEXT-BLOCKS" /\ m.start \in peer.blocks
      /\ m.end \in peer.blocks /\ m.start \in Blocks /\ m.end \in Blocks /\ m.quantity \in Int
  BY <1>1, <1>2, RequestTaken, RequestForm DEF GoodRequest
<1>4. ~Quiet(Head(toPeer))
  BY DEF Quiet
<1>5. /\ toPeer' = <<>> /\ run.pc = "stream" /\ ~server.running /\ All(toMe, Noise)
      /\ run.state = "blocks" /\ blkClient.exists /\ ~blkClient.fired
  BY <1>2, <1>4, WhoAsks DEF Talking, Conversation
<1>6. /\ server' = [running |-> TRUE, cur |-> m.start, end |-> m.end,
                    left |-> Min({m.quantity, Limit})]
      /\ toMe' = toMe /\ closed' = closed
  BY <1>2, <1>3, <1>5 DEF HandleGetNextBlocks
<1>7. Min({m.quantity, Limit}) \in Int
  <2>1. Limit \in Int
    BY DEF AgentAssumption
  <2>2. \E x \in {m.quantity, Limit} : \A y \in {m.quantity, Limit} : x =< y
    BY <1>3, <2>1
  <2>3. Min({m.quantity, Limit}) \in {m.quantity, Limit}
    BY <2>2 DEF Min
  <2> QED BY <1>3, <2>1, <2>3
<1>8. /\ server' \in [running : BOOLEAN, cur : Blocks, end : Blocks, left : Int]
      /\ server'.running /\ server'.cur = m.start
  BY <1>3, <1>6, <1>7
<1>9. TypeOK'
  BY <1>2, <1>6, <1>8, RequestTaken DEF Talking, TypeOK
<1>10. Conversation'
  <2>1. All(toMe, Noise \cup {"BLOCKS"})
    BY <1>5, AllMonotone
  <2> QED BY <1>2, <1>5, <1>6, <1>8, <2>1 DEF Conversation
<1>11. KnownToPeer'
  BY <1>2, <1>6, RequestTaken DEF Talking, KnownToPeer
<1>12. KnownToMe'
  <2>1. blkClient.last = -1 => m.start = run.lo
    <3>1. toPeer[1] = m /\ 1 \in 1 .. Len(toPeer)
      BY <1>1, <1>2, RequestTaken
    <3> QED BY <1>3, <1>5, <3>1 DEF Talking, KnownToMe
  <2> QED BY <1>2, <1>5, <1>6, <1>8, <2>1 DEF Talking, KnownToMe
<1> QED BY <1>2, <1>6, <1>9, <1>10, <1>11, <1>12
        DEF Talking, SyncedMeansStored, Open

LEMMA OneAnswerStep ==
  ASSUME AgentAssumption, Talking, toPeer # <<>>, toPeer' = Tail(toPeer),
         NEW a \in Answers, toMe' = toMe \o <<a>>, GoodAnswer(a, peer, mempool.asked),
         UNCHANGED <<me, peer, server, run, blkClient, mempool, closed>>,
         \/ Head(toPeer).type = "GET-BEST-BLOCK" /\ Kind(a) = "BEST-BLOCK"
         \/ Head(toPeer).type = "GET-PEER-BLOCK-HASHES" /\ Kind(a) = "PEER-BLOCK-HASHES"
         \/ Head(toPeer).type = "GET-DATA" /\ Kind(a) = "DATA"
  PROVE  Talking'
<1>1. PICK r : r = <<a>>
  OBVIOUS
<1>2. /\ r \in Seq(Answers) /\ AnswerIn(r, Kind(a), Traffic) /\ AnswerIn(r, Kind(a), Noise)
      /\ All(r, {Kind(a)})
  BY <1>1, OneAnswer
<1>3. \A i \in 1 .. Len(r) : GoodAnswer(r[i], peer, mempool.asked)
  BY <1>1
<1>4. ~Quiet(Head(toPeer))
  BY DEF Quiet
<1>5. toMe' = toMe \o r
  BY <1>1
<1>6. CASE Head(toPeer).type = "GET-BEST-BLOCK" /\ Kind(a) = "BEST-BLOCK"
  BY <1>2, <1>3, <1>4, <1>5, <1>6, AnsweredStep
<1>7. CASE Head(toPeer).type = "GET-PEER-BLOCK-HASHES" /\ Kind(a) = "PEER-BLOCK-HASHES"
  BY <1>2, <1>3, <1>4, <1>5, <1>7, AnsweredStep
<1>8. CASE Head(toPeer).type = "GET-DATA" /\ Kind(a) = "DATA"
  BY <1>2, <1>3, <1>4, <1>5, <1>8, AnsweredStep
<1> QED BY <1>6, <1>7, <1>8

LEMMA GetBestBlockStep ==
  ASSUME AgentAssumption, Talking, PeerReceive, Head(toPeer).type = "GET-BEST-BLOCK" PROVE Talking'
<1>1. PICK a : a = [type |-> "BEST-BLOCK", block |-> peer.best]
  OBVIOUS
<1>2. /\ toPeer # <<>> /\ toPeer' = Tail(toPeer) /\ toMe' = toMe \o <<a>>
      /\ UNCHANGED <<me, peer, server, run, blkClient, mempool, closed>>
  BY <1>1 DEF PeerReceive, agentVars, Answer
<1>3. peer.best \in Blocks /\ peer.best \in peer.blocks
  BY DEF Talking, TypeOK, Storage
<1>4. a \in Answers /\ Kind(a) = "BEST-BLOCK" /\ a.block \in peer.blocks
  BY <1>1, <1>3 DEF Answers, Kind
<1>5. GoodAnswer(a, peer, mempool.asked)
  BY <1>4 DEF GoodAnswer
<1> QED BY <1>2, <1>4, <1>5, OneAnswerStep

LEMMA GetPeerBlockHashesStep ==
  ASSUME AgentAssumption, Talking, PeerReceive, Head(toPeer).type = "GET-PEER-BLOCK-HASHES" PROVE Talking'
<1>1. PICK hs : hs = Head(toPeer).heights
  OBVIOUS
<1>2. PICK a : a = [type |-> "PEER-BLOCK-HASHES", list |-> PeerBlockHashes(hs)]
  OBVIOUS
<1>3. /\ toPeer # <<>> /\ toPeer' = Tail(toPeer) /\ toMe' = toMe \o <<a>>
      /\ UNCHANGED <<me, peer, server, run, blkClient, mempool, closed>>
  BY <1>1, <1>2 DEF PeerReceive, agentVars, Answer
<1>4. hs \in HeightSets
  BY <1>1, <1>3, RequestTaken, RequestForm
<1>5. Chain(peer.best) \subseteq peer.blocks /\ peer.blocks \subseteq Blocks
  <2>1. /\ peer.blocks \in SUBSET Blocks /\ peer.best \in peer.blocks
        /\ \A c \in peer.blocks : Parent[c] \in peer.blocks
    BY DEF Talking, TypeOK, Storage
  <2> QED BY <2>1, ChainWithin
<1>6. PeerBlockHashes(hs) \in HashLists /\ PeerBlockHashes(hs) \subseteq peer.blocks
  BY <1>4, <1>5 DEF PeerBlockHashes, HashLists, HeightSets
<1>7. a \in Answers /\ Kind(a) = "PEER-BLOCK-HASHES" /\ a.list \subseteq peer.blocks
  BY <1>2, <1>6 DEF Answers, Kind
<1>8. GoodAnswer(a, peer, mempool.asked)
  BY <1>7 DEF GoodAnswer
<1> QED BY <1>3, <1>7, <1>8, OneAnswerStep

LEMMA GetDataStep ==
  ASSUME AgentAssumption, Talking, PeerReceive, Head(toPeer).type = "GET-DATA" PROVE Talking'
<1>1. PICK m : m = Head(toPeer)
  OBVIOUS
<1>2. PICK a : a = [type |-> "DATA", origin |-> "mempool", tx |-> m.tx]
  OBVIOUS
<1>3. /\ toPeer # <<>> /\ toPeer' = Tail(toPeer) /\ HandleGetData(m)
      /\ UNCHANGED <<me, peer, run, blkClient, mempool>>
  BY <1>1 DEF PeerReceive, agentVars
<1>4. m.tx \in Txs /\ m.tx \in mempool.asked /\ m.tx \in peer.txs
  <2>1. m \in Requests /\ GoodRequest(m, peer, mempool.asked) /\ m.type = "GET-DATA"
    BY <1>1, <1>3, RequestTaken
  <2>2. mempool.asked \subseteq peer.txs
    BY DEF Talking, KnownToPeer
  <2> QED BY <2>1, <2>2, RequestForm DEF GoodRequest
<1>5. toMe' = toMe \o <<a>> /\ UNCHANGED <<server, closed>>
  BY <1>2, <1>3, <1>4 DEF HandleGetData, Answer
<1>6. a \in Answers /\ Kind(a) = "DATA" /\ a.tx \in mempool.asked
  BY <1>2, <1>4 DEF Answers, Kind
<1>7. GoodAnswer(a, peer, mempool.asked)
  BY <1>6 DEF GoodAnswer
<1> QED BY <1>3, <1>5, <1>6, <1>7, OneAnswerStep

LEMMA SetToSeqType ==
  ASSUME NEW S, IsFiniteSet(S)
  PROVE  SetToSeq(S) \in [1 .. Cardinality(S) -> S] /\ Cardinality(S) \in Nat
<1>1. Cardinality(S) \in Nat /\ ExistsBijection(1 .. Cardinality(S), S)
  BY FS_CardinalityType
<1>2. \E f \in [1 .. Cardinality(S) -> S] : IsInjective(f)
  BY <1>1 DEF ExistsBijection, Bijection, Injection
<1> QED BY <1>1, <1>2 DEF SetToSeq

LEMMA GetTipsStep ==
  ASSUME AgentAssumption, Talking, PeerReceive, Head(toPeer).type = "GET-TIPS" PROVE Talking'
<1> DEFINE tip(t) == [type |-> "TIPS", tx |-> t]
           over == [type |-> "TIPS-END"]
<1>1. PICK tips : tips = SetToSeq(MempoolTips)
  OBVIOUS
<1>2. PICK q : q = [i \in 1 .. Len(tips) |-> tip(tips[i])]
  OBVIOUS
<1>3. PICK r : r = q \o <<over>>
  OBVIOUS
<1>4. toPeer # <<>> /\ ~Quiet(Head(toPeer))
  BY DEF PeerReceive, Quiet
<1>5. ~server.running
  BY <1>4, WhoAsks DEF Talking
<1>6. /\ toPeer' = Tail(toPeer) /\ toMe' = toMe \o r
      /\ UNCHANGED <<me, peer, server, run, blkClient, mempool, closed>>
  BY <1>1, <1>2, <1>3, <1>5 DEF PeerReceive, HandleGetTips, agentVars, Answer
<1>7. MempoolTips \subseteq peer.txs /\ peer.txs \subseteq Txs
  BY DEF MempoolTips, Talking, TypeOK, Storage
<1>8. IsFiniteSet(MempoolTips)
  BY <1>7, FS_Subset DEF AgentAssumption
<1>9. PICK n \in Nat : tips \in [1 .. n -> MempoolTips]
  BY <1>1, <1>8, SetToSeqType
<1>10. Len(tips) = n
  BY <1>9
<1>11. ASSUME NEW t \in peer.txs
       PROVE  tip(t) \in Answers /\ Kind(tip(t)) = "TIPS" /\ tip(t).tx \in peer.txs
  BY <1>7 DEF Answers, Kind
<1>12. over \in Answers /\ Kind(over) = "TIPS-END"
  BY DEF Answers, Kind
<1> HIDE DEF tip, over
<1>13. \A i \in 1 .. n : q[i] \in Answers /\ Kind(q[i]) = "TIPS" /\ q[i].tx \in peer.txs
  BY <1>2, <1>7, <1>9, <1>10, <1>11
<1>14. q \in Seq(Answers) /\ Len(q) = n
  BY <1>2, <1>10, <1>13
<1>15. /\ r \in Seq(Answers) /\ Len(r) = n + 1 /\ r[n + 1] = over
       /\ \A i \in 1 .. n : r[i] = q[i]
  BY <1>3, <1>12, <1>14
<1>16. \A i \in 1 .. n : Kind(r[i]) = "TIPS" /\ r[i].tx \in peer.txs
  BY <1>13, <1>15
<1>17. \A i \in 1 .. Len(r) : GoodAnswer(r[i], peer, mempool.asked)
  BY <1>12, <1>15, <1>16 DEF GoodAnswer
<1>18. AnswerIn(r, "TIPS-END", Noise \cup {"TIPS"})
  <2>1. n + 1 \in 1 .. Len(r) /\ (n + 1) - 1 = n /\ \A i \in (n + 1) + 1 .. Len(r) : FALSE
    BY <1>9, <1>15
  <2> QED BY <1>12, <1>15, <1>16, <2>1 DEF AnswerIn
<1> QED BY <1>4, <1>6, <1>15, <1>17, <1>18, AnsweredStep

LEMMA PeerReceiveStep ==
  ASSUME AgentAssumption, Talking, PeerReceive PROVE Talking'
<1>1. toPeer # <<>> /\ toPeer \in Seq(Requests)
  BY DEF PeerReceive, Talking, TypeOK
<1>2. Head(toPeer) \in Requests
  BY <1>1
<1>3. CASE Quiet(Head(toPeer))
  BY <1>3, QuietStep
<1>4. CASE ~Quiet(Head(toPeer))
  BY <1>2, <1>4, RequestForm, GetBestBlockStep, GetPeerBlockHashesStep, GetNextBlocksStep,
     GetTipsStep, GetDataStep DEF Quiet
<1> QED BY <1>3, <1>4

LEMMA PeerGoesSilentStep ==
  ASSUME Talking, PeerGoesSilent PROVE Talking'
<1>1. UNCHANGED <<me, peer, server, toPeer, toMe, run, blkClient, mempool, closed>>
  BY DEF PeerGoesSilent, agentVars
<1>2. TypeOK' /\ KnownToPeer' /\ KnownToMe'
  BY <1>1 DEF Talking, TypeOK, KnownToPeer, KnownToMe
<1>3. Conversation'
  BY <1>1 DEF Talking, Conversation, Leftovers, Awaiting
<1> QED BY <1>1, <1>2, <1>3 DEF Talking, SyncedMeansStored, Open

(* The next block of the stream, and its end: to a run that waits for them *)
(* or, while STOP-BLOCK-STREAMING is on its way, to one that drops them.   *)
LEMMA PeerSendStep ==
  ASSUME AgentAssumption, Talking, PeerSend PROVE Talking'
<1>1. /\ server.running /\ UNCHANGED <<me, peer, toPeer, run, blkClient, mempool, closed>>
  BY DEF PeerSend, agentVars
<1>2. PICK blk : blk = [type |-> "BLOCKS", block |-> server.cur]
  OBVIOUS
<1>3. PICK next : next = AtHeight(peer.best, Height[server.cur] + 1)
  OBVIOUS
<1>4. PICK r : /\ toMe' = toMe \o r
               /\ \/ server' = NoServer /\ \E code \in EndCodes :
                        r = <<BlocksEnd(code)>> \/ r = <<blk, BlocksEnd(code)>>
                  \/ /\ server' = [server EXCEPT !.left = @ - 1, !.cur = CHOOSE b \in next : TRUE]
                     /\ next # {} /\ r = <<blk>>
  BY <1>2, <1>3 DEF PeerSend, Answer, EndCodes
<1>5. /\ server \in [running : BOOLEAN, cur : Blocks, end : Blocks, left : Int]
      /\ toMe \in Seq(Answers) /\ toPeer \in Seq(Requests) /\ run \in Runs
  BY DEF Talking, TypeOK
<1>6. blk \in Answers /\ Kind(blk) = "BLOCKS" /\ blk.type = "BLOCKS" /\ blk.block = server.cur
  BY <1>2, <1>5 DEF Answers, Kind
<1>7. ASSUME NEW code \in EndCodes
      PROVE  /\ BlocksEnd(code) \in Answers /\ Kind(BlocksEnd(code)) = "BLOCKS-END"
             /\ BlocksEnd(code).type = "BLOCKS-END"
  BY DEF Answers, Kind, BlocksEnd
<1>8. next # {} => (CHOOSE b \in next : TRUE) \in Blocks
  BY <1>3 DEF AtHeight, Chain
<1>9. /\ NoServer \in [running : BOOLEAN, cur : Blocks, end : Blocks, left : Int]
      /\ ~NoServer.running
  BY DEF NoServer, AgentAssumption
<1> DEFINE Sent ==
       /\ r \in Seq(Answers) /\ All(r, {"BLOCKS", "BLOCKS-END"}) /\ FirstBlock(r, server.cur)
       /\ server' \in [running : BOOLEAN, cur : Blocks, end : Blocks, left : Int]
       /\ \/ ~server'.running /\ AnswerIn(r, "BLOCKS-END", Noise \cup {"BLOCKS"})
          \/ server'.running /\ Len(r) = 1 /\ r[1].type = "BLOCKS" /\ All(r, Noise \cup {"BLOCKS"})
<1>10. Sent
  <2>1. ASSUME NEW code \in EndCodes, server' = NoServer, r = <<BlocksEnd(code)>>
        PROVE  Sent
    <3>1. r \in Seq(Answers) /\ Len(r) = 1 /\ Kind(r[1]) = "BLOCKS-END" /\ r[1].type = "BLOCKS-END"
      BY <1>7, <2>1
    <3>2. All(r, {"BLOCKS", "BLOCKS-END"}) /\ FirstBlock(r, server.cur)
      BY <3>1 DEF All, FirstBlock
    <3>3. AnswerIn(r, "BLOCKS-END", Noise \cup {"BLOCKS"})
      BY <3>1 DEF AnswerIn
    <3> QED BY <1>9, <2>1, <3>1, <3>2, <3>3
  <2>2. ASSUME NEW code \in EndCodes, server' = NoServer, r = <<blk, BlocksEnd(code)>>
        PROVE  Sent
    <3>1. /\ r \in Seq(Answers) /\ Len(r) = 2 /\ r[1] = blk /\ Kind(r[2]) = "BLOCKS-END"
          /\ r[2].type = "BLOCKS-END"
      BY <1>6, <1>7, <2>2
    <3>2. All(r, {"BLOCKS", "BLOCKS-END"}) /\ FirstBlock(r, server.cur)
      BY <1>6, <3>1 DEF All, FirstBlock
    <3>3. AnswerIn(r, "BLOCKS-END", Noise \cup {"BLOCKS"})
      BY <1>6, <3>1 DEF AnswerIn
    <3> QED BY <1>9, <2>2, <3>1, <3>2, <3>3
  <2>3. ASSUME server' = [server EXCEPT !.left = @ - 1, !.cur = CHOOSE b \in next : TRUE],
               next # {}, r = <<blk>>
        PROVE  Sent
    <3>1. r \in Seq(Answers) /\ Len(r) = 1 /\ r[1] = blk
      BY <1>6, <2>3
    <3>2. All(r, {"BLOCKS", "BLOCKS-END"}) /\ FirstBlock(r, server.cur) /\ All(r, Noise \cup {"BLOCKS"})
      BY <1>6, <3>1 DEF All, FirstBlock
    <3>3. /\ server' \in [running : BOOLEAN, cur : Blocks, end : Blocks, left : Int]
          /\ server'.running
      <4>1. PICK b \in Blocks : server' = [server EXCEPT !.left = @ - 1, !.cur = b]
        BY <1>8, <2>3
      <4>2. PICK l \in Int : server' = [running |-> TRUE, cur |-> b, end |-> server.end, left |-> l]
        <5>1. server.left - 1 \in Int /\ server.running = TRUE
          BY <1>1, <1>5
        <5> QED BY <1>5, <4>1, <5>1
      <4> QED BY <1>5, <4>2
    <3> QED BY <1>6, <3>1, <3>2, <3>3
  <2> QED BY <1>4, <2>1, <2>2, <2>3
<1>11. toMe' \in Seq(Answers)
  BY <1>4, <1>5, <1>10
<1>12. TypeOK'
  BY <1>1, <1>10, <1>11 DEF Talking, TypeOK
<1>13. KnownToPeer'
  <2>1. ASSUME NEW i \in 1 .. Len(toMe') PROVE GoodAnswer(toMe'[i], peer, mempool.asked)
    <3>1. CASE i \in 1 .. Len(toMe) /\ toMe'[i] = toMe[i]
      BY <3>1 DEF Talking, KnownToPeer
    <3>2. CASE i - Len(toMe) \in 1 .. Len(r) /\ toMe'[i] = r[i - Len(toMe)]
      BY <1>10, <3>2 DEF All, GoodAnswer
    <3> QED BY <1>4, <1>5, <1>10, <3>1, <3>2, ConcatElements
  <2> QED BY <1>1, <2>1 DEF Talking, KnownToPeer
<1>14. CASE run.pc \in {"idle", "best"}
  <2>1. /\ Leftovers /\ blkClient.exists /\ blkClient.fired /\ run.state = "blocks"
        /\ \E i \in 1 .. Len(toPeer) : toPeer[i].type = "STOP-BLOCK-STREAMING"
    BY <1>1, <1>14 DEF Talking, Conversation, Leftovers
  <2>2. toPeer # <<>>
    BY <1>5, <2>1
  <2>3. All(toMe, Traffic)
    BY <1>14, <2>2 DEF Talking, Conversation
  <2>4. All(toMe', Traffic)
    <3>1. All(r, Traffic)
      BY <1>10, AllMonotone DEF Traffic
    <3> QED BY <1>4, <1>5, <1>10, <2>3, <3>1, AllConcat
  <2>5. Leftovers'
    BY <1>1, <2>1 DEF Leftovers
  <2>6. Conversation'
    BY <1>1, <1>14, <2>2, <2>4, <2>5 DEF Talking, Conversation
  <2>7. KnownToMe'
    BY <1>1, <1>14 DEF Talking, KnownToMe
  <2> QED BY <1>1, <1>12, <1>13, <2>6, <2>7 DEF Talking, SyncedMeansStored, Open
<1>15. CASE run.pc = "stream"
  <2>1. /\ toPeer = <<>> /\ All(toMe, Noise \cup {"BLOCKS"}) /\ run.state = "blocks"
        /\ blkClient.exists /\ ~blkClient.fired
    BY <1>1, <1>15 DEF Talking, Conversation
  <2>2. ASSUME ~server'.running, AnswerIn(r, "BLOCKS-END", Noise \cup {"BLOCKS"})
        PROVE  Conversation'
    <3>1. AnswerIn(toMe', "BLOCKS-END", Noise \cup {"BLOCKS"})
      BY <1>4, <1>5, <1>10, <2>1, <2>2, AnswerSent
    <3> QED BY <1>1, <1>15, <2>1, <2>2, <3>1 DEF Conversation, Awaiting
  <2>3. ASSUME server'.running, All(r, Noise \cup {"BLOCKS"})
        PROVE  Conversation'
    <3>1. All(toMe', Noise \cup {"BLOCKS"})
      BY <1>4, <1>5, <1>10, <2>1, <2>3, AllConcat
    <3> QED BY <1>1, <1>15, <2>1, <2>3, <3>1 DEF Conversation
  <2>4. Conversation'
    BY <1>10, <2>2, <2>3
  <2>5. blkClient.last = -1 => FirstBlock(toMe', run.lo)
    <3>1. SUFFICES ASSUME blkClient.last = -1 PROVE FirstBlock(toMe', run.lo)
      OBVIOUS
    <3>2. /\ FirstBlock(toMe, run.lo)
          /\ (\A i \in 1 .. Len(toMe) : toMe[i].type # "BLOCKS") => server.cur = run.lo
      BY <1>1, <1>15, <3>1 DEF Talking, KnownToMe
    <3> QED BY <1>4, <1>5, <1>10, <3>2, FirstBlockSent
  <2>6. server'.running => \E i \in 1 .. Len(toMe') : toMe'[i].type = "BLOCKS"
    <3>1. SUFFICES ASSUME server'.running PROVE \E i \in 1 .. Len(toMe') : toMe'[i].type = "BLOCKS"
      OBVIOUS
    <3>2. Len(r) = 1 /\ r[1].type = "BLOCKS"
      BY <1>10, <3>1
    <3>3. Len(toMe) + 1 \in 1 .. Len(toMe') /\ toMe'[Len(toMe) + 1] = r[1]
      <4>1. toMe \in Seq(Answers) /\ r \in Seq(Answers) /\ toMe' = toMe \o r
        BY <1>4, <1>5, <1>10
      <4>2. 1 \in 1 .. Len(r)
        BY <3>2
      <4> QED BY <4>1, <4>2, ConcatRight
    <3> QED BY <3>2, <3>3
  <2>7. KnownToMe'
    BY <1>1, <2>5, <2>6 DEF Talking, KnownToMe
  <2> QED BY <1>1, <1>12, <1>13, <2>4, <2>7 DEF Talking, SyncedMeansStored, Open
<1>16. run.pc \in {"idle", "best", "stream"}
  BY <1>1, <1>5 DEF Talking, Conversation, Runs
<1> QED BY <1>14, <1>15, <1>16

-----------------------------------------------------------------------------
(* The search of the mempool.                                              *)

(* More transactions may have been asked for.                              *)
LEMMA AskedGrows ==
  ASSUME KnownToPeer, NEW A, mempool.asked \subseteq A
  PROVE  /\ \A i \in 1 .. Len(toPeer) : GoodRequest(toPeer[i], peer, A)
         /\ \A i \in 1 .. Len(toMe) : GoodAnswer(toMe[i], peer, A)
  BY DEF KnownToPeer, GoodRequest, GoodAnswer

LEMMA SearchQuiet ==
  ASSUME Talking, run.pc = "dfs"
  PROVE  /\ run.relay /\ ~server.running /\ NothingAsked(toPeer) /\ All(toMe, Noise)
         /\ All(toMe, Traffic) /\ Leftovers
<1>1. run.relay /\ ~server.running /\ NothingAsked(toPeer) /\ All(toMe, Noise)
  BY DEF Talking, Conversation
<1>2. All(toMe, Traffic) /\ All(toMe, {"RELAYED", "BEST-BLOCK"})
  BY <1>1, AllMonotone DEF Noise, Traffic
<1> QED BY <1>1, <1>2 DEF Leftovers

LEMMA SeqGrows ==
  ASSUME NEW T
  PROVE  /\ <<>> \in Seq(T)
         /\ \A S, s, t : T \subseteq S /\ s \in Seq(T) /\ t \in T =>
               s \in Seq(S) /\ s \o <<t>> \in Seq(T) /\ s \o <<t>> \in Seq(S)
<1>1. <<>> \in Seq(T)
  OBVIOUS
<1>2. ASSUME NEW S, NEW s \in Seq(T), NEW t \in T, T \subseteq S
      PROVE  s \in Seq(S) /\ s \o <<t>> \in Seq(T) /\ s \o <<t>> \in Seq(S)
  <2>1. s \in Seq(S) /\ <<t>> \in Seq(S) /\ <<t>> \in Seq(T)
    BY <1>2
  <2>2. s \o <<t>> \in Seq(T)
    BY <2>1
  <2>3. s \o <<t>> \in Seq(S)
    BY <2>1
  <2> QED BY <2>1, <2>2, <2>3
<1> QED BY <1>1, <1>2

LEMMA PushOrAskStep ==
  ASSUME AgentAssumption, Talking, run.pc = "dfs", NEW t \in peer.txs, NEW s \in Seq(peer.txs),
         PushOrAsk(t, s), UNCHANGED <<me, peer, server, toMe, blkClient, closed>>
  PROVE  Talking'
<1>1. /\ mempool \in Mempools /\ run \in Runs /\ toPeer \in Seq(Requests) /\ peer.txs \subseteq Txs
      /\ KnownToPeer
  BY DEF Talking, TypeOK, Storage
<1>2. s \in Seq(Txs) /\ s \o <<t>> \in Seq(peer.txs) /\ s \o <<t>> \in Seq(Txs)
  BY <1>1, SeqGrows
<1>3. CASE t \in mempool.cache \cup me.txs
  <2>1. mempool' = [mempool EXCEPT !.stack = s \o <<t>>] /\ UNCHANGED <<run, toPeer>>
    BY <1>3 DEF PushOrAsk
  <2>2. /\ mempool' \in Mempools /\ mempool'.stack = s \o <<t>>
        /\ mempool'.missing = mempool.missing /\ mempool'.cache = mempool.cache
        /\ mempool'.asked = mempool.asked /\ mempool'.tips = mempool.tips
    BY <1>1, <1>2, <2>1 DEF Mempools
  <2>3. TypeOK'
    BY <2>1, <2>2 DEF Talking, TypeOK
  <2>4. KnownToPeer' /\ KnownToMe'
    BY <1>2, <2>1, <2>2 DEF Talking, KnownToPeer, KnownToMe
  <2>5. Conversation'
    BY <2>1, SearchQuiet DEF Conversation
  <2> QED BY <2>1, <2>3, <2>4, <2>5 DEF Talking, SyncedMeansStored, Open
<1>4. CASE t \notin mempool.cache \cup me.txs
  <2>1. PICK d : d = [type |-> "GET-DATA", tx |-> t]
    OBVIOUS
  <2>2. /\ mempool' = [mempool EXCEPT !.stack = s, !.asked = @ \cup {t}]
        /\ run' = [run EXCEPT !.pc = "data"] /\ toPeer' = Append(toPeer, d)
    BY <1>4, <2>1 DEF PushOrAsk, Ask
  <2>3. d \in Requests /\ d.type = "GET-DATA" /\ d.tx = t
    BY <1>1, <2>1 DEF Requests
  <2>4. /\ mempool' \in Mempools /\ mempool'.stack = s
        /\ mempool'.missing = mempool.missing /\ mempool'.cache = mempool.cache
        /\ mempool'.asked = mempool.asked \cup {t} /\ mempool'.tips = mempool.tips
    BY <1>1, <1>2, <2>2 DEF Mempools
  <2>5. /\ run' \in Runs /\ run'.pc = "data" /\ run'.relay = run.relay /\ run'.myBest = run.myBest
        /\ run'.peerBest = run.peerBest /\ run'.lo = run.lo /\ run'.synced = run.synced
        /\ run'.syncedBlock = run.syncedBlock
    BY <1>1, <2>2 DEF Runs
  <2>6. /\ toPeer' \in Seq(Requests) /\ Len(toPeer') = Len(toPeer) + 1
        /\ toPeer'[Len(toPeer) + 1] = d /\ \A i \in 1 .. Len(toPeer) : toPeer'[i] = toPeer[i]
    BY <1>1, <2>2, <2>3
  <2>7. TypeOK'
    BY <2>4, <2>5, <2>6 DEF Talking, TypeOK
  <2>8. KnownToPeer'
    <3>1. ASSUME NEW i \in 1 .. Len(toPeer') PROVE GoodRequest(toPeer'[i], peer, mempool'.asked)
      <4>1. CASE i = Len(toPeer) + 1
        BY <2>3, <2>4, <2>6, <4>1 DEF GoodRequest
      <4>2. CASE i # Len(toPeer) + 1
        <5>1. i \in 1 .. Len(toPeer) /\ toPeer'[i] = toPeer[i]
          BY <1>1, <2>6, <4>2
        <5> QED BY <1>1, <2>4, <5>1, AskedGrows
      <4> QED BY <4>1, <4>2
    <3>2. \A i \in 1 .. Len(toMe) : GoodAnswer(toMe[i], peer, mempool'.asked)
      BY <1>1, <2>4, AskedGrows
    <3> QED BY <1>1, <2>4, <2>5, <3>1, <3>2 DEF KnownToPeer
  <2>9. KnownToMe'
    BY <2>5 DEF Talking, KnownToMe
  <2>10. Asking(toPeer', "GET-DATA")
    BY <1>1, <2>2, <2>3, SearchQuiet, AskingSent
  <2>11. Conversation'
    BY <2>5, <2>10, SearchQuiet DEF Conversation, Awaiting
  <2> QED BY <2>5, <2>7, <2>8, <2>9, <2>11 DEF Talking, SyncedMeansStored, Open
<1> QED BY <1>3, <1>4

(* The run ends, with nothing asked and only the remains of a stream.      *)
LEMMA RunEnds ==
  ASSUME Talking, run' = [run EXCEPT !.pc = "idle"],
         toPeer' \in Seq(Requests), NothingAsked(toPeer'), toMe' \in Seq(Answers), All(toMe', Traffic),
         \A i \in 1 .. Len(toMe') : GoodAnswer(toMe'[i], peer, mempool.asked),
         blkClient' \in BlkClients, blkClient'.last \in me.blocks \cup {-1},
         server.running => \E i \in 1 .. Len(toPeer') : toPeer'[i].type = "STOP-BLOCK-STREAMING",
         \/ ~server.running /\ All(toMe', {"RELAYED", "BEST-BLOCK"})
         \/ blkClient'.exists /\ blkClient'.fired /\ run.state = "blocks",
         UNCHANGED <<me, peer, server, mempool, closed>>
  PROVE  Talking'
<1>1. run \in Runs
  BY DEF Talking, TypeOK
<1>2. /\ run' \in Runs /\ run'.pc = "idle" /\ run'.state = run.state /\ run'.myBest = run.myBest
      /\ run'.peerBest = run.peerBest /\ run'.lo = run.lo /\ run'.synced = run.synced
      /\ run'.syncedBlock = run.syncedBlock
  BY <1>1 DEF Runs
<1>3. TypeOK'
  BY <1>2 DEF Talking, TypeOK
<1>4. KnownToPeer' /\ KnownToMe'
  <2>1. \A i \in 1 .. Len(toPeer') : GoodRequest(toPeer'[i], peer, mempool.asked)
    BY DEF NothingAsked, Quiet, GoodRequest
  <2> QED BY <1>2, <2>1 DEF Talking, KnownToPeer, KnownToMe
<1>5. Leftovers'
  BY <1>2 DEF Leftovers
<1>6. Conversation'
  BY <1>2, <1>5 DEF Conversation
<1> QED BY <1>2, <1>3, <1>4, <1>6 DEF Talking, SyncedMeansStored, Open

LEMMA MempoolStepStep ==
  ASSUME AgentAssumption, Talking, MempoolStep PROVE Talking'
<1>1. run.pc = "dfs" /\ UNCHANGED <<peer, server, toMe, blkClient, closed>>
  BY DEF MempoolStep, peerVars
<1>2. PICK s : s = IF Len(mempool.stack) > MaxStack THEN Tail(mempool.stack) ELSE mempool.stack
  OBVIOUS
<1>3. PICK top : top = Last(s)
  OBVIOUS
<1>4. \/ /\ s # <<>> /\ TxDeps[top] \ me.txs = {} /\ UNCHANGED <<run, toPeer>>
         /\ me' = [me EXCEPT !.txs = @ \cup {top}]
         /\ mempool' = [mempool EXCEPT !.stack = Front(s), !.missing = @ \ {top}]
      \/ s # <<>> /\ \E t \in TxDeps[top] \ me.txs : PushOrAsk(t, s) /\ UNCHANGED me
      \/ run' = [run EXCEPT !.pc = "idle"] /\ UNCHANGED <<me, mempool, toPeer>>
      \/ \E t \in mempool.missing : PushOrAsk(t, <<>>) /\ UNCHANGED me
  BY <1>2, <1>3 DEF MempoolStep
<1>5. /\ mempool \in Mempools /\ run \in Runs /\ peer.txs \subseteq Txs /\ Storage(me)
      /\ \A t \in peer.txs : TxDeps[t] \subseteq peer.txs
      /\ mempool.stack \in Seq(peer.txs) /\ mempool.missing \subseteq peer.txs
  BY DEF Talking, TypeOK, Storage, KnownToPeer
<1>6. s \in Seq(peer.txs)
  <2>1. CASE mempool.stack = <<>>
    BY <1>2, <1>5, <2>1
  <2>2. CASE mempool.stack # <<>>
    BY <1>2, <1>5, <2>2, TailElements
  <2> QED BY <2>1, <2>2
<1>7. s # <<>> => /\ top \in peer.txs /\ Front(s) \in Seq(peer.txs) /\ Front(s) \in Seq(Txs)
  <2>1. SUFFICES ASSUME s # <<>>
                 PROVE  top \in peer.txs /\ Front(s) \in Seq(peer.txs) /\ Front(s) \in Seq(Txs)
    OBVIOUS
  <2>2. Len(s) \in Nat /\ Len(s) # 0
    BY <1>6, <2>1
  <2>3. Len(s) \in 1 .. Len(s) /\ Len(s) - 1 \in 0 .. Len(s)
    BY <2>2
  <2>4. top \in peer.txs
    BY <1>3, <1>6, <2>3 DEF Last
  <2>5. \A i \in 1 .. Len(s) - 1 : s[i] \in peer.txs
    BY <1>6, <2>2
  <2>6. Front(s) = [i \in 1 .. Len(s) - 1 |-> s[i]]
    BY <1>6, <2>2, <2>3 DEF Front
  <2> QED BY <1>5, <2>2, <2>4, <2>5, <2>6
<1>8. CASE /\ s # <<>> /\ UNCHANGED <<run, toPeer>>
           /\ me' = [me EXCEPT !.txs = @ \cup {top}]
           /\ mempool' = [mempool EXCEPT !.stack = Front(s), !.missing = @ \ {top}]
  <2>1. Storage(me') /\ me'.blocks = me.blocks
    BY <1>5, <1>7, <1>8, AddTxStorage
  <2>2. /\ mempool' \in Mempools /\ mempool'.stack = Front(s)
        /\ mempool'.missing \subseteq mempool.missing /\ mempool'.cache = mempool.cache
        /\ mempool'.asked = mempool.asked /\ mempool'.tips = mempool.tips
    BY <1>5, <1>7, <1>8 DEF Mempools
  <2>3. TypeOK'
    BY <1>1, <1>8, <2>1, <2>2 DEF Talking, TypeOK
  <2>4. KnownToPeer'
    BY <1>1, <1>7, <1>8, <2>2 DEF Talking, KnownToPeer
  <2>5. KnownToMe'
    BY <1>1, <1>8, <2>1 DEF Talking, KnownToMe
  <2>6. Conversation'
    BY <1>1, <1>8, SearchQuiet DEF Conversation
  <2> QED BY <1>1, <1>8, <2>1, <2>3, <2>4, <2>5, <2>6
          DEF Talking, SyncedMeansStored, Open
<1>9. ASSUME NEW t \in TxDeps[top] \ me.txs, s # <<>>, PushOrAsk(t, s), UNCHANGED me
      PROVE  Talking'
  <2>1. t \in peer.txs
    BY <1>5, <1>7, <1>9
  <2> QED BY <1>1, <1>6, <1>9, <2>1, PushOrAskStep
<1>10. ASSUME NEW t \in mempool.missing, PushOrAsk(t, <<>>), UNCHANGED me
       PROVE  Talking'
  <2>1. t \in peer.txs
    BY <1>5
  <2>2. PICK e : e = <<>> /\ e \in Seq(peer.txs)
    BY SeqGrows
  <2>3. PushOrAsk(t, e)
    BY <1>10, <2>2
  <2> QED BY <1>1, <1>10, <2>1, <2>2, <2>3, PushOrAskStep
<1>11. CASE run' = [run EXCEPT !.pc = "idle"] /\ UNCHANGED <<me, mempool, toPeer>>
  <2>1. /\ toPeer' \in Seq(Requests) /\ toMe' \in Seq(Answers) /\ blkClient' \in BlkClients
        /\ blkClient'.last \in me.blocks \cup {-1}
        /\ \A i \in 1 .. Len(toMe') : GoodAnswer(toMe'[i], peer, mempool.asked)
    BY <1>1, <1>11 DEF Talking, TypeOK, KnownToMe, KnownToPeer
  <2>2. All(toMe, {"RELAYED", "BEST-BLOCK"})
    BY <1>1, SearchQuiet, AllMonotone DEF Noise
  <2> QED BY <1>1, <1>11, <2>1, <2>2, RunEnds, SearchQuiet
<1> QED BY <1>4, <1>8, <1>9, <1>10, <1>11

-----------------------------------------------------------------------------
(* The answers.                                                            *)

LEMMA AnswerTaken ==
  ASSUME Talking, toMe # <<>>, toMe' = Tail(toMe)
  PROVE  /\ toMe' \in Seq(Answers) /\ Head(toMe) \in Answers
         /\ GoodAnswer(Head(toMe), peer, mempool.asked)
         /\ \A i \in 1 .. Len(toMe') : GoodAnswer(toMe'[i], peer, mempool.asked)
         /\ Head(toMe) = toMe[1] /\ 1 \in 1 .. Len(toMe)
         /\ \A i \in 1 .. Len(toMe') : i + 1 \in 1 .. Len(toMe) /\ toMe'[i] = toMe[i + 1]
<1>1. toMe \in Seq(Answers)
  BY DEF Talking, TypeOK
<1>2. /\ Head(toMe) \in Answers /\ Tail(toMe) \in Seq(Answers) /\ Head(toMe) = toMe[1]
      /\ 1 \in 1 .. Len(toMe)
      /\ \A i \in 1 .. Len(Tail(toMe)) : i + 1 \in 1 .. Len(toMe) /\ Tail(toMe)[i] = toMe[i + 1]
  BY <1>1, TailElements
<1>3. \A i \in 1 .. Len(toMe) : GoodAnswer(toMe[i], peer, mempool.asked)
  BY DEF Talking, KnownToPeer
<1>4. \A i \in 1 .. Len(Tail(toMe)) : GoodAnswer(Tail(toMe)[i], peer, mempool.asked)
  BY <1>2, <1>3
<1> QED BY <1>2, <1>3, <1>4

(* The message at the head of the channel tells where the run is.          *)
LEMMA WhatComes ==
  ASSUME TypeOK, Conversation, toMe # <<>>, run.pc # "dfs"
  PROVE  LET k == Kind(Head(toMe))
         IN /\ k \in {"BEST-BLOCK", "PEER-BLOCK-HASHES", "TIPS-END", "DATA"} =>
                  toPeer = <<>> /\ All(Tail(toMe), Noise)
            /\ k = "BEST-BLOCK" => run.pc = "best" /\ ~server.running
            /\ k = "PEER-BLOCK-HASHES" => run.pc = "search"
            /\ k \in {"TIPS", "TIPS-END"} => run.pc = "tips"
            /\ k = "DATA" => run.pc = "data"
            /\ k \in {"BLOCKS", "BLOCKS-END"} =>
                  \/ run.pc \in {"idle", "best"} /\ run.state = "blocks" /\ blkClient.exists
                     /\ blkClient.fired
                  \/ run.pc = "stream" /\ toPeer = <<>>
            /\ k = "BLOCKS-END" /\ run.pc = "stream" => ~server.running /\ All(Tail(toMe), Noise)
<1>1. toMe \in Seq(Answers) /\ run \in Runs /\ toPeer \in Seq(Requests)
  BY DEF TypeOK
<1>2. PICK k : k = Kind(Head(toMe))
  OBVIOUS
<1>3. ASSUME NEW K, All(toMe, K) PROVE k \in K
  BY <1>1, <1>2, <1>3, AllHead
<1>4. ASSUME NEW f, NEW K, AnswerIn(toMe, f, K) PROVE (k = f /\ All(Tail(toMe), Noise)) \/ k \in K
  BY <1>1, <1>2, <1>4, AnswerHead
<1>5. CASE run.pc = "idle"
  <2>1. All(toMe, Traffic) /\ Leftovers
    BY <1>5 DEF Talking, Conversation
  <2>2. k \in Traffic /\ (k \in {"RELAYED", "BEST-BLOCK"} \/ ~All(toMe, {"RELAYED", "BEST-BLOCK"}))
    BY <1>3, <2>1
  <2> QED BY <1>2, <1>5, <2>1, <2>2 DEF Traffic, Leftovers
<1>6. CASE run.pc = "best"
  <2>1. /\ Leftovers
        /\ \/ Asking(toPeer, "GET-BEST-BLOCK") /\ All(toMe, Traffic)
           \/ toPeer = <<>> /\ AnswerIn(toMe, "BEST-BLOCK", Traffic)
    BY <1>6 DEF Conversation
  <2>2. k \in {"RELAYED", "BEST-BLOCK"} \/ ~All(toMe, {"RELAYED", "BEST-BLOCK"})
    BY <1>3
  <2>3. CASE All(toMe, Traffic)
    BY <1>2, <1>3, <1>6, <2>1, <2>2, <2>3 DEF Traffic, Leftovers
  <2>4. CASE toPeer = <<>> /\ AnswerIn(toMe, "BEST-BLOCK", Traffic)
    <3>1. ~server.running
      BY <2>1, <2>4 DEF Leftovers
    <3>2. (k = "BEST-BLOCK" /\ All(Tail(toMe), Noise)) \/ k \in Traffic
      BY <1>4, <2>4
    <3> QED BY <1>2, <1>6, <2>1, <2>2, <2>4, <3>1, <3>2 DEF Traffic, Leftovers
  <2> QED BY <2>1, <2>3, <2>4
<1>7. CASE run.pc = "search"
  BY <1>2, <1>3, <1>4, <1>7 DEF Conversation, Awaiting, Noise
<1>8. CASE run.pc = "stream"
  <2>1. \/ All(toMe, Noise)
        \/ ~server.running /\ toPeer = <<>> /\ AnswerIn(toMe, "BLOCKS-END", Noise \cup {"BLOCKS"})
        \/ toPeer = <<>> /\ All(toMe, Noise \cup {"BLOCKS"})
    BY <1>8 DEF Conversation, Awaiting
  <2>2. CASE All(toMe, Noise)
    BY <1>2, <1>3, <2>2 DEF Noise
  <2>3. CASE ~server.running /\ toPeer = <<>> /\ AnswerIn(toMe, "BLOCKS-END", Noise \cup {"BLOCKS"})
    <3>1. (k = "BLOCKS-END" /\ All(Tail(toMe), Noise)) \/ k \in Noise \cup {"BLOCKS"}
      BY <1>4, <2>3
    <3> QED BY <1>2, <1>8, <2>3, <3>1 DEF Noise
  <2>4. CASE toPeer = <<>> /\ All(toMe, Noise \cup {"BLOCKS"})
    <3>1. k \in Noise \cup {"BLOCKS"}
      BY <1>3, <2>4
    <3> QED BY <1>2, <1>8, <2>4, <3>1 DEF Noise
  <2> QED BY <2>1, <2>2, <2>3, <2>4
<1>9. CASE run.pc = "tips"
  <2>1. \/ All(toMe, Noise)
        \/ toPeer = <<>> /\ AnswerIn(toMe, "TIPS-END", Noise \cup {"TIPS"})
    BY <1>9 DEF Conversation, Awaiting
  <2>2. k \in Noise \cup {"TIPS"} \/ (k = "TIPS-END" /\ toPeer = <<>> /\ All(Tail(toMe), Noise))
    BY <1>3, <1>4, <2>1
  <2> QED BY <1>2, <1>9, <2>2 DEF Noise
<1>10. CASE run.pc = "data"
  BY <1>2, <1>3, <1>4, <1>10 DEF Conversation, Awaiting, Noise
<1> QED BY <1>1, <1>5, <1>6, <1>7, <1>8, <1>9, <1>10 DEF Runs

(* A message that was not the awaited one, and what is kept of it.         *)
LEMMA ConversationGoesOn ==
  ASSUME TypeOK, Conversation, toMe # <<>>, toMe' = Tail(toMe),
         Kind(Head(toMe)) \in {"RELAYED", "BLOCKS", "TIPS", "BLOCKS-END"},
         Kind(Head(toMe)) = "BLOCKS-END" => run.pc # "stream",
         UNCHANGED <<server, toPeer, run, blkClient.exists, blkClient.fired, mempool.receiving>>
  PROVE  Conversation'
<1>1. toMe \in Seq(Answers) /\ run \in Runs
  BY DEF TypeOK
<1>2. ASSUME NEW K, All(toMe, K) PROVE All(toMe', K)
  BY <1>1, <1>2, AllHead
<1>3. ASSUME NEW f, NEW K, AnswerIn(toMe, f, K), Kind(Head(toMe)) # f PROVE AnswerIn(toMe', f, K)
  BY <1>1, <1>3, AnswerHead
<1>4. ASSUME NEW q, NEW f, NEW K, Awaiting(q, f, K), Kind(Head(toMe)) # f PROVE Awaiting(q, f, K)'
  BY <1>2, <1>3, <1>4 DEF Awaiting
<1>5. Leftovers => Leftovers'
  <2>1. All(toMe, {"RELAYED", "BEST-BLOCK"}) => All(toMe', {"RELAYED", "BEST-BLOCK"})
    BY <1>2
  <2> QED BY <2>1 DEF Leftovers
<1>6. CASE run.pc = "idle"
  BY <1>2, <1>5, <1>6 DEF Conversation
<1>7. CASE run.pc = "best"
  BY <1>2, <1>3, <1>5, <1>7 DEF Conversation
<1>8. CASE run.pc = "search"
  BY <1>4, <1>8 DEF Conversation
<1>9. CASE run.pc = "stream"
  BY <1>2, <1>4, <1>9 DEF Conversation
<1>10. CASE run.pc = "tips"
  BY <1>4, <1>10 DEF Conversation
<1>11. CASE run.pc = "data"
  BY <1>4, <1>11 DEF Conversation
<1>12. CASE run.pc = "dfs"
  BY <1>2, <1>12 DEF Conversation
<1> QED BY <1>1, <1>6, <1>7, <1>8, <1>9, <1>10, <1>11, <1>12 DEF Runs

LEMMA NoBlocksBefore ==
  ASSUME Talking, toMe # <<>>, toMe' = Tail(toMe), Head(toMe).type # "BLOCKS",
         \A i \in 1 .. Len(toMe') : toMe'[i].type # "BLOCKS"
  PROVE  \A i \in 1 .. Len(toMe) : toMe[i].type # "BLOCKS"
<1>1. toMe \in Seq(Answers)
  BY DEF Talking, TypeOK
<1>2. ASSUME NEW i \in 1 .. Len(toMe), i # 1 PROVE i - 1 \in 1 .. Len(toMe') /\ toMe'[i - 1] = toMe[i]
  BY <1>1, <1>2
<1> QED BY <1>2, AnswerTaken

(* A relayed vertex, or what comes of a stream that was given up.          *)
LEMMA DroppedStep ==
  ASSUME AgentAssumption, Talking, toMe # <<>>, toMe' = Tail(toMe),
         Kind(Head(toMe)) \in {"RELAYED", "BLOCKS", "BLOCKS-END"},
         Kind(Head(toMe)) # "RELAYED" => run.pc # "stream",
         Storage(me'), me.blocks \subseteq me'.blocks,
         UNCHANGED <<peer, server, toPeer, run, blkClient, mempool>>
  PROVE  Agreement' /\ (closed' = closed => Talking')
<1>1. TypeOK'
  BY AnswerTaken DEF Talking, TypeOK
<1>2. Conversation'
  BY ConversationGoesOn DEF Talking
<1>3. KnownToPeer'
  BY AnswerTaken DEF Talking, KnownToPeer
<1>4. KnownToMe'
  <2>1. CASE run.pc # "stream"
    BY <2>1 DEF Talking, KnownToMe
  <2>2. CASE run.pc = "stream"
    <3>1. Head(toMe).type # "BLOCKS"
      BY <2>2, AnswerTaken, AnswerForm
    <3>2. FirstBlock(toMe, run.lo) => FirstBlock(toMe', run.lo)
      BY <3>1, FirstBlockTail DEF Talking, TypeOK
    <3>3. (\A i \in 1 .. Len(toMe') : toMe'[i].type # "BLOCKS") =>
             \A i \in 1 .. Len(toMe) : toMe[i].type # "BLOCKS"
      BY <3>1, NoBlocksBefore
    <3> QED BY <3>2, <3>3 DEF Talking, KnownToMe
  <2> QED BY <2>1, <2>2
<1>5. SyncedMeansStored'
  BY DEF Talking, SyncedMeansStored
<1> QED BY <1>1, <1>2, <1>3, <1>4, <1>5 DEF Talking, Agreement, Open

(* What every message that I receive leaves alone, and its own fields.     *)
LEMMA ReceiveForm ==
  ASSUME Talking, Receive
  PROVE  /\ toMe # <<>> /\ toMe' = Tail(toMe) /\ run.pc # "dfs" /\ UNCHANGED <<peer, server>>
         /\ \A i \in 1 .. Len(toMe') : GoodAnswer(toMe'[i], peer, mempool.asked)
         /\ toMe' \in Seq(Answers) /\ Head(toMe) \in Answers
         /\ GoodAnswer(Head(toMe), peer, mempool.asked)
<1>1. toMe # <<>> /\ toMe' = Tail(toMe) /\ run.pc # "dfs" /\ UNCHANGED <<peer, server>>
  BY DEF Receive, ReactorFree, peerVars
<1> QED BY <1>1, AnswerTaken

(* An open connection, and a step that leaves the score alone.             *)
LEMMA ScoreKept ==
  ASSUME Conduct, UNCHANGED conduct, Open' PROVE Conduct'
<1>1. OnlyLateRelaysClose'
  BY DEF OnlyLateRelaysClose, Open
<1> QED BY <1>1 DEF Conduct, conduct

(* What handle_data and increase_misbehavior_score do to the score.        *)
LEMMA Unsolicited ==
  ASSUME AgentAssumption, Conduct, Open, HandleUnsolicited
  PROVE  Conduct'
<1>1. MaxScore \in Nat /\ score \in Nat /\ unsolicited \in Nat /\ score <= unsolicited
  BY DEF AgentAssumption, Conduct
<1>2. unsolicited' = unsolicited + 1
  BY DEF HandleUnsolicited
<1>3. PICK hits \in 0 .. score :
         \/ hits < MaxScore /\ score' = hits + 1 /\ closed' = closed
         \/ /\ hits >= MaxScore /\ score' = MaxScore
            /\ closed' = "Misbehavior score is too high"
  BY DEF HandleUnsolicited, IncreaseMisbehaviorScore
<1>4. CASE hits < MaxScore /\ score' = hits + 1 /\ closed' = closed
  <2>1. score' \in Nat /\ unsolicited' \in Nat /\ score' <= unsolicited'
    BY <1>1, <1>2, <1>4
  <2>2. OnlyLateRelaysClose'
    BY <1>4, Zenon DEF OnlyLateRelaysClose, Open
  <2> QED BY <2>1, <2>2 DEF Conduct
<1>5. CASE /\ hits >= MaxScore /\ score' = MaxScore
           /\ closed' = "Misbehavior score is too high"
  <2>0. hits >= MaxScore /\ score' = MaxScore
    BY <1>5, Zenon
  <2>1. /\ score' \in Nat /\ unsolicited' \in Nat /\ score' <= unsolicited'
        /\ unsolicited' > MaxScore
    BY <1>1, <1>2, <2>0
  <2>2. OnlyLateRelaysClose'
    BY <1>5, <2>1, Zenon DEF OnlyLateRelaysClose
  <2> QED BY <2>1, <2>2 DEF Conduct
<1> QED BY <1>3, <1>4, <1>5

LEMMA HandleRelayedStep ==
  ASSUME AgentAssumption, Talking, Conduct, Receive, Kind(Head(toMe)) = "RELAYED"
  PROVE  Agreement' /\ Conduct'
<1>1. PICK v : v = Head(toMe).tx
  OBVIOUS
<1>2. /\ Head(toMe).type = "DATA" /\ Head(toMe).origin # "mempool" /\ v \in Blocks \cup Txs
  BY <1>1, ReceiveForm, AnswerForm
<1>3. HandleData(Head(toMe))
  BY <1>2 DEF Receive, HandleUnexpected
<1>4. Open /\ Storage(me)
  BY DEF Talking, TypeOK
<1>5. CASE HandleUnsolicited
  <2>1. UNCHANGED <<me, run, blkClient, mempool, toPeer>>
    BY <1>5 DEF HandleUnsolicited, agentVars
  <2>2. Agreement'
    BY <1>4, <2>1, ReceiveForm, DroppedStep
  <2> QED BY <1>4, <1>5, <2>2, Unsolicited
<1>6. CASE HandleRelayed(v)
  <2>1. /\ UNCHANGED <<run, blkClient, mempool, toPeer, score, unsolicited, closed>>
        /\ \/ me' = me
           \/ v \in Txs /\ me' = [me EXCEPT !.txs = @ \cup {v}]
           \/ v \in Blocks /\ CanAddBlock(me, v) /\ me' = AddBlock(me, v)
    BY <1>2, <1>6 DEF HandleRelayed, agentVars, conduct
  <2>2. Storage(me') /\ me.blocks \subseteq me'.blocks
    <3>1. CASE me' = me
      BY <1>4, <3>1
    <3>2. CASE v \in Txs /\ me' = [me EXCEPT !.txs = @ \cup {v}]
      BY <1>4, <3>2, AddTxStorage
    <3>3. CASE v \in Blocks /\ CanAddBlock(me, v) /\ me' = AddBlock(me, v)
      BY <1>4, <3>3, AddBlockStorage DEF CanAddBlock
    <3> QED BY <2>1, <3>1, <3>2, <3>3
  <2>3. Agreement'
    BY <2>1, <2>2, ReceiveForm, DroppedStep
  <2>4. Open' /\ UNCHANGED conduct
    BY <1>4, <2>1 DEF Open, conduct
  <2> QED BY <2>3, <2>4, ScoreKept
<1> QED BY <1>1, <1>2, <1>3, <1>5, <1>6 DEF HandleData

(* The transaction that the search waits for.                              *)
LEMMA HandleDataStep ==
  ASSUME AgentAssumption, Talking, Receive, Kind(Head(toMe)) = "DATA"
  PROVE  Talking' /\ UNCHANGED conduct
<1>1. PICK v : v = Head(toMe).tx
  OBVIOUS
<1>2. /\ Head(toMe).type = "DATA" /\ Head(toMe).origin = "mempool" /\ v \in mempool.asked
  BY <1>1, ReceiveForm, AnswerForm DEF GoodAnswer
<1>3. HandleData(Head(toMe))
  BY <1>2 DEF Receive, HandleUnexpected
<1>4. toPeer = <<>> /\ All(toMe', Noise) /\ run.pc = "data"
  BY ReceiveForm, WhatComes DEF Talking
<1>5. run.relay /\ ~server.running
  BY <1>4 DEF Talking, Conversation
<1>6. /\ mempool' = [mempool EXCEPT !.asked = @ \ {v}, !.cache = @ \cup {v}, !.stack = Append(@, v)]
      /\ run' = [run EXCEPT !.pc = "dfs"] /\ UNCHANGED <<me, blkClient, toPeer, closed, conduct>>
  BY <1>1, <1>2, <1>3, <1>5 DEF HandleData, HandleRequested
<1>7. /\ mempool \in Mempools /\ run \in Runs /\ mempool.stack \in Seq(peer.txs) /\ v \in peer.txs
      /\ v \in Txs /\ mempool.asked \subseteq peer.txs
  BY <1>2 DEF Talking, TypeOK, KnownToPeer, Storage
<1>8. Append(mempool.stack, v) \in Seq(peer.txs) /\ Append(mempool.stack, v) \in Seq(Txs)
  BY <1>7 DEF Mempools
<1>9. /\ mempool' \in Mempools /\ mempool'.stack = Append(mempool.stack, v)
      /\ mempool'.missing = mempool.missing /\ mempool'.cache = mempool.cache \cup {v}
      /\ mempool'.asked \subseteq mempool.asked /\ mempool'.tips = mempool.tips
  BY <1>6, <1>7, <1>8 DEF Mempools
<1>10. /\ run' \in Runs /\ run'.pc = "dfs" /\ run'.relay = run.relay /\ run'.myBest = run.myBest
       /\ run'.peerBest = run.peerBest /\ run'.lo = run.lo /\ run'.synced = run.synced
       /\ run'.syncedBlock = run.syncedBlock
  BY <1>6, <1>7 DEF Runs
<1>11. TypeOK'
  BY <1>6, <1>9, <1>10, ReceiveForm DEF Talking, TypeOK
<1>12. KnownToPeer'
  <2>1. \A i \in 1 .. Len(toMe') : GoodAnswer(toMe'[i], peer, mempool'.asked)
    BY <1>4 DEF All, Noise, GoodAnswer
  <2>2. toPeer' = <<>> /\ peer' = peer
    BY <1>4, <1>6, ReceiveForm
  <2>3. \A i \in 1 .. Len(toPeer') : FALSE
    BY <2>2
  <2> QED BY <1>7, <1>8, <1>9, <1>10, <2>1, <2>2, <2>3 DEF Talking, KnownToPeer
<1>13. KnownToMe'
  BY <1>6, <1>10 DEF Talking, KnownToMe
<1>14. Conversation'
  <2>1. NothingAsked(toPeer')
    BY <1>4, <1>6 DEF NothingAsked
  <2> QED BY <1>4, <1>5, <1>10, <2>1, ReceiveForm DEF Conversation
<1> QED BY <1>6, <1>10, <1>11, <1>12, <1>13, <1>14
        DEF Talking, SyncedMeansStored, Open

(* A tip: there are never more of them than transactions.                  *)
LEMMA HandleTipsStep ==
  ASSUME AgentAssumption, Talking, Receive, Kind(Head(toMe)) = "TIPS" PROVE Talking'
<1>1. PICK v : v = Head(toMe).tx
  OBVIOUS
<1>2. Head(toMe).type = "TIPS" /\ v \in peer.txs /\ v \in Txs
  BY <1>1, ReceiveForm, AnswerForm DEF GoodAnswer
<1>3. HandleTips(Head(toMe))
  BY <1>2 DEF Receive, HandleUnexpected
<1>4. run.pc = "tips"
  BY ReceiveForm, WhatComes DEF Talking
<1>5. mempool.receiving /\ mempool \in Mempools /\ mempool.tips \subseteq peer.txs
  BY <1>4 DEF Talking, Conversation, TypeOK, KnownToPeer
<1>6. /\ mempool' = [mempool EXCEPT !.tips = @ \cup ({v} \ me.txs)]
      /\ UNCHANGED <<me, run, blkClient, toPeer>>
  BY <1>1, <1>3 DEF HandleTips
<1>7. /\ mempool' \in Mempools /\ mempool'.tips \subseteq mempool.tips \cup {v}
      /\ mempool'.stack = mempool.stack /\ mempool'.missing = mempool.missing
      /\ mempool'.cache = mempool.cache /\ mempool'.asked = mempool.asked
      /\ mempool'.receiving = mempool.receiving /\ mempool'.tips \subseteq Txs
  BY <1>2, <1>5, <1>6 DEF Mempools
<1>8. closed' = closed
  <2>1. IsFiniteSet(Txs) /\ Cardinality(Txs) <= MaxTips /\ MaxTips \in Nat
    BY DEF AgentAssumption
  <2>2. /\ IsFiniteSet(mempool'.tips) /\ Cardinality(mempool'.tips) <= Cardinality(Txs)
    BY <1>7, <2>1, FS_Subset
  <2>3. Cardinality(mempool'.tips) \in Nat /\ Cardinality(Txs) \in Nat
    BY <2>1, <2>2, FS_CardinalityType
  <2>4. ~(Cardinality(mempool'.tips) > MaxTips)
    BY <2>1, <2>2, <2>3
  <2> QED BY <1>3, <1>5, <2>4 DEF HandleTips
<1>9. TypeOK'
  BY <1>6, <1>7, ReceiveForm DEF Talking, TypeOK
<1>10. Conversation'
  BY <1>6, <1>7, ReceiveForm, ConversationGoesOn DEF Talking
<1>11. KnownToPeer'
  BY <1>2, <1>6, <1>7, ReceiveForm DEF Talking, KnownToPeer
<1>12. KnownToMe'
  BY <1>4, <1>6 DEF Talking, KnownToMe
<1> QED BY <1>6, <1>8, <1>9, <1>10, <1>11, <1>12
        DEF Talking, SyncedMeansStored, Open

LEMMA HandleTipsEndStep ==
  ASSUME AgentAssumption, Talking, Receive, Kind(Head(toMe)) = "TIPS-END" PROVE Talking'
<1>1. HandleTipsEnd(Head(toMe))
  <2>1. Head(toMe).type = "TIPS-END"
    BY ReceiveForm, AnswerForm
  <2> QED BY <2>1 DEF Receive, HandleUnexpected
<1>2. toPeer = <<>> /\ All(toMe', Noise) /\ run.pc = "tips"
  BY ReceiveForm, WhatComes DEF Talking
<1>3. /\ mempool.receiving /\ run.relay /\ ~server.running /\ mempool \in Mempools
      /\ mempool.tips \subseteq peer.txs /\ run \in Runs
  BY <1>2 DEF Talking, Conversation, TypeOK, KnownToPeer
<1>4. /\ mempool' = [mempool EXCEPT !.receiving = FALSE, !.missing = mempool.tips \ me.txs, !.tips = {}]
      /\ run' = [run EXCEPT !.pc = "dfs"] /\ UNCHANGED <<me, blkClient, toPeer, closed>>
  BY <1>1, <1>3 DEF HandleTipsEnd
<1>5. /\ mempool' \in Mempools /\ mempool'.stack = mempool.stack
      /\ mempool'.missing \subseteq mempool.tips /\ mempool'.cache = mempool.cache
      /\ mempool'.asked = mempool.asked /\ mempool'.tips = {}
  BY <1>3, <1>4 DEF Mempools
<1>6. /\ run' \in Runs /\ run'.pc = "dfs" /\ run'.relay = run.relay /\ run'.myBest = run.myBest
      /\ run'.peerBest = run.peerBest /\ run'.lo = run.lo /\ run'.synced = run.synced
      /\ run'.syncedBlock = run.syncedBlock
  BY <1>3, <1>4 DEF Runs
<1>7. TypeOK'
  BY <1>4, <1>5, <1>6, ReceiveForm DEF Talking, TypeOK
<1>8. KnownToPeer'
  BY <1>3, <1>4, <1>5, <1>6, ReceiveForm DEF Talking, KnownToPeer
<1>9. KnownToMe'
  BY <1>4, <1>6 DEF Talking, KnownToMe
<1>10. Conversation'
  <2>1. NothingAsked(toPeer')
    BY <1>2, <1>4 DEF NothingAsked
  <2> QED BY <1>2, <1>3, <1>6, <2>1, ReceiveForm DEF Conversation
<1> QED BY <1>4, <1>6, <1>7, <1>8, <1>9, <1>10
        DEF Talking, SyncedMeansStored, Open

LEMMA HandleBlocksEndStep ==
  ASSUME AgentAssumption, Talking, Receive, Kind(Head(toMe)) = "BLOCKS-END" PROVE Talking'
<1>1. HandleBlocksEnd(Head(toMe))
  <2>1. Head(toMe).type = "BLOCKS-END"
    BY ReceiveForm, AnswerForm
  <2> QED BY <2>1 DEF Receive, HandleUnexpected
<1>2. CASE run.pc \in {"idle", "best"} /\ run.state = "blocks" /\ blkClient.exists /\ blkClient.fired
  <2>1. UNCHANGED <<me, run, blkClient, mempool, toPeer, closed>>
    BY <1>1, <1>2 DEF HandleBlocksEnd
  <2>2. Storage(me') /\ me.blocks \subseteq me'.blocks
    BY <2>1 DEF Talking, TypeOK
  <2> QED BY <1>2, <2>1, <2>2, ReceiveForm, DroppedStep
<1>3. CASE run.pc = "stream"
  <2>1. toPeer = <<>> /\ ~server.running /\ All(toMe', Noise)
    BY <1>3, ReceiveForm, WhatComes DEF Talking
  <2>2. run.state = "blocks" /\ blkClient.exists /\ ~blkClient.fired
    BY <1>3 DEF Talking, Conversation
  <2>3. /\ run' = [run EXCEPT !.pc = "idle"] /\ blkClient' = NoBlkClient
        /\ UNCHANGED <<me, mempool, toPeer, closed>>
    BY <1>1, <2>2 DEF HandleBlocksEnd
  <2>4. blkClient' \in BlkClients /\ blkClient'.last \in me.blocks \cup {-1}
    BY <2>3 DEF NoBlkClient, BlkClients
  <2>5. NothingAsked(toPeer') /\ toPeer' \in Seq(Requests)
    BY <2>1, <2>3 DEF NothingAsked, Talking, TypeOK
  <2>6. All(toMe', Traffic) /\ All(toMe', {"RELAYED", "BEST-BLOCK"})
    BY <2>1, AllMonotone DEF Noise, Traffic
  <2> QED BY <2>1, <2>3, <2>4, <2>5, <2>6, ReceiveForm, RunEnds
<1> QED BY <1>2, <1>3, ReceiveForm, WhatComes DEF Talking

(* A run that gives the stream up asks for its end.                        *)
LEMMA BlkFailsStep ==
  ASSUME AgentAssumption, Talking, Receive, Kind(Head(toMe)) = "BLOCKS", run.pc = "stream",
         NEW c \in BlkClients, c.exists, c.last \in me.blocks \cup {-1}, BlkFails(c)
  PROVE  Talking'
<1>1. PICK stop : stop = [type |-> "STOP-BLOCK-STREAMING"]
  OBVIOUS
<1>2. /\ blkClient' = [c EXCEPT !.fired = TRUE] /\ run' = [run EXCEPT !.pc = "idle"]
      /\ toPeer' = Append(toPeer, stop) /\ UNCHANGED <<me, mempool, closed>>
  BY <1>1 DEF BlkFails, Ask
<1>3. toPeer = <<>> /\ run.state = "blocks"
  BY ReceiveForm, WhatComes DEF Talking, Conversation
<1>4. blkClient' \in BlkClients /\ blkClient'.exists /\ blkClient'.fired /\ blkClient'.last = c.last
  BY <1>2 DEF BlkClients
<1>5. stop \in Requests /\ stop.type = "STOP-BLOCK-STREAMING"
  BY <1>1 DEF Requests
<1>6. toPeer' \in Seq(Requests) /\ Len(toPeer') = 1 /\ toPeer'[1] = stop
  BY <1>2, <1>3, <1>5
<1>7. NothingAsked(toPeer')
  BY <1>5, <1>6 DEF NothingAsked, Quiet
<1>8. \E i \in 1 .. Len(toPeer') : toPeer'[i].type = "STOP-BLOCK-STREAMING"
  BY <1>5, <1>6
<1>9. All(toMe', Traffic)
  <2>1. toMe \in Seq(Answers) /\ toMe # <<>> /\ toMe' = Tail(toMe)
    BY ReceiveForm DEF Talking, TypeOK
  <2>2. \/ All(toMe, Noise)
        \/ AnswerIn(toMe, "BLOCKS-END", Noise \cup {"BLOCKS"})
        \/ All(toMe, Noise \cup {"BLOCKS"})
    BY DEF Talking, Conversation, Awaiting
  <2>3. All(toMe, Traffic)
    <3>1. CASE AnswerIn(toMe, "BLOCKS-END", Noise \cup {"BLOCKS"})
      BY <3>1 DEF AnswerIn, All, Noise, Traffic
    <3>2. CASE All(toMe, Noise) \/ All(toMe, Noise \cup {"BLOCKS"})
      BY <3>2 DEF All, Noise, Traffic
    <3> QED BY <2>2, <3>1, <3>2
  <2> QED BY <2>1, <2>3, AllHead
<1> QED BY <1>2, <1>3, <1>4, <1>6, <1>7, <1>8, <1>9, ReceiveForm, RunEnds

LEMMA BlockCounted ==
  ASSUME NEW c \in BlkClients, c.exists, ~c.fired, NEW n \in Int, NEW b \in Blocks, NEW d,
         d = [c EXCEPT !.repeated = n, !.last = b]
  PROVE  d \in BlkClients /\ d.last = b /\ d.exists /\ ~d.fired
<1>1. c.exists = TRUE /\ c.fired = FALSE /\ c.got \in Int /\ c.max \in Int
  BY DEF BlkClients
<1>2. PICK g \in Int, m \in Int :
         d = [exists |-> TRUE, fired |-> FALSE, got |-> g, max |-> m, repeated |-> n, last |-> b]
  BY <1>1 DEF BlkClients
<1> QED BY <1>2 DEF BlkClients

(* A block of the stream: the first one is the common block, and each of   *)
(* the others has the one before it as its parent.                         *)
LEMMA HandleBlocksStep ==
  ASSUME AgentAssumption, Talking, Receive, Kind(Head(toMe)) = "BLOCKS" PROVE Talking'
<1>1. PICK b : b = Head(toMe).block
  OBVIOUS
<1>2. Head(toMe).type = "BLOCKS" /\ b \in Blocks
  BY <1>1, ReceiveForm, AnswerForm
<1>3. HandleBlocks(Head(toMe))
  BY <1>2 DEF Receive, HandleUnexpected
<1>4. CASE run.pc \in {"idle", "best"} /\ run.state = "blocks" /\ blkClient.exists /\ blkClient.fired
  <2>1. UNCHANGED <<me, run, blkClient, mempool, toPeer, closed>>
    BY <1>3, <1>4 DEF HandleBlocks, agentVars
  <2>2. Storage(me') /\ me.blocks \subseteq me'.blocks
    BY <2>1 DEF Talking, TypeOK
  <2> QED BY <1>4, <2>1, <2>2, ReceiveForm, DroppedStep
<1>5. CASE run.pc = "stream"
  <2>1. /\ run.state = "blocks" /\ blkClient.exists /\ ~blkClient.fired /\ blkClient \in BlkClients
        /\ blkClient.last \in me.blocks \cup {-1} /\ Storage(me) /\ run.lo \in me.blocks
        /\ toPeer = <<>>
    BY <1>5, ReceiveForm, WhatComes DEF Talking, Conversation, TypeOK, KnownToMe
  <2>2. PICK c : c = [blkClient EXCEPT !.got = @ + 1]
    OBVIOUS
  <2>3. /\ c \in BlkClients /\ c.exists /\ ~c.fired /\ c.last = blkClient.last
    BY <2>1, <2>2 DEF BlkClients
  <2>4. b \in me.blocks =>
          [c EXCEPT !.last = b] \in BlkClients /\ [c EXCEPT !.last = b].exists
          /\ [c EXCEPT !.last = b].last = b
    BY <1>2, <2>3 DEF BlkClients
  <2>5. \/ BlkFails(c)
        \/ b \in me.blocks /\ BlkFails([c EXCEPT !.last = b])
        \/ /\ b \in me.blocks /\ blkClient' = [c EXCEPT !.repeated = @ + 1, !.last = b]
           /\ UNCHANGED <<me, run, mempool, toPeer, closed>>
        \/ /\ b \notin me.blocks /\ (c.last # -1 => Parent[b] = c.last)
           /\ me' = AddBlock(me, b) /\ blkClient' = [c EXCEPT !.repeated = 0, !.last = b]
           /\ UNCHANGED <<run, mempool, toPeer, closed>>
    BY <1>1, <1>3, <2>1, <2>2 DEF HandleBlocks
  <2>6. CASE BlkFails(c)
    BY <1>5, <2>1, <2>3, <2>6, BlkFailsStep
  <2>7. CASE b \in me.blocks /\ BlkFails([c EXCEPT !.last = b])
    <3>1. PICK d : d = [c EXCEPT !.last = b]
      OBVIOUS
    <3>2. d \in BlkClients /\ d.exists /\ d.last \in me.blocks \cup {-1} /\ BlkFails(d)
      BY <2>4, <2>7, <3>1
    <3> QED BY <1>5, <3>2, BlkFailsStep
  <2>8. ASSUME UNCHANGED <<run, mempool, toPeer, closed>>, Storage(me'), b \in me'.blocks,
               me.blocks \subseteq me'.blocks, blkClient' \in BlkClients, blkClient'.last = b,
               blkClient'.exists, ~blkClient'.fired
        PROVE  Talking'
    <3>1. TypeOK'
      BY <2>8, ReceiveForm DEF Talking, TypeOK
    <3>2. Conversation'
      BY <2>1, <2>8, ReceiveForm, ConversationGoesOn DEF Talking, TypeOK, BlkClients
    <3>3. KnownToPeer'
      BY <2>8, ReceiveForm DEF Talking, KnownToPeer
    <3>4. blkClient'.last # -1
      BY <1>2, <2>8 DEF AgentAssumption
    <3>5. KnownToMe'
      BY <2>8, <3>4 DEF Talking, KnownToMe
    <3> QED BY <2>8, <3>1, <3>2, <3>3, <3>5 DEF Talking, SyncedMeansStored, Open
  <2>9. CASE /\ b \in me.blocks /\ blkClient' = [c EXCEPT !.repeated = @ + 1, !.last = b]
             /\ UNCHANGED <<me, run, mempool, toPeer, closed>>
    <3>1. blkClient' \in BlkClients /\ blkClient'.last = b /\ blkClient'.exists /\ ~blkClient'.fired
      <4>1. PICK n \in Int : n = c.repeated + 1
        BY <2>3 DEF BlkClients
      <4>2. PICK d : d = blkClient' /\ d = [c EXCEPT !.repeated = n, !.last = b]
        BY <2>9, <4>1
      <4>3. d \in BlkClients /\ d.last = b /\ d.exists /\ ~d.fired
        BY <1>2, <2>3, <4>2, BlockCounted, Zenon
      <4> QED BY <2>3, <4>2, <4>3
    <3> QED BY <2>1, <2>8, <2>9, <3>1
  <2>10. CASE /\ b \notin me.blocks /\ (c.last # -1 => Parent[b] = c.last)
              /\ me' = AddBlock(me, b) /\ blkClient' = [c EXCEPT !.repeated = 0, !.last = b]
              /\ UNCHANGED <<run, mempool, toPeer, closed>>
    <3>1. c.last # -1
      <4>1. SUFFICES ASSUME c.last = -1 PROVE FALSE
        OBVIOUS
      <4>2. FirstBlock(toMe, run.lo)
        BY <1>5, <2>3, <4>1 DEF Talking, KnownToMe
      <4>3. b = run.lo
        BY <1>1, <1>2, <4>2, ReceiveForm, FirstBlockTail DEF Talking, TypeOK
      <4> QED BY <2>1, <2>10, <4>3
    <3>2. Parent[b] \in me.blocks
      BY <2>1, <2>3, <2>10, <3>1
    <3>3. Storage(me') /\ me'.blocks = me.blocks \cup {b}
      BY <1>2, <2>1, <2>10, <3>2, AddBlockStorage
    <3>4. blkClient' \in BlkClients /\ blkClient'.last = b /\ blkClient'.exists /\ ~blkClient'.fired
      <4>1. PICK d : d = blkClient' /\ d = [c EXCEPT !.repeated = 0, !.last = b]
        BY <2>10
      <4>2. 0 \in Int
        OBVIOUS
      <4>3. d \in BlkClients /\ d.last = b /\ d.exists /\ ~d.fired
        BY <1>2, <2>3, <4>1, <4>2, BlockCounted, Zenon
      <4> QED BY <2>3, <4>1, <4>3
    <3> QED BY <2>8, <2>10, <3>3, <3>4
  <2> QED BY <2>5, <2>6, <2>7, <2>9, <2>10
<1> QED BY <1>4, <1>5, ReceiveForm, WhatComes DEF Talking

LEMMA NoiseHasNoBlocks ==
  ASSUME NEW q \in Seq(Answers), All(q, Noise)
  PROVE  \A i \in 1 .. Len(q) : q[i].type # "BLOCKS"
  BY AnswerForm DEF All, Noise

(* The next request of the block phase, after its answer came: nothing     *)
(* else is on its way, and it starts at a block that both nodes have.      *)
LEMMA SearchOrStreamStep ==
  ASSUME AgentAssumption, Talking, toPeer = <<>>, ~server.running,
         toMe' \in Seq(Answers), All(toMe', Noise),
         NEW r \in Runs, r.state = "blocks", r.myBest \in me.blocks, r.lo \in me.blocks,
         r.lo \in peer.blocks, r.peerBest \in peer.blocks, r.synced => r.syncedBlock \in me.blocks,
         NEW before \in Seq(Requests), NothingAsked(before), SearchOrStream(r, before),
         UNCHANGED <<me, peer, server, mempool, closed>>
  PROVE  Talking'
<1>1. \A i \in 1 .. Len(toMe') : GoodAnswer(toMe'[i], peer, mempool.asked)
  BY DEF All, Noise, GoodAnswer
<1>2. toPeer \o before = before
  OBVIOUS
<1>3. ASSUME NEW m \in Requests, toPeer' = toPeer \o before \o <<m>>, ~Quiet(m)
      PROVE  /\ toPeer' \in Seq(Requests) /\ Asking(toPeer', m.type)
             /\ \A i \in 1 .. Len(toPeer') : toPeer'[i] = m \/ Quiet(toPeer'[i])
  <2>1. toPeer' = before \o <<m>>
    BY <1>2, <1>3
  <2>2. /\ toPeer' \in Seq(Requests) /\ Len(toPeer') = Len(before) + 1
        /\ toPeer'[Len(before) + 1] = m /\ \A i \in 1 .. Len(before) : toPeer'[i] = before[i]
        /\ Len(before) \in Nat
    BY <2>1
  <2>3. Asking(toPeer', m.type)
    BY <2>1, AskingSent
  <2> QED BY <2>2, <2>3 DEF NothingAsked
<1>4. Height[r.lo] \in Nat /\ Height[r.hi] \in Nat /\ Height[r.peerBest] \in Nat
  BY DEF AgentAssumption, Runs
<1>5. CASE Height[r.hi] - Height[r.lo] > 1
  <2>0. PICK hs \in HeightSets :
           toPeer' = toPeer \o before \o <<[type |-> "GET-PEER-BLOCK-HASHES", heights |-> hs]>>
    <3> DEFINE lo == Height[r.lo]
               hi == Height[r.hi]
               step == (hi - lo + Fanout - 1) \div Fanout
               hs == {h \in lo .. hi - 1 : (h - lo) % step = 0} \cup {hi}
    <3>1. toPeer' = toPeer \o before \o <<[type |-> "GET-PEER-BLOCK-HASHES", heights |-> hs]>>
      BY <1>5 DEF SearchOrStream
    <3> HIDE DEF step
    <3>2. hs \subseteq Nat /\ \A h \in hs : h <= hi
      BY <1>4
    <3> HIDE DEF hs
    <3>3. hs \in HeightSets
      BY <1>4, <3>2 DEF HeightSets
    <3> QED BY <3>1, <3>3
  <2>1. PICK m : /\ m = [type |-> "GET-PEER-BLOCK-HASHES", heights |-> hs]
                 /\ toPeer' = toPeer \o before \o <<m>>
    BY <2>0
  <2>2. run' = [r EXCEPT !.pc = "search"] /\ UNCHANGED blkClient
    BY <1>5 DEF SearchOrStream
  <2>3. /\ run' \in Runs /\ run'.pc = "search" /\ run'.state = r.state /\ run'.myBest = r.myBest
        /\ run'.peerBest = r.peerBest /\ run'.lo = r.lo /\ run'.synced = r.synced
        /\ run'.syncedBlock = r.syncedBlock
    BY <2>2 DEF Runs
  <2>4. m \in Requests /\ m.type = "GET-PEER-BLOCK-HASHES"
    BY <2>1 DEF Requests
  <2>5. ~Quiet(m)
    BY <2>4 DEF Quiet
  <2>6. /\ toPeer' \in Seq(Requests) /\ Asking(toPeer', "GET-PEER-BLOCK-HASHES")
        /\ \A i \in 1 .. Len(toPeer') : toPeer'[i] = m \/ Quiet(toPeer'[i])
    BY <1>3, <2>1, <2>4, <2>5
  <2>7. TypeOK'
    BY <2>2, <2>3, <2>6 DEF Talking, TypeOK
  <2>8. Conversation'
    BY <2>3, <2>6 DEF Conversation, Awaiting
  <2>9. KnownToPeer'
    <3>1. \A i \in 1 .. Len(toPeer') : GoodRequest(toPeer'[i], peer, mempool.asked)
      BY <2>4, <2>6 DEF GoodRequest, Quiet
    <3> QED BY <1>1, <2>3, <3>1 DEF Talking, KnownToPeer
  <2>10. KnownToMe'
    BY <2>2, <2>3 DEF Talking, KnownToMe
  <2> QED BY <2>3, <2>7, <2>8, <2>9, <2>10 DEF Talking, SyncedMeansStored, Open
<1>6. CASE ~(Height[r.hi] - Height[r.lo] > 1)
  <2>0. PICK n \in Int :
           /\ toPeer' = toPeer \o before \o <<[type |-> "GET-NEXT-BLOCKS", start |-> r.lo,
                                              end |-> r.peerBest, quantity |-> n]>>
           /\ blkClient' = [NoBlkClient EXCEPT !.exists = TRUE, !.fired = FALSE, !.max = n]
    <3>1. Quantity(r.lo, r.peerBest) \in Int
      BY <1>4 DEF Quantity
    <3> QED BY <1>6, <3>1 DEF SearchOrStream
  <2>1. PICK m :
           /\ m = [type |-> "GET-NEXT-BLOCKS", start |-> r.lo, end |-> r.peerBest, quantity |-> n]
           /\ toPeer' = toPeer \o before \o <<m>>
           /\ blkClient' = [NoBlkClient EXCEPT !.exists = TRUE, !.fired = FALSE, !.max = n]
    BY <2>0
  <2>2. run' = [r EXCEPT !.pc = "stream", !.syncedBlock = r.lo]
    BY <1>6 DEF SearchOrStream
  <2>3. /\ run' \in Runs /\ run'.pc = "stream" /\ run'.state = r.state /\ run'.myBest = r.myBest
        /\ run'.peerBest = r.peerBest /\ run'.lo = r.lo /\ run'.syncedBlock = r.lo
    BY <2>2 DEF Runs
  <2>4. /\ m \in Requests /\ m.type = "GET-NEXT-BLOCKS" /\ m.start = r.lo /\ m.end = r.peerBest
    BY <2>1 DEF Requests, Runs
  <2>5. ~Quiet(m)
    BY <2>4 DEF Quiet
  <2>6. /\ toPeer' \in Seq(Requests) /\ Asking(toPeer', "GET-NEXT-BLOCKS")
        /\ \A i \in 1 .. Len(toPeer') : toPeer'[i] = m \/ Quiet(toPeer'[i])
    BY <1>3, <2>1, <2>4, <2>5
  <2>7. /\ blkClient' \in BlkClients /\ blkClient'.exists /\ ~blkClient'.fired
        /\ blkClient'.last = -1
    <3>1. blkClient' = [exists |-> TRUE, fired |-> FALSE, got |-> 0, max |-> n, repeated |-> 0,
                        last |-> -1]
      BY <2>1 DEF NoBlkClient
    <3> QED BY <3>1 DEF BlkClients
  <2>8. TypeOK'
    BY <2>3, <2>6, <2>7 DEF Talking, TypeOK
  <2>9. Conversation'
    BY <2>3, <2>6, <2>7 DEF Conversation, Awaiting
  <2>10. KnownToPeer'
    <3>1. \A i \in 1 .. Len(toPeer') : GoodRequest(toPeer'[i], peer, mempool.asked)
      BY <2>4, <2>6 DEF GoodRequest, Quiet
    <3> QED BY <1>1, <2>3, <3>1 DEF Talking, KnownToPeer
  <2>11. KnownToMe'
    <3>1. FirstBlock(toMe', r.lo)
      BY NoiseHasNoBlocks DEF FirstBlock
    <3>2. \A i \in 1 .. Len(toPeer') : toPeer'[i].type = "GET-NEXT-BLOCKS" => toPeer'[i].start = r.lo
      BY <2>4, <2>6 DEF Quiet
    <3> QED BY <2>3, <2>7, <3>1, <3>2 DEF KnownToMe
  <2> QED BY <2>3, <2>8, <2>9, <2>10, <2>11 DEF Talking, SyncedMeansStored, Open
<1> QED BY <1>5, <1>6

(* The block phase is over: the mempool comes next.                        *)
LEMMA StartMempoolStep ==
  ASSUME AgentAssumption, Talking, toPeer = <<>>, ~server.running,
         toMe' \in Seq(Answers), All(toMe', Noise),
         NEW r \in Runs, r.relay, r.myBest \in me.blocks, r.lo \in me.blocks,
         r.lo \in peer.blocks, r.peerBest \in peer.blocks, r.syncedBlock \in me.blocks,
         StartMempool(r), UNCHANGED <<me, peer, server, blkClient, closed>>
  PROVE  Talking'
<1>1. \A i \in 1 .. Len(toMe') : GoodAnswer(toMe'[i], peer, mempool.asked)
  BY DEF All, Noise, GoodAnswer
<1>2. PICK on : on = RelayRequest(TRUE)
  OBVIOUS
<1>3. on \in Requests /\ Quiet(on) /\ on.type = "RELAY"
  BY <1>2 DEF Requests, RelayRequest, Quiet
<1>4. mempool \in Mempools
  BY DEF Talking, TypeOK
<1> DEFINE At(pc) ==
      /\ run' \in Runs /\ run'.pc = pc /\ run'.relay /\ run'.myBest = r.myBest
      /\ run'.peerBest = r.peerBest /\ run'.lo = r.lo /\ run'.syncedBlock = r.syncedBlock
<1>6. CASE mempool.missing = {}
  <2>1. PICK g : g = [type |-> "GET-TIPS"]
    OBVIOUS
  <2>2. /\ run' = [r EXCEPT !.pc = "tips", !.state = "mempool"]
        /\ toPeer' = toPeer \o <<on, g>>
        /\ mempool' = [mempool EXCEPT !.receiving = TRUE, !.tips = {}]
    BY <1>2, <1>6, <2>1 DEF StartMempool
  <2>at. At("tips")
    BY <2>2 DEF Runs
  <2>3. g \in Requests /\ g.type = "GET-TIPS"
    BY <2>1 DEF Requests
  <2>4. /\ mempool' \in Mempools /\ mempool'.stack = mempool.stack /\ mempool'.receiving
        /\ mempool'.missing = mempool.missing /\ mempool'.cache = mempool.cache
        /\ mempool'.asked = mempool.asked /\ mempool'.tips = {}
    BY <1>4, <2>2 DEF Mempools
  <2>5. /\ toPeer' \in Seq(Requests) /\ Len(toPeer') = 2 /\ toPeer'[1] = on /\ toPeer'[2] = g
        /\ toPeer' # <<>>
    BY <1>3, <2>2, <2>3
  <2>6. Asking(toPeer', "GET-TIPS")
    BY <1>3, <2>3, <2>5 DEF Asking
  <2>7. TypeOK'
    BY <2>at, <2>2, <2>4, <2>5 DEF Talking, TypeOK
  <2>8. Conversation'
    BY <2>at, <2>2, <2>4, <2>6 DEF Conversation, Awaiting
  <2>9. KnownToPeer'
    <3>1. \A i \in 1 .. Len(toPeer') : GoodRequest(toPeer'[i], peer, mempool'.asked)
      BY <1>3, <2>3, <2>5 DEF GoodRequest
    <3> QED BY <1>1, <2>at, <2>2, <2>4, <3>1 DEF Talking, KnownToPeer
  <2>10. KnownToMe'
    BY <2>at, <2>2 DEF Talking, KnownToMe
  <2> QED BY <2>at, <2>2, <2>7, <2>8, <2>9, <2>10 DEF Talking, SyncedMeansStored, Open
<1>7. CASE mempool.missing # {}
  <2>1. /\ run' = [r EXCEPT !.pc = "dfs", !.state = "mempool"]
        /\ toPeer' = Append(toPeer, on) /\ mempool' = mempool
    BY <1>2, <1>7 DEF StartMempool
  <2>at. At("dfs")
    BY <2>1 DEF Runs
  <2>2. /\ toPeer' \in Seq(Requests) /\ Len(toPeer') = 1 /\ toPeer'[1] = on
    BY <1>3, <2>1
  <2>3. NothingAsked(toPeer')
    BY <1>3, <2>2 DEF NothingAsked
  <2>4. TypeOK'
    BY <2>at, <2>1, <2>2 DEF Talking, TypeOK
  <2>5. Conversation'
    BY <2>at, <2>1, <2>3 DEF Conversation
  <2>6. KnownToPeer'
    <3>1. \A i \in 1 .. Len(toPeer') : GoodRequest(toPeer'[i], peer, mempool.asked)
      BY <1>3, <2>2 DEF GoodRequest
    <3> QED BY <1>1, <2>at, <2>1, <3>1 DEF Talking, KnownToPeer
  <2>7. KnownToMe'
    BY <2>at, <2>1 DEF Talking, KnownToMe
  <2> QED BY <2>at, <2>1, <2>4, <2>5, <2>6, <2>7 DEF Talking, SyncedMeansStored, Open
<1> QED BY <1>6, <1>7

LEMMA HandleBestBlockStep ==
  ASSUME AgentAssumption, Talking, Receive, Kind(Head(toMe)) = "BEST-BLOCK" PROVE Talking'
<1>1. PICK p : p = Head(toMe).block
  OBVIOUS
<1>2. Head(toMe).type = "BEST-BLOCK" /\ p \in Blocks /\ p \in peer.blocks
  BY <1>1, ReceiveForm, AnswerForm DEF GoodAnswer
<1>3. HandleBestBlock(Head(toMe))
  BY <1>2 DEF Receive, HandleUnexpected
<1>4. toPeer = <<>> /\ All(toMe', Noise) /\ run.pc = "best" /\ ~server.running
  BY ReceiveForm, WhatComes DEF Talking
<1>5. /\ run \in Runs /\ run.state = "blocks" /\ run.myBest \in me.blocks /\ run.lo \in me.blocks
      /\ run.lo \in peer.blocks /\ Storage(me) /\ Storage(peer)
  BY <1>4 DEF Talking, Conversation, TypeOK, KnownToMe, KnownToPeer
<1>6. CASE IsSynced(p)
  <2>1. p \in me.blocks
    <3>1. CASE p = run.myBest
      BY <1>5, <3>1
    <3>2. CASE p \in AtHeight(me.best, Height[p])
      <4>1. /\ me.blocks \in SUBSET Blocks /\ me.best \in me.blocks
            /\ \A c \in me.blocks : Parent[c] \in me.blocks
        BY <1>5 DEF Storage
      <4>2. Chain(me.best) \subseteq me.blocks
        BY <4>1, ChainWithin
      <4> QED BY <3>2, <4>2 DEF AtHeight
    <3> QED BY <1>6, <3>1, <3>2 DEF IsSynced
  <2>2. PICK r : r = [run EXCEPT !.peerBest = p, !.synced = TRUE, !.relay = TRUE, !.syncedBlock = p]
    OBVIOUS
  <2>3. StartMempool(r) /\ UNCHANGED <<blkClient, me, closed>>
    BY <1>1, <1>3, <1>4, <1>6, <2>2 DEF HandleBestBlock
  <2>4. /\ r \in Runs /\ r.relay /\ r.myBest = run.myBest /\ r.lo = run.lo /\ r.peerBest = p
        /\ r.syncedBlock = p
    BY <1>2, <1>5, <2>2 DEF Runs
  <2> QED BY <1>2, <1>4, <1>5, <2>1, <2>3, <2>4, ReceiveForm, StartMempoolStep
<1>7. CASE ~IsSynced(p)
  <2>1. PICK r : r = [run EXCEPT !.peerBest = p, !.synced = FALSE, !.relay = FALSE, !.lo = 0,
                                 !.hi = IF Height[p] <= Height[run.myBest] THEN p ELSE run.myBest]
    OBVIOUS
  <2>2. PICK before : before = <<RelayRequest(FALSE)>>
    OBVIOUS
  <2>3. SearchOrStream(r, before) /\ UNCHANGED <<mempool, me, closed>>
    BY <1>1, <1>3, <1>4, <1>7, <2>1, <2>2 DEF HandleBestBlock
  <2>4. PICK h \in Blocks : r = [run EXCEPT !.peerBest = p, !.synced = FALSE, !.relay = FALSE,
                                            !.lo = 0, !.hi = h]
    BY <1>2, <1>5, <2>1 DEF Runs
  <2>5. 0 \in Blocks /\ 0 \in me.blocks /\ 0 \in peer.blocks
    BY <1>5 DEF AgentAssumption, Storage
  <2>6. /\ r \in Runs /\ r.state = run.state /\ r.myBest = run.myBest /\ r.lo = 0 /\ r.peerBest = p
        /\ ~r.synced
    BY <1>2, <1>5, <2>4, <2>5 DEF Runs
  <2>7. before \in Seq(Requests) /\ NothingAsked(before)
    <3>1. PICK off : off = RelayRequest(FALSE) /\ before = <<off>>
      BY <2>2
    <3>2. off \in Requests /\ Quiet(off)
      BY <3>1 DEF Requests, RelayRequest, Quiet
    <3>3. before \in Seq(Requests) /\ Len(before) = 1 /\ before[1] = off
      <4>1. before = <<off>> /\ off \in Requests
        BY <3>1, <3>2
      <4> QED BY <4>1
    <3> QED BY <3>2, <3>3 DEF NothingAsked
  <2> QED BY <1>2, <1>4, <1>5, <2>3, <2>5, <2>6, <2>7, ReceiveForm, SearchOrStreamStep
<1> QED BY <1>6, <1>7

(* A bounded set of blocks has a highest and a lowest one.                 *)
LEMMA HighestExists ==
  ASSUME AgentAssumption, NEW S \in SUBSET Blocks, S # {},
         NEW k \in Nat, \A b \in S : Height[b] <= k
  PROVE  \E b \in S : \A c \in S : Height[c] <= Height[b]
<1> DEFINE D == {k - Height[b] : b \in S}
<1>1. \A b \in S : Height[b] \in Nat
  BY DEF AgentAssumption
<1>2. D \subseteq Nat /\ D # {}
  BY <1>1
<1>3. PICK x \in D : \A y \in D : x <= y
  BY <1>2, Least
<1>4. PICK b \in S : x = k - Height[b]
  OBVIOUS
<1>5. ASSUME NEW c \in S PROVE Height[c] <= Height[b]
  <2>1. k - Height[b] <= k - Height[c]
    BY <1>3, <1>4
  <2> QED BY <1>1, <2>1
<1> QED BY <1>5

LEMMA LowestExists ==
  ASSUME AgentAssumption, NEW S \in SUBSET Blocks, S # {}
  PROVE  \E b \in S : \A c \in S : Height[b] <= Height[c]
<1> DEFINE D == {Height[b] : b \in S}
<1>1. D \subseteq Nat /\ D # {}
  BY DEF AgentAssumption
<1>2. PICK x \in D : \A y \in D : x <= y
  BY <1>1, Least
<1> QED BY <1>2

(* A step of the search: its lower end stays a block of both nodes.        *)
LEMMA HandlePeerBlockHashesStep ==
  ASSUME AgentAssumption, Talking, Receive, Kind(Head(toMe)) = "PEER-BLOCK-HASHES" PROVE Talking'
<1>1. PICK L : L = Head(toMe).list
  OBVIOUS
<1>2. Head(toMe).type = "PEER-BLOCK-HASHES" /\ L \in HashLists /\ L \subseteq peer.blocks
  BY <1>1, ReceiveForm, AnswerForm DEF GoodAnswer
<1>3. HandlePeerBlockHashes(Head(toMe))
  BY <1>2 DEF Receive, HandleUnexpected
<1>4. toPeer = <<>> /\ All(toMe', Noise) /\ run.pc = "search"
  BY ReceiveForm, WhatComes DEF Talking
<1>5. /\ run \in Runs /\ run.state = "blocks" /\ ~server.running /\ run.myBest \in me.blocks
      /\ run.lo \in me.blocks /\ run.peerBest \in peer.blocks /\ toPeer \in Seq(Requests)
      /\ run.synced => run.syncedBlock \in me.blocks
  BY <1>4 DEF Talking, Conversation, TypeOK, KnownToMe, KnownToPeer, SyncedMeansStored
<1>6. CASE run.lo \notin L
  <2>1. run' = [run EXCEPT !.pc = "idle"] /\ UNCHANGED <<blkClient, toPeer, me, mempool, closed>>
    BY <1>1, <1>3, <1>4, <1>6 DEF HandlePeerBlockHashes
  <2>2. blkClient' \in BlkClients /\ blkClient'.last \in me.blocks \cup {-1}
    BY <2>1 DEF Talking, TypeOK, KnownToMe
  <2>3. toPeer' \in Seq(Requests) /\ NothingAsked(toPeer')
    BY <1>4, <1>5, <2>1 DEF NothingAsked
  <2>4. All(toMe', Traffic) /\ All(toMe', {"RELAYED", "BEST-BLOCK"})
    BY <1>4, AllMonotone DEF Noise, Traffic
  <2> QED BY <1>5, <2>1, <2>2, <2>3, <2>4, ReceiveForm, RunEnds
<1>7. CASE run.lo \in L
  <2>1. PICK known : known = {b \in L : b \in me.blocks}
    OBVIOUS
  <2>2. PICK above : above = {b \in L : \A c \in known : Height[b] > Height[c]}
    OBVIOUS
  <2>3. PICK lo : lo = CHOOSE b \in known : \A c \in known : Height[c] <= Height[b]
    OBVIOUS
  <2>4. PICK hi : hi = CHOOSE b \in above : \A c \in above : Height[b] <= Height[c]
    OBVIOUS
  <2>5. PICK r : r = [run EXCEPT !.lo = lo, !.hi = IF above = {} THEN @ ELSE hi]
    OBVIOUS
  <2>6. SearchOrStream(r, <<>>) /\ UNCHANGED <<me, mempool, closed>>
    BY <1>1, <1>3, <1>4, <1>7, <2>1, <2>2, <2>3, <2>4, <2>5 DEF HandlePeerBlockHashes
  <2>7. lo \in known
    <3>1. PICK k \in Nat : \A b \in L : Height[b] <= k
      BY <1>2 DEF HashLists
    <3>2. known \in SUBSET Blocks /\ known # {} /\ \A b \in known : Height[b] <= k
      BY <1>2, <1>5, <1>7, <2>1, <3>1 DEF HashLists
    <3>3. \E b \in known : \A c \in known : Height[c] <= Height[b]
      BY <3>2, HighestExists
    <3> QED BY <2>3, <3>3
  <2>8. above # {} => hi \in above
    <3>1. above \in SUBSET Blocks
      BY <1>2, <2>2 DEF HashLists
    <3>2. above # {} => \E b \in above : \A c \in above : Height[b] <= Height[c]
      BY <3>1, LowestExists
    <3> QED BY <2>4, <3>2
  <2>9. PICK x \in Blocks : r = [run EXCEPT !.lo = lo, !.hi = x]
    BY <1>2, <1>5, <2>2, <2>5, <2>8 DEF HashLists, Runs
  <2>10. lo \in Blocks /\ lo \in me.blocks /\ lo \in peer.blocks
    BY <1>2, <2>1, <2>7 DEF HashLists
  <2>11. /\ r \in Runs /\ r.state = run.state /\ r.myBest = run.myBest /\ r.lo = lo
         /\ r.peerBest = run.peerBest /\ r.synced = run.synced /\ r.syncedBlock = run.syncedBlock
    BY <1>5, <2>9, <2>10 DEF Runs
  <2>12. PICK before \in Seq(Requests) : before = <<>>
    BY SeqGrows
  <2>13. NothingAsked(before)
    BY <2>12 DEF NothingAsked
  <2>14. SearchOrStream(r, before)
    BY <2>6, <2>12
  <2> QED BY <1>4, <1>5, <2>6, <2>10, <2>11, <2>12, <2>13, <2>14, ReceiveForm, SearchOrStreamStep
<1> QED BY <1>6, <1>7

(* Every other message leaves the score alone.                             *)
LEMMA OtherAnswer ==
  ASSUME Receive, Kind(Head(toMe)) \notin {"RELAYED", "DATA"}
  PROVE  UNCHANGED conduct
BY DEF Receive, Kind

LEMMA ReceiveStep ==
  ASSUME AgentAssumption, Talking, Conduct, Receive PROVE Agreement' /\ Conduct'
<1>1. CASE Kind(Head(toMe)) = "RELAYED"
  BY <1>1, HandleRelayedStep
<1>2. CASE Kind(Head(toMe)) # "RELAYED"
  <2>1. Talking'
    BY <1>2, ReceiveForm, AnswerForm, HandleBestBlockStep, HandlePeerBlockHashesStep,
       HandleBlocksStep, HandleBlocksEndStep, HandleTipsStep, HandleTipsEndStep, HandleDataStep
  <2>2. UNCHANGED conduct
    BY <1>2, HandleDataStep, OtherAnswer
  <2> QED BY <2>1, <2>2, ScoreKept DEF Talking, Agreement
<1> QED BY <1>1, <1>2

-----------------------------------------------------------------------------
LEMMA InitTalking ==
  ASSUME AgentAssumption, Init PROVE Talking
<1>1. PICK s \in Scenarios : me = NodeAt(s.me) /\ peer = NodeAt(s.peer)
  BY DEF Init
<1>2. s.me \in Blocks /\ s.peer \in Blocks
  BY DEF AgentAssumption
<1>3. ASSUME NEW b \in Blocks PROVE Storage(NodeAt(b)) /\ NodeAt(b).txs = {}
  <2>1. /\ NodeAt(b).blocks = Chain(b) /\ NodeAt(b).best = b /\ NodeAt(b).txs = {}
        /\ NodeAt(b) = [blocks |-> Chain(b), best |-> b, txs |-> {}]
    BY DEF NodeAt
  <2>2. NodeAt(b) \in [blocks : SUBSET Blocks, best : Blocks, txs : SUBSET Txs]
    BY <2>1, ChainIsClosed
  <2> QED BY <2>1, <2>2, ChainIsClosed DEF Storage
<1>4. Storage(me) /\ Storage(peer) /\ peer.txs = {}
  BY <1>1, <1>2, <1>3
<1>5. /\ server = NoServer /\ toPeer = <<>> /\ toMe = <<>> /\ run = Idle /\ blkClient = NoBlkClient
      /\ closed = ""
      /\ mempool = [missing |-> {}, stack |-> <<>>, cache |-> {}, asked |-> {}, tips |-> {},
                    receiving |-> FALSE]
  BY DEF Init
<1>6. 0 \in Blocks /\ 0 \in me.blocks /\ 0 \in peer.blocks
  BY <1>4 DEF AgentAssumption, Storage
<1>7. /\ run \in Runs /\ run.pc = "idle" /\ run.peerBest = 0 /\ run.lo = 0 /\ run.myBest = 0
      /\ ~run.synced
  BY <1>5, <1>6 DEF Idle, Runs
<1>8. /\ mempool \in Mempools /\ mempool.missing = {} /\ mempool.tips = {} /\ mempool.cache = {}
      /\ mempool.asked = {} /\ mempool.stack = <<>>
  BY <1>5, SeqGrows DEF Mempools
<1>9. /\ server \in [running : BOOLEAN, cur : Blocks, end : Blocks, left : Int] /\ ~server.running
  <2>1. server = NoServer
    BY <1>5
  <2> QED BY <1>6, <2>1 DEF NoServer
<1>10. blkClient \in BlkClients /\ blkClient.last = -1
  <2>1. blkClient = NoBlkClient
    BY <1>5
  <2> QED BY <2>1 DEF NoBlkClient, BlkClients
<1>11. /\ toPeer \in Seq(Requests) /\ toMe \in Seq(Answers) /\ Len(toPeer) = 0 /\ Len(toMe) = 0
       /\ mempool.stack \in Seq(peer.txs)
  BY <1>5, <1>8, SeqGrows
<1>12. TypeOK
  BY <1>4, <1>7, <1>8, <1>9, <1>10, <1>11 DEF TypeOK
<1>13. Conversation
  BY <1>7, <1>9, <1>11 DEF Conversation, NothingAsked, All, Leftovers
<1>14. KnownToPeer /\ KnownToMe
  BY <1>6, <1>7, <1>8, <1>10, <1>11 DEF KnownToPeer, KnownToMe
<1> QED BY <1>5, <1>7, <1>12, <1>13, <1>14 DEF Talking, SyncedMeansStored, Open

LEMMA InitIInv ==
  ASSUME AgentAssumption, Init PROVE IInv
<1>1. score = 0 /\ unsolicited = 0 /\ Open
  BY DEF Init, Open
<1>2. OnlyLateRelaysClose
  BY <1>1, Zenon DEF OnlyLateRelaysClose, Open
<1>3. Conduct
  BY <1>1, <1>2 DEF Conduct
<1> QED BY <1>3, InitTalking DEF IInv, Talking, Agreement

LEMMA NextIInv ==
  ASSUME AgentAssumption, IInv, [Next]_vars PROVE IInv'
<1>1. CASE UNCHANGED vars
  <2>1. UNCHANGED <<me, peer, server, toPeer, toMe, run, blkClient, mempool, score, unsolicited,
                    closed>>
    BY <1>1 DEF vars
  <2>2. TypeOK' /\ KnownToPeer' /\ KnownToMe'
    BY <2>1 DEF IInv, Agreement, TypeOK, KnownToPeer, KnownToMe
  <2>3. Conversation'
    BY <2>1 DEF IInv, Agreement, Conversation, Leftovers, Awaiting
  <2>4. SyncedMeansStored' /\ Conduct'
    BY <2>1 DEF IInv, Agreement, SyncedMeansStored, Conduct, OnlyLateRelaysClose
  <2> QED BY <2>2, <2>3, <2>4 DEF IInv, Agreement
<1>2. CASE Next
  <2>1. Open
    BY <1>2 DEF Next, PeerReceive, PeerSend, PeerAccepts, PeerGoesSilent, RunSync, Receive,
       MempoolStep, IAccept
  <2>2. Talking /\ Conduct
    BY <2>1 DEF IInv, Agreement, Talking, Open
  <2>3. CASE Receive
    BY <2>2, <2>3, ReceiveStep DEF IInv
  <2>4. CASE ~Receive
    <3>1. Talking'
      BY <1>2, <2>2, <2>4, PeerReceiveStep, PeerSendStep, PeerAcceptsStep, PeerGoesSilentStep,
         RunSyncStep, MempoolStepStep, IAcceptStep DEF Next
    <3>2. UNCHANGED conduct
      BY <1>2, <2>4 DEF Next, PeerReceive, PeerSend, PeerAccepts, PeerGoesSilent, RunSync,
         MempoolStep, IAccept
    <3> QED BY <2>2, <3>1, <3>2, ScoreKept DEF IInv, Talking, Agreement
  <2> QED BY <2>3, <2>4
<1> QED BY <1>1, <1>2

(* The inductive invariant: what is on its way in either direction is what *)
(* the run waits for, or remains of a stream that it has told the peer to  *)
(* stop; and the misbehavior score never exceeds the unsolicited vertices. *)
THEOREM Invariance == ASSUME AgentAssumption PROVE Spec => []IInv
  BY InitIInv, NextIInv, PTL DEF Spec

(* Only more than MaxScore late relays close the connection of two nodes   *)
(* that follow the protocol (handle_data, increase_misbehavior_score): no  *)
(* handler of handle_blocks, handle_blocks_end, handle_tips,               *)
(* handle_tips_end or _on_get_data finds its requester in another state,   *)
(* no handle_get_next_blocks meets a running stream, and nothing that is   *)
(* asked for is missing, whatever re-orgs and growth come in between.      *)
THEOREM PairClosesOnlyForLateRelays ==
  ASSUME AgentAssumption PROVE Spec => []OnlyLateRelaysClose
<1>1. IInv => OnlyLateRelaysClose
  BY DEF IInv, Conduct
<1> QED BY <1>1, Invariance, PTL

(* is_synced is never claimed for a block that is not stored, although     *)
(* run_sync_blocks compares the answer with a best block read earlier.     *)
THEOREM SyncedIsStored == ASSUME AgentAssumption PROVE Spec => []SyncedMeansStored
<1>1. IInv => SyncedMeansStored
  BY DEF IInv, Agreement
<1> QED BY <1>1, Invariance, PTL
=============================================================================
