----------------------------- MODULE P2PProofs -----------------------------
(***************************************************************************)
(* Proofs about the connections between nodes (Connections) and about the  *)
(* transaction phase of sync-v2 (TxStreaming), which share no state: the   *)
(* second one is the instance Tx, with its own variables.                  *)
(***************************************************************************)
EXTENDS Connections, FiniteSetTheorems, WellFoundedInduction, TLAPS

CONSTANTS Dags, Limit, MaxStartFrom
VARIABLES dag, chain, server, toServer, toClient, stored, others, client, orphans, agent, closed

Tx == INSTANCE TxStreaming

\* The property of the transaction phase.
INSTANCE TxStreamingSafety

(* Sets of numbers have a least element: the proofs by induction below go  *)
(* by a least counterexample.                                              *)
LEMMA Least ==
  ASSUME NEW S, S \subseteq Nat, S # {}
  PROVE  \E x \in S : \A y \in S : x <= y
<1>1. PICK x \in S : \A y \in S : ~ (<<y, x>> \in OpToRel(<, Nat))
  BY WFMin, NatLessThanWellFounded
<1>2. ASSUME NEW y \in S PROVE x <= y
  <2>1. x \in Nat /\ y \in Nat
    OBVIOUS
  <2>2. ~ (<<y, x>> \in {ss \in Nat \X Nat : ss[1] < ss[2]})
    BY <1>1 DEF OpToRel
  <2> QED BY <2>1, <2>2
<1> QED BY <1>2

-----------------------------------------------------------------------------
(* The transaction phase.                                                  *)

Vertices == DOMAIN dag.deps
Needs(v) == dag.deps[v]
TxCodes == {"STREAM_BECAME_VOIDED", "END_HASH_REACHED", "TX_NOT_CONFIRMED", "LIMIT_EXCEEDED",
            "INVALID_PARAMS", "PER_REQUEST"}

TxMessages ==
    [type : {"TRANSACTION"}, tx : Vertices]
    \cup [type : {"TRANSACTIONS-END"}, code : TxCodes]
    \cup [type : {"BLOCKS"}, blocks : Seq(Vertices)]

TxClients ==
    [exists : BOOLEAN, blocks : Seq(Vertices), idx : Nat, waiting : SUBSET Vertices,
     db : SUBSET Vertices, existing : SUBSET Vertices, queue : Seq(Vertices),
     code : TxCodes \cup {""}, fired : BOOLEAN, received : Nat, scheduled : BOOLEAN,
     busy : BOOLEAN, todo : SUBSET Vertices, torn : BOOLEAN]

(***************************************************************************)
(* A client between two blocks it adds: what the block and the buffered    *)
(* transactions depend on is stored (st), buffered or waited for.  A       *)
(* client that is adding a block: what is left of its dependencies is in   *)
(* todo, with what they depend on.                                         *)
(***************************************************************************)
Gathers(c, st) ==
    /\ \A t \in c.db : Needs(t) \subseteq st \cup c.db \cup c.waiting
    /\ Needs(c.blocks[c.idx]) \subseteq st \cup c.db \cup c.waiting

Adds(c, st) ==
    /\ c.waiting = {} /\ c.db \subseteq st \cup c.todo
    /\ \A t \in c.todo : Needs(t) \subseteq st \cup c.todo
    /\ Needs(c.blocks[c.idx]) \subseteq st \cup c.todo

SafeClient(c, st) ==
    /\ c \in TxClients
    /\ c.idx >= 1
    /\ c.existing \subseteq st \cup c.db
    /\ c.idx <= Len(c.blocks) /\ ~c.busy => Gathers(c, st)
    /\ c.idx <= Len(c.blocks) /\ c.busy => Adds(c, st)
    /\ c.idx > Len(c.blocks) => ~c.busy /\ c.waiting = {} /\ c.db \subseteq st

Closed(st) == \A v \in st : Needs(v) \subseteq st

TxInv ==
    /\ dag \in Dags
    /\ chain \in Seq(DOMAIN dag.owns)
    /\ toClient \in Seq(TxMessages)
    /\ SafeClient(client, stored)
    /\ \A c \in orphans : SafeClient(c, stored) /\ c.busy
    /\ StorageIsClosed

LEMMA BlocksType ==
  ASSUME NEW c \in TxClients
  PROVE  c.blocks \in Seq(Vertices) /\ Len(c.blocks) \in Nat
<1>1. c.blocks \in Seq(Vertices)
  BY DEF TxClients
<1> QED BY <1>1

(* The storage only grows, and a client that was safe stays so.            *)
LEMMA SafeGrows ==
  ASSUME NEW c, NEW st, NEW new, SafeClient(c, st), st \subseteq new
  PROVE  SafeClient(c, new)
BY DEF SafeClient, Gathers, Adds

(* Fields that say nothing of what is gathered may change.                 *)
LEMMA SafeSame ==
  ASSUME NEW c, NEW st, SafeClient(c, st), NEW d \in TxClients,
         d.blocks = c.blocks, d.idx = c.idx, d.existing = c.existing, d.db = c.db,
         d.waiting = c.waiting, d.busy = c.busy, d.todo = c.todo
  PROVE  SafeClient(d, st)
BY DEF SafeClient, Gathers, Adds

(* _prepare_block, when the block before is stored with all it needed.     *)
LEMMA PrepareFact ==
  ASSUME Tx!TxAssumption, dag \in Dags, NEW c \in TxClients, NEW i \in Nat, i >= 1, NEW st,
         ~c.busy, c.waiting = {}, c.db \subseteq st, c.existing \subseteq st
  PROVE  SafeClient(Tx!PrepareBlock(c, i, st), st)
<1> DEFINE w == Needs(c.blocks[i]) \ st
           e == Needs(c.blocks[i]) \cap st
<1>1. CASE i > Len(c.blocks)
  <2>1. PICK d : d = [c EXCEPT !.idx = i]
    OBVIOUS
  <2>2. /\ d \in TxClients /\ d.idx = i /\ d.blocks = c.blocks /\ d.waiting = {}
        /\ d.db = c.db /\ d.existing = c.existing /\ ~d.busy
    BY <2>1 DEF TxClients
  <2>3. Len(c.blocks) \in Nat
    BY BlocksType
  <2>4. SafeClient(d, st)
    BY <1>1, <2>2, <2>3 DEF SafeClient
  <2> QED BY <1>1, <2>1, <2>4 DEF Tx!PrepareBlock
<1>2. CASE ~(i > Len(c.blocks))
  <2>0. c.blocks \in Seq(Vertices) /\ i \in 1 .. Len(c.blocks)
    BY <1>2, BlocksType
  <2>1. w \in SUBSET Vertices /\ e \in SUBSET Vertices
    BY <2>0 DEF Tx!TxAssumption, Tx!WellFormed, Vertices, Needs
  <2>2. PICK d : d = [c EXCEPT !.idx = i, !.db = {}, !.waiting = w, !.existing = e]
    OBVIOUS
  <2>3. Tx!PrepareBlock(c, i, st) = d
    BY <1>2, <2>2 DEF Tx!PrepareBlock, Tx!Missing, Needs
  <2>4. PICK x \in SUBSET Vertices : x = w
    BY <2>1
  <2>5. PICK y \in SUBSET Vertices : y = e
    BY <2>1
  <2>6. d = [c EXCEPT !.idx = i, !.db = {}, !.waiting = x, !.existing = y]
    BY <2>2, <2>4, <2>5
  <2>7. {} \in SUBSET Vertices
    OBVIOUS
  <2>8. /\ d \in TxClients /\ d.idx = i /\ d.blocks = c.blocks /\ d.waiting = x
        /\ d.db = {} /\ d.existing = y /\ ~d.busy
    BY <2>6, <2>7 DEF TxClients
  <2>9. SafeClient(d, st)
    BY <2>0, <2>4, <2>5, <2>8 DEF SafeClient, Gathers
  <2> QED BY <2>3, <2>9
<1> QED BY <1>1, <1>2

(* _update_dependencies, of a vertex that arrived while a block gathers.   *)
LEMMA UpdateDependenciesFact ==
  ASSUME Tx!TxAssumption, dag \in Dags, NEW c \in TxClients, NEW v \in Vertices
  PROVE  /\ Tx!UpdateDependencies(c, v) \in TxClients
         /\ Tx!UpdateDependencies(c, v).waiting = c.waiting \cup (Needs(v) \ (stored \cup c.db))
         /\ Tx!UpdateDependencies(c, v).existing = c.existing \cup (Needs(v) \cap (stored \cup c.db))
         /\ Tx!UpdateDependencies(c, v).blocks = c.blocks
         /\ Tx!UpdateDependencies(c, v).idx = c.idx
         /\ Tx!UpdateDependencies(c, v).db = c.db
         /\ Tx!UpdateDependencies(c, v).busy = c.busy
         /\ Tx!UpdateDependencies(c, v).todo = c.todo
<1>1. Needs(v) \in SUBSET Vertices
  BY DEF Tx!TxAssumption, Tx!WellFormed, Vertices, Needs
<1>2. c.waiting \in SUBSET Vertices /\ c.existing \in SUBSET Vertices
  BY DEF TxClients
<1>3. PICK w \in SUBSET Vertices : w = c.waiting \cup (Needs(v) \ (stored \cup c.db))
  BY <1>1, <1>2
<1>4. PICK e \in SUBSET Vertices : e = c.existing \cup (Needs(v) \cap (stored \cup c.db))
  BY <1>1, <1>2
<1>5. Tx!UpdateDependencies(c, v) = [c EXCEPT !.waiting = w, !.existing = e]
  BY <1>3, <1>4 DEF Tx!UpdateDependencies, Tx!Missing, Needs
<1> QED
  BY <1>3, <1>4, <1>5 DEF TxClients

(* The blocks from idx on that need nothing but each other and the         *)
(* storage; the block at idx itself is not looked at.                      *)
Ready(c, j) ==
    \A i \in c.idx + 1 .. j :
        Needs(c.blocks[i]) \subseteq stored \cup {c.blocks[k] : k \in c.idx .. i - 1}

LEMMA LastReadyFact ==
  ASSUME NEW c \in TxClients, c.idx <= Len(c.blocks)
  PROVE  /\ Tx!LastReady(c) \in c.idx .. Len(c.blocks)
         /\ Ready(c, Tx!LastReady(c))
<1> DEFINE n == Len(c.blocks)
           Stops(j) == j = n \/ ~Ready(c, j + 1)
           S == {j \in c.idx .. n : Stops(j)}
<1>1. c.idx \in Nat /\ n \in Nat
  BY BlocksType DEF TxClients
<1>2. Tx!LastReady(c) = CHOOSE j \in c.idx .. n : Ready(c, j) /\ Stops(j)
  BY DEF Tx!LastReady, Ready, Needs
<1>3. n \in S /\ S \subseteq Nat
  BY <1>1
<1> HIDE DEF S, n
<1>4. PICK j \in S : \A k \in S : j <= k
  BY <1>3, Least
<1>5. j \in c.idx .. n /\ Stops(j)
  BY <1>4 DEF S
<1>6. Ready(c, j)
  <2>1. CASE j = c.idx
    BY <1>1, <2>1 DEF Ready
  <2>2. CASE j # c.idx
    <3>1. j - 1 \in c.idx .. n /\ j - 1 \notin S /\ (j - 1) + 1 = j
      BY <1>1, <1>4, <1>5, <2>2
    <3> QED BY <3>1 DEF S
  <2> QED BY <2>1, <2>2
<1>7. \E i \in c.idx .. n : Ready(c, i) /\ Stops(i)
  BY <1>5, <1>6
<1>8. Tx!LastReady(c) \in c.idx .. n /\ Ready(c, Tx!LastReady(c))
  <2> DEFINE P(i) == Ready(c, i) /\ Stops(i)
  <2>1. \E i \in c.idx .. n : P(i)
    BY <1>7
  <2>2. Tx!LastReady(c) = CHOOSE i \in c.idx .. n : P(i)
    BY <1>2
  <2> HIDE DEF P
  <2>3. Tx!LastReady(c) \in c.idx .. n /\ P(Tx!LastReady(c))
    BY <2>1, <2>2
  <2> QED BY <2>3 DEF P
<1> QED
  BY <1>8 DEF n

(* What a call of on_new_block adds is closed, and leaves a client to      *)
(* whom nothing is missing.                                                *)
LEMMA AddNextFact ==
  ASSUME Tx!TxAssumption, dag \in Dags, StorageIsClosed, NEW c \in TxClients,
         c.idx >= 1, c.idx <= Len(c.blocks), Adds(c, stored), c.existing \subseteq stored \cup c.db
  PROVE  /\ stored \subseteq Tx!AddNext(c).stored
         /\ Closed(Tx!AddNext(c).stored)
         /\ SafeClient(Tx!AddNext(c).client, Tx!AddNext(c).stored)
<1> DEFINE todo == c.todo \ stored
           j == Tx!LastReady(c)
           added == stored \cup {c.blocks[k] : k \in c.idx .. j}
           done == [c EXCEPT !.busy = FALSE, !.todo = {}, !.scheduled = TRUE]
           next == Tx!Min(todo)
           more == [c EXCEPT !.busy = TRUE, !.todo = todo \ {next}]
<1>0. c.idx \in Nat /\ Len(c.blocks) \in Nat /\ c.blocks \in Seq(Vertices)
  BY BlocksType DEF TxClients
<1>1. CASE todo = {}
  <2>1. Tx!AddNext(c) = [stored |-> added, client |-> Tx!PrepareBlock(done, j + 1, added)]
    BY <1>1 DEF Tx!AddNext
  <2>2. PICK d : d = done
    OBVIOUS
  <2>3. {} \in SUBSET Vertices
    OBVIOUS
  <2>4. /\ d \in TxClients /\ ~d.busy /\ d.waiting = c.waiting /\ d.db = c.db
        /\ d.existing = c.existing
    BY <2>2, <2>3 DEF TxClients
  <2>5. j \in c.idx .. Len(c.blocks) /\ Ready(c, j)
    BY LastReadyFact
  <2>6. j + 1 \in Nat /\ j + 1 >= 1 /\ j \in Nat
    BY <1>0, <2>5
  <2> HIDE DEF j
  <2>7. PICK st : st = added
    OBVIOUS
  <2>8. stored \subseteq st /\ d.db \subseteq st /\ d.existing \subseteq st /\ d.waiting = {}
    BY <1>1, <2>4, <2>7 DEF Adds
  <2>9. SafeClient(Tx!PrepareBlock(d, j + 1, st), st)
    BY <2>4, <2>6, <2>8, PrepareFact
  <2>10. \A k \in c.idx .. j : c.blocks[k] \in st
    BY <2>7
  <2>11. ASSUME NEW k \in c.idx .. j PROVE Needs(c.blocks[k]) \subseteq st
    <3>1. CASE k = c.idx
      BY <1>1, <2>8, <3>1 DEF Adds
    <3>2. CASE k # c.idx
      <4>1. k \in c.idx + 1 .. j
        BY <1>0, <2>6, <3>2
      <4>2. Needs(c.blocks[k]) \subseteq stored \cup {c.blocks[i] : i \in c.idx .. k - 1}
        BY <2>5, <4>1 DEF Ready
      <4>3. \A i \in c.idx .. k - 1 : i \in c.idx .. j
        BY <1>0, <2>6, <4>1
      <4> QED BY <2>8, <2>10, <4>2, <4>3
    <3> QED BY <3>1, <3>2
  <2>12. Closed(st)
    BY <2>7, <2>8, <2>11 DEF Closed, StorageIsClosed, Needs
  <2>13. Tx!AddNext(c).stored = st /\ Tx!AddNext(c).client = Tx!PrepareBlock(d, j + 1, st)
    BY <2>1, <2>2, <2>7
  <2> QED BY <2>8, <2>9, <2>12, <2>13
<1>2. CASE todo # {}
  <2>1. Tx!AddNext(c) = [stored |-> stored \cup {next}, client |-> more]
    BY <1>2 DEF Tx!AddNext
  <2>2. todo \subseteq Vertices /\ Vertices \subseteq Nat
    BY DEF TxClients, Tx!TxAssumption, Tx!WellFormed, Vertices
  <2>3. PICK t \in todo : t = next /\ \A u \in todo : t <= u
    <3>1. \E x \in todo : \A y \in todo : x <= y
      BY <1>2, <2>2, Least
    <3> QED BY <3>1 DEF Tx!Min
  <2>4. PICK T \in SUBSET Vertices : T = todo \ {t}
    BY <2>2
  <2>5. PICK d : d = [c EXCEPT !.busy = TRUE, !.todo = T]
    OBVIOUS
  <2>6. more = d
    BY <2>3, <2>4, <2>5
  <2>7. /\ d \in TxClients /\ d.busy /\ d.todo = T /\ d.waiting = c.waiting /\ d.db = c.db
        /\ d.existing = c.existing /\ d.blocks = c.blocks /\ d.idx = c.idx
    BY <2>5 DEF TxClients
  <2>8. PICK st : st = stored \cup {t}
    OBVIOUS
  <2>9. Needs(t) \subseteq stored
    <3>1. ASSUME NEW u \in Needs(t), u \notin stored PROVE FALSE
      <4>1. u \in todo
        BY <2>3, <3>1 DEF Adds
      <4>2. u < t
        BY <2>2, <2>3 DEF Tx!TxAssumption, Tx!WellFormed, Vertices, Needs
      <4>3. t \in Nat /\ u \in Nat /\ t <= u
        BY <2>2, <2>3, <4>1
      <4> QED BY <4>2, <4>3
    <3> QED BY <3>1
  <2>10. Closed(st)
    BY <2>8, <2>9 DEF Closed, StorageIsClosed, Needs
  <2>11. st \cup T = stored \cup c.todo
    BY <2>4, <2>8
  <2>12. Adds(d, st)
    BY <2>4, <2>7, <2>11 DEF Adds
  <2>13. SafeClient(d, st)
    BY <1>0, <2>7, <2>8, <2>12 DEF SafeClient
  <2>14. Tx!AddNext(c).stored = st /\ Tx!AddNext(c).client = d
    BY <2>1, <2>3, <2>6, <2>8
  <2> QED BY <2>8, <2>10, <2>13, <2>14
<1> QED BY <1>1, <1>2

(* The stream of blocks, one after the other.                              *)
IsReceipt(f, n, blocks) ==
    f = [i \in 0 .. n |-> IF i = 0 THEN [stored |-> stored, partial |-> <<>>]
                          ELSE Tx!ReceiveBlock(f[i - 1], blocks[i])]

LEMMA ReceiptExists ==
  ASSUME NEW blocks, NEW n \in Nat
  PROVE  \E f : IsReceipt(f, n, blocks)
<1> DEFINE S == {i \in Nat : ~ \E f : IsReceipt(f, i, blocks)}
           z == [stored |-> stored, partial |-> <<>>]
<1>1. SUFFICES ASSUME S # {} PROVE FALSE
  OBVIOUS
<1>2. PICK i \in S : \A j \in S : i <= j
  BY <1>1, Least
<1>3. i \in Nat /\ ~ \E f : IsReceipt(f, i, blocks)
  OBVIOUS
<1>4. CASE i = 0
  <2>1. IsReceipt([k \in 0 .. 0 |-> z], 0, blocks)
    BY DEF IsReceipt
  <2> QED BY <1>3, <1>4, <2>1
<1>5. CASE i # 0
  <2>1. i - 1 \in Nat /\ i - 1 \notin S
    BY <1>2, <1>3, <1>5
  <2>2. PICK f : IsReceipt(f, i - 1, blocks)
    BY <2>1
  <2> DEFINE R(g, k) == IF k = 0 THEN z ELSE Tx!ReceiveBlock(g[k - 1], blocks[k])
             h == [k \in 0 .. i |-> IF k = i THEN R(f, i) ELSE f[k]]
  <2>3. \A k \in 0 .. i - 1 : f[k] = R(f, k)
    BY <1>3, <1>5, <2>2 DEF IsReceipt
  <2> HIDE DEF z
  <2>4. \A k \in 0 .. i : R(h, k) = R(f, k)
    <3>1. \A k \in 0 .. i : k # 0 => k - 1 \in 0 .. i /\ k - 1 # i
      BY <1>3, <1>5
    <3>2. \A k \in 0 .. i : k # 0 => h[k - 1] = f[k - 1]
      BY <3>1
    <3> HIDE DEF h
    <3> QED BY <3>2
  <2>5. \A k \in 0 .. i : h[k] = R(h, k)
    <3>1. \A k \in 0 .. i : k # i => k \in 0 .. i - 1
      BY <1>3, <1>5
    <3> HIDE DEF R
    <3>2. \A k \in 0 .. i : h[k] = R(f, k)
      BY <2>3, <3>1
    <3> HIDE DEF h
    <3> QED BY <2>4, <3>2
  <2>6. h = [k \in 0 .. i |-> R(h, k)]
    <3>1. h = [k \in 0 .. i |-> h[k]]
      OBVIOUS
    <3> HIDE DEF h, R
    <3> QED BY <2>5, <3>1
  <2>7. PICK g : g = h
    OBVIOUS
  <2> HIDE DEF h
  <2>8. IsReceipt(g, i, blocks)
    BY <2>6, <2>7 DEF IsReceipt, z
  <2> QED BY <1>3, <2>8
<1> QED BY <1>4, <1>5

(* The blocks that are added at once leave the storage closed; the others  *)
(* are kept in order.                                                      *)
GoodReceipt(r) ==
    /\ r \in [stored : {r.stored}, partial : Seq(Vertices)]
    /\ stored \subseteq r.stored /\ Closed(r.stored)

LEMMA ReceiveBlockFact ==
  ASSUME NEW r, GoodReceipt(r), NEW b \in Vertices
  PROVE  GoodReceipt(Tx!ReceiveBlock(r, b))
<1>1. PICK st : st = r.stored
  OBVIOUS
<1>2. r \in [stored : {st}, partial : Seq(Vertices)] /\ stored \subseteq st /\ Closed(st)
  BY <1>1 DEF GoodReceipt
<1>3. CASE b \in st
  BY <1>1, <1>3 DEF Tx!ReceiveBlock
<1>4. CASE b \notin st /\ dag.deps[b] \subseteq st
  <2>1. PICK new : new = st \cup {b}
    OBVIOUS
  <2>2. stored \subseteq new /\ Closed(new)
    BY <1>2, <1>4, <2>1 DEF Closed, Needs
  <2>3. PICK d : d = [r EXCEPT !.stored = new]
    OBVIOUS
  <2>4. d \in [stored : {new}, partial : Seq(Vertices)] /\ d.stored = new
    BY <1>2, <2>3
  <2>5. Tx!ReceiveBlock(r, b) = d
    BY <1>1, <1>4, <2>1, <2>3 DEF Tx!ReceiveBlock
  <2> QED BY <2>2, <2>4, <2>5 DEF GoodReceipt
<1>5. CASE b \notin st /\ ~(dag.deps[b] \subseteq st)
  <2>1. r.partial \in Seq(Vertices)
    BY <1>2
  <2>2. Append(r.partial, b) \in Seq(Vertices)
    BY <2>1
  <2>3. PICK p \in Seq(Vertices) : p = Append(r.partial, b)
    BY <2>2
  <2>4. PICK d : d = [r EXCEPT !.partial = p]
    OBVIOUS
  <2>5. d \in [stored : {st}, partial : Seq(Vertices)] /\ d.stored = st
    BY <1>2, <2>4
  <2>6. Tx!ReceiveBlock(r, b) = d
    BY <1>1, <1>5, <2>3, <2>4 DEF Tx!ReceiveBlock
  <2> QED BY <1>2, <2>5, <2>6 DEF GoodReceipt
<1> QED BY <1>3, <1>4, <1>5

LEMMA ReceiveBlocksFact ==
  ASSUME StorageIsClosed, NEW blocks \in Seq(Vertices)
  PROVE  GoodReceipt(Tx!ReceiveBlocks(blocks))
<1> DEFINE n == Len(blocks)
           after == CHOOSE g : IsReceipt(g, n, blocks)
<1>0. n \in Nat
  OBVIOUS
<1>1. Tx!ReceiveBlocks(blocks) = after[n]
  BY DEF Tx!ReceiveBlocks, IsReceipt
<1>2. IsReceipt(after, n, blocks)
  BY <1>0, ReceiptExists
<1>3. PICK f : f = after
  OBVIOUS
<1> HIDE DEF after
<1>4. \A i \in 0 .. n : f[i] = IF i = 0 THEN [stored |-> stored, partial |-> <<>>]
                               ELSE Tx!ReceiveBlock(f[i - 1], blocks[i])
  BY <1>2, <1>3 DEF IsReceipt
<1> DEFINE S == {i \in 0 .. n : ~ GoodReceipt(f[i])}
<1>5. GoodReceipt([stored |-> stored, partial |-> <<>>])
  <2>1. <<>> \in Seq(Vertices)
    OBVIOUS
  <2>2. PICK rr : rr = [stored |-> stored, partial |-> <<>>]
    OBVIOUS
  <2>3. rr.stored = stored /\ rr \in [stored : {stored}, partial : Seq(Vertices)]
    BY <2>1, <2>2
  <2> QED BY <2>2, <2>3 DEF GoodReceipt, Closed, StorageIsClosed, Needs
<1>6. ASSUME S # {} PROVE FALSE
  <2>1. S \subseteq Nat
    OBVIOUS
  <2>2. PICK i \in S : \A j \in S : i <= j
    BY <1>6, <2>1, Least
  <2>3. i \in 0 .. n /\ ~ GoodReceipt(f[i])
    OBVIOUS
  <2>4. i # 0
    BY <1>4, <1>5, <2>3
  <2>5. i - 1 \in 0 .. n /\ i \in 1 .. n /\ i - 1 \notin S
    BY <1>0, <2>2, <2>3, <2>4
  <2>6. GoodReceipt(f[i - 1]) /\ blocks[i] \in Vertices
    BY <2>5
  <2> QED BY <1>4, <2>3, <2>4, <2>6, ReceiveBlockFact
<1>7. n \in 0 .. n /\ n \notin S
  BY <1>0, <1>6
<1> QED
  BY <1>1, <1>3, <1>7

(* The DAG is fixed, so the next state may be judged by it.                *)
LEMMA TxPrime ==
  ASSUME TxInv, dag' = dag, chain' \in Seq(DOMAIN dag.owns), toClient' \in Seq(TxMessages),
         SafeClient(client', stored'), \A c \in orphans' : SafeClient(c, stored') /\ c.busy,
         Closed(stored')
  PROVE  TxInv'
<1>1. Vertices' = Vertices /\ \A v : Needs(v)' = Needs(v)
  BY DEF Vertices, Needs
<1>2. TxClients' = TxClients /\ TxMessages' = TxMessages
  BY <1>1 DEF TxClients, TxMessages, TxCodes
<1>3. StorageIsClosed'
  BY DEF StorageIsClosed, Closed, Needs
<1>4. SafeClient(client, stored)'
  BY <1>1, <1>2 DEF SafeClient, Gathers, Adds
<1>5. \A c \in orphans' : SafeClient(c, stored)'
  BY <1>1, <1>2 DEF SafeClient, Gathers, Adds
<1> QED
  BY <1>2, <1>3, <1>4, <1>5 DEF TxInv

(* The end of a stream, and a failure, only say so.                        *)
LEMMA EndFact ==
  ASSUME SafeClient(client, stored), NEW c, SafeClient(c, stored), Tx!CheckEnd(c) \/ Tx!Fails(c)
  PROVE  SafeClient(client', stored)
<1>0. c \in TxClients
  BY DEF SafeClient
<1>1. PICK b \in BOOLEAN : b = (c.torn \/ c.busy)
  OBVIOUS
<1>2. PICK d : d = [c EXCEPT !.fired = TRUE]
  OBVIOUS
<1>3. PICK e : e = [c EXCEPT !.fired = TRUE, !.exists = FALSE]
  OBVIOUS
<1>4. PICK f : f = [c EXCEPT !.received = 0, !.code = "", !.torn = b]
  OBVIOUS
<1>5. SafeClient(d, stored)
  BY <1>0, <1>2, SafeSame DEF TxClients
<1>6. SafeClient(e, stored)
  BY <1>0, <1>3, SafeSame DEF TxClients
<1>7. SafeClient(f, stored)
  BY <1>0, <1>4, SafeSame DEF TxClients
<1>8. client' \in {client, c, d, e, f}
  BY <1>1, <1>2, <1>3, <1>4 DEF Tx!CheckEnd, Tx!Fails, Tx!OnStreamEnd
<1> QED
  BY <1>5, <1>6, <1>7, <1>8

LEMMA HandleTransactionFact ==
  ASSUME SafeClient(client, stored), NEW m \in TxMessages, Tx!HandleTransaction(m)
  PROVE  SafeClient(client', stored)
<1>0. client \in TxClients /\ m.tx \in Vertices
  <2>1. m.type = "TRANSACTION"
    BY DEF Tx!HandleTransaction
  <2> QED BY <2>1 DEF SafeClient, TxMessages
<1>1. client.received + 1 \in Nat /\ client.queue \in Seq(Vertices)
  <2>1. client.received \in Nat
    BY <1>0 DEF TxClients
  <2>2. client.queue \in Seq(Vertices)
    BY <1>0 DEF TxClients
  <2> QED BY <2>1, <2>2
<1>2. PICK q \in Seq(Vertices) : q = Append(client.queue, m.tx)
  <2>1. Append(client.queue, m.tx) \in Seq(Vertices)
    BY <1>0, <1>1
  <2> QED BY <2>1
<1>3. PICK b \in BOOLEAN : b = (client.scheduled \/ ~client.busy)
  OBVIOUS
<1>4. PICK d : d = [client EXCEPT !.received = client.received + 1]
  OBVIOUS
<1>5. PICK e : e = [client EXCEPT !.received = client.received + 1, !.queue = q,
                                  !.scheduled = b]
  OBVIOUS
<1>6. SafeClient(d, stored)
  BY <1>0, <1>1, <1>4, SafeSame DEF TxClients
<1>7. SafeClient(e, stored)
  BY <1>0, <1>1, <1>5, SafeSame DEF TxClients
<1>8. client' \in {client, e} \/ Tx!Fails(d)
  BY <1>2, <1>3, <1>4, <1>5 DEF Tx!HandleTransaction
<1> QED
  BY <1>6, <1>7, <1>8, EndFact

LEMMA HandleTransactionsEndFact ==
  ASSUME SafeClient(client, stored), NEW m \in TxMessages, Tx!HandleTransactionsEnd(m)
  PROVE  SafeClient(client', stored)
<1>0. client \in TxClients /\ m.code \in TxCodes
  <2>1. m.type = "TRANSACTIONS-END"
    BY DEF Tx!HandleTransactionsEnd
  <2> QED BY <2>1 DEF SafeClient, TxMessages
<1>1. PICK d : d = [client EXCEPT !.code = m.code]
  OBVIOUS
<1>2. SafeClient(d, stored)
  BY <1>0, <1>1, SafeSame DEF TxClients
<1>3. client' = client \/ Tx!CheckEnd(d)
  BY <1>1 DEF Tx!HandleTransactionsEnd
<1> QED
  BY <1>2, <1>3, EndFact

(* A client that is new, for the blocks that could not be added.           *)
LEMMA NewClientFact ==
  ASSUME Tx!TxAssumption, dag \in Dags, NEW blocks \in Seq(Vertices), NEW st
  PROVE  SafeClient(Tx!NewClient(blocks, st), st) /\ SafeClient(Tx!NoClient, st)
<1>1. {} \in SUBSET Vertices /\ <<>> \in Seq(Vertices) /\ "" \in TxCodes \cup {""} /\ Len(<<>>) = 0
  OBVIOUS
<1>2. PICK z : z = Tx!NoClient
  OBVIOUS
<1>3. z \in TxClients
  BY <1>1, <1>2 DEF Tx!NoClient, TxClients
<1>4. /\ z.idx = 1 /\ z.blocks = <<>> /\ ~z.busy /\ z.waiting = {} /\ z.db = {} /\ z.existing = {}
  BY <1>2 DEF Tx!NoClient
<1>5. SafeClient(z, st)
  BY <1>1, <1>3, <1>4 DEF SafeClient
<1>6. PICK d : d = [z EXCEPT !.exists = TRUE, !.fired = FALSE, !.blocks = blocks]
  OBVIOUS
<1>7. d \in TxClients /\ ~d.busy /\ d.waiting = {} /\ d.db = {} /\ d.existing = {}
  BY <1>3, <1>4, <1>6 DEF TxClients
<1>8. SafeClient(Tx!PrepareBlock(d, 1, st), st)
  BY <1>7, PrepareFact
<1>9. Tx!NewClient(blocks, st) = Tx!PrepareBlock(d, 1, st)
  BY <1>2, <1>6 DEF Tx!NewClient
<1> QED
  BY <1>2, <1>5, <1>8, <1>9

LEMMA ClientReceiveStep ==
  ASSUME Tx!TxAssumption, TxInv, Tx!ClientReceive
  PROVE  TxInv'
<1>1. toClient \in Seq(TxMessages) /\ toClient # <<>>
  BY DEF TxInv, Tx!ClientReceive
<1>2. PICK m \in TxMessages : m = Head(toClient)
  BY <1>1
<1>3. toClient' \in Seq(TxMessages)
  BY <1>1 DEF Tx!ClientReceive
<1>4. dag' = dag /\ chain' = chain
  BY DEF Tx!ClientReceive, Tx!peerVars
<1>5. dag \in Dags /\ chain' \in Seq(DOMAIN dag.owns) /\ SafeClient(client, stored)
      /\ (\A c \in orphans : SafeClient(c, stored) /\ c.busy) /\ Closed(stored)
      /\ StorageIsClosed
  BY <1>4 DEF TxInv, Closed, StorageIsClosed, Needs
<1>6. CASE /\ Tx!HandleTransaction(m) \/ Tx!HandleTransactionsEnd(m)
           /\ UNCHANGED orphans
  <2>1. stored' = stored
    BY <1>6 DEF Tx!HandleTransaction, Tx!HandleTransactionsEnd
  <2>2. SafeClient(client', stored)
    BY <1>5, <1>6, HandleTransactionFact, HandleTransactionsEndFact
  <2> QED BY <1>3, <1>4, <1>5, <1>6, <2>1, <2>2, TxPrime
<1>7. CASE Tx!HandleBlocks(m)
  <2>1. m.blocks \in Seq(Vertices)
    <3>1. m.type = "BLOCKS"
      BY <1>7 DEF Tx!HandleBlocks
    <3> QED BY <3>1 DEF TxMessages
  <2>2. PICK r : r = Tx!ReceiveBlocks(m.blocks) /\ GoodReceipt(r)
    BY <1>5, <2>1, ReceiveBlocksFact
  <2>3. PICK st : st = r.stored /\ stored \subseteq st /\ Closed(st)
    BY <2>2 DEF GoodReceipt
  <2>4. PICK q \in Seq(Vertices) : q = r.partial
    BY <2>2 DEF GoodReceipt
  <2>5. stored' = st
    BY <1>7, <2>2, <2>3 DEF Tx!HandleBlocks
  <2>6. client' = Tx!NoClient \/ client' = Tx!NewClient(q, st)
    BY <1>7, <2>2, <2>3, <2>4 DEF Tx!HandleBlocks
  <2>7. SafeClient(client', st)
    BY <1>5, <2>6, NewClientFact
  <2>8. \A c \in orphans' : c \in orphans \/ (c = client /\ client.busy)
    BY <1>7 DEF Tx!HandleBlocks
  <2>9. \A c \in orphans' : SafeClient(c, st) /\ c.busy
    BY <1>5, <2>3, <2>8, SafeGrows
  <2> QED BY <1>3, <1>4, <1>5, <2>3, <2>5, <2>7, <2>9, TxPrime
<1> QED
  BY <1>2, <1>6, <1>7 DEF Tx!ClientReceive

(* Steps that leave the client and its storage alone.                      *)
LEMMA TxQuietStep ==
  ASSUME TxInv, dag' = dag, chain' \in Seq(DOMAIN dag.owns), toClient' \in Seq(TxMessages),
         UNCHANGED <<stored, client, orphans>>
  PROVE  TxInv'
<1>1. SafeClient(client, stored) /\ (\A c \in orphans : SafeClient(c, stored) /\ c.busy)
      /\ Closed(stored)
  BY DEF TxInv, StorageIsClosed, Closed, Needs
<1>2. client' = client /\ stored' = stored /\ orphans' = orphans
  OBVIOUS
<1>3. SafeClient(client', stored') /\ (\A c \in orphans' : SafeClient(c, stored') /\ c.busy)
      /\ Closed(stored')
  BY <1>1, <1>2
<1> QED
  BY <1>3, TxPrime

LEMMA EndMessage ==
  ASSUME NEW code \in TxCodes
  PROVE  Tx!End(code) \in TxMessages
BY DEF Tx!End, TxMessages

LEMMA AppendMessage ==
  ASSUME NEW q \in Seq(TxMessages), NEW m \in TxMessages, NEW l \in TxMessages
  PROVE  /\ Append(q, m) \in Seq(TxMessages)
         /\ q \o <<m>> \in Seq(TxMessages)
         /\ q \o <<m, l>> \in Seq(TxMessages)
<1>1. <<m>> \in Seq(TxMessages) /\ <<m, l>> \in Seq(TxMessages)
  OBVIOUS
<1> QED BY <1>1

(* The server sends transactions of the DAG.                               *)
LEMMA ServerSendStep ==
  ASSUME Tx!TxAssumption, TxInv, Tx!ServerSend
  PROVE  TxInv'
<1> DEFINE s == Tx!Advance(server)
           t == Head(s.visit)
           sent == [type |-> "TRANSACTION", tx |-> t]
<1>1. dag \in Dags /\ chain \in Seq(DOMAIN dag.owns) /\ toClient \in Seq(TxMessages)
  BY DEF TxInv
<1>2. dag' = dag /\ chain' = chain /\ UNCHANGED <<stored, client, orphans>>
  BY DEF Tx!ServerSend
<1>3. PICK k \in TxCodes : k = IF s.cur # s.last /\ Tx!Voided(s.cur)
                               THEN "STREAM_BECAME_VOIDED" ELSE "END_HASH_REACHED"
  BY DEF TxCodes
<1>4. /\ Tx!End(k) \in TxMessages /\ Tx!End("TX_NOT_CONFIRMED") \in TxMessages
      /\ Tx!End("LIMIT_EXCEEDED") \in TxMessages
  BY EndMessage DEF TxCodes
<1>5. ASSUME Tx!Confirmed(t) PROVE sent \in TxMessages
  <2>1. PICK b \in Tx!ToSet(chain) : t \in dag.owns[b]
    BY <1>5 DEF Tx!Confirmed
  <2>2. b \in DOMAIN dag.owns
    BY <1>1 DEF Tx!ToSet
  <2>3. t \in Vertices
    BY <1>1, <2>1, <2>2 DEF Tx!TxAssumption, Tx!WellFormed, Vertices
  <2> HIDE DEF t
  <2> QED BY <2>3 DEF TxMessages
<1>6. \/ toClient' = toClient
      \/ toClient' = toClient \o <<Tx!End(k)>>
      \/ toClient' = toClient \o <<Tx!End("TX_NOT_CONFIRMED")>>
      \/ Tx!Confirmed(t) /\ toClient' = toClient \o <<sent, Tx!End("LIMIT_EXCEEDED")>>
      \/ Tx!Confirmed(t) /\ toClient' = Append(toClient, sent)
  BY <1>3 DEF Tx!ServerSend, Tx!StopServer
<1> HIDE DEF sent
<1>7. toClient' \in Seq(TxMessages)
  BY <1>1, <1>4, <1>5, <1>6, AppendMessage
<1> QED
  BY <1>1, <1>2, <1>7, TxQuietStep

LEMMA ServerReceiveStep ==
  ASSUME Tx!TxAssumption, TxInv, Tx!ServerReceive
  PROVE  TxInv'
<1> DEFINE bs == [type |-> "BLOCKS", blocks |-> chain]
<1>1. dag \in Dags /\ chain \in Seq(DOMAIN dag.owns) /\ toClient \in Seq(TxMessages)
  BY DEF TxInv
<1>2. dag' = dag /\ chain' = chain /\ UNCHANGED <<stored, client, orphans>>
  BY DEF Tx!ServerReceive
<1>3. /\ Tx!End("INVALID_PARAMS") \in TxMessages /\ Tx!End("PER_REQUEST") \in TxMessages
  BY EndMessage DEF TxCodes
<1>4. bs \in TxMessages
  <2>1. DOMAIN dag.owns \subseteq Vertices
    BY <1>1 DEF Tx!TxAssumption, Tx!WellFormed, Vertices
  <2>2. chain \in Seq(Vertices)
    BY <1>1, <2>1
  <2> QED BY <2>2 DEF TxMessages
<1>5. \/ toClient' = toClient
      \/ toClient' = Append(toClient, Tx!End("INVALID_PARAMS"))
      \/ toClient' = toClient \o <<Tx!End("PER_REQUEST")>>
      \/ toClient' = Append(toClient, bs)
  BY DEF Tx!ServerReceive, Tx!HandleGetTransactions, Tx!HandleStop, Tx!HandleGetNextBlocks,
         Tx!StopServer
<1> HIDE DEF bs
<1>6. toClient' \in Seq(TxMessages)
  BY <1>1, <1>3, <1>4, <1>5, AppendMessage
<1> QED
  BY <1>1, <1>2, <1>6, TxQuietStep

LEMMA ReorgStep ==
  ASSUME Tx!TxAssumption, TxInv, Tx!Reorg \/ Tx!RunSync
  PROVE  TxInv'
<1>1. dag \in Dags /\ chain \in Seq(DOMAIN dag.owns) /\ toClient \in Seq(TxMessages)
      /\ dag.after \in Seq(DOMAIN dag.owns)
  BY DEF TxInv, Tx!TxAssumption, Tx!WellFormed
<1>2. dag' = dag /\ toClient' = toClient /\ UNCHANGED <<stored, client, orphans>>
      /\ chain' \in {chain, dag.after}
  BY DEF Tx!Reorg, Tx!RunSync, Tx!peerVars, Tx!wire
<1> QED
  BY <1>1, <1>2, TxQuietStep

(* Another peer adds a vertex whose dependencies are stored.               *)
LEMMA OtherPeerStep ==
  ASSUME TxInv, Tx!OtherPeerAdds
  PROVE  TxInv'
<1>1. PICK v : dag.deps[v] \subseteq stored /\ stored' = stored \cup {v}
  BY DEF Tx!OtherPeerAdds
<1>2. dag' = dag /\ chain' = chain /\ toClient' = toClient /\ client' = client
      /\ orphans' = orphans
  BY DEF Tx!OtherPeerAdds, Tx!peerVars, Tx!wire
<1>3. stored \subseteq stored' /\ Closed(stored')
  BY <1>1 DEF TxInv, StorageIsClosed, Closed, Needs
<1>4. PICK st : st = stored'
  OBVIOUS
<1>5. SafeClient(client, st) /\ \A c \in orphans : SafeClient(c, st) /\ c.busy
  BY <1>3, <1>4, SafeGrows DEF TxInv
<1>6. chain \in Seq(DOMAIN dag.owns) /\ toClient \in Seq(TxMessages)
  BY DEF TxInv
<1> QED
  BY <1>2, <1>3, <1>4, <1>5, <1>6, TxPrime

(* on_new_block resumes, for the client or for one that was replaced.      *)
LEMMA ContinueStep ==
  ASSUME Tx!TxAssumption, TxInv, Tx!ContinueBlock \/ Tx!ContinueOrphan
  PROVE  TxInv'
<1>1. dag' = dag /\ chain' = chain /\ toClient' = toClient
  BY DEF Tx!ContinueBlock, Tx!ContinueOrphan, Tx!peerVars, Tx!wire
<1>2. dag \in Dags /\ chain \in Seq(DOMAIN dag.owns) /\ toClient \in Seq(TxMessages)
      /\ StorageIsClosed /\ SafeClient(client, stored)
      /\ \A c \in orphans : SafeClient(c, stored) /\ c.busy
  BY DEF TxInv
<1>3. ASSUME NEW c, SafeClient(c, stored), c.busy
      PROVE  /\ stored \subseteq Tx!AddNext(c).stored
             /\ Closed(Tx!AddNext(c).stored)
             /\ SafeClient(Tx!AddNext(c).client, Tx!AddNext(c).stored)
  <2>1. c \in TxClients /\ c.idx \in Nat
    BY <1>3 DEF SafeClient, TxClients
  <2>2. Len(c.blocks) \in Nat
    BY <2>1, BlocksType
  <2>3. c.idx >= 1 /\ c.idx <= Len(c.blocks) /\ Adds(c, stored) /\ c.existing \subseteq stored \cup c.db
    BY <1>3, <2>1, <2>2 DEF SafeClient
  <2> QED BY <1>2, <2>1, <2>3, AddNextFact
<1>4. CASE Tx!ContinueBlock
  <2>1. PICK r : r = Tx!AddNext(client)
    OBVIOUS
  <2>2. stored' = r.stored /\ client' = r.client /\ orphans' = orphans
    BY <1>4, <2>1 DEF Tx!ContinueBlock
  <2>3. stored \subseteq r.stored /\ Closed(r.stored) /\ SafeClient(r.client, r.stored)
    BY <1>2, <1>3, <1>4, <2>1 DEF Tx!ContinueBlock
  <2>4. \A c \in orphans : SafeClient(c, r.stored) /\ c.busy
    BY <1>2, <2>3, SafeGrows
  <2> QED BY <1>1, <1>2, <2>2, <2>3, <2>4, TxPrime
<1>5. CASE Tx!ContinueOrphan
  <2>1. PICK o \in orphans :
          /\ stored' = Tx!AddNext(o).stored
          /\ orphans' = (orphans \ {o})
                \cup (IF Tx!AddNext(o).client.busy THEN {Tx!AddNext(o).client} ELSE {})
    BY <1>5 DEF Tx!ContinueOrphan
  <2>2. PICK r : r = Tx!AddNext(o)
    OBVIOUS
  <2>3. stored \subseteq r.stored /\ Closed(r.stored) /\ SafeClient(r.client, r.stored)
    BY <1>2, <1>3, <2>2
  <2>4. \A c \in orphans : SafeClient(c, r.stored) /\ c.busy
    BY <1>2, <2>3, SafeGrows
  <2>5. SafeClient(client, r.stored)
    BY <1>2, <2>3, SafeGrows
  <2>6. stored' = r.stored /\ client' = client
        /\ \A c \in orphans' : c \in orphans \/ (c = r.client /\ c.busy)
    BY <1>5, <2>1, <2>2 DEF Tx!ContinueOrphan
  <2>7. \A c \in orphans' : SafeClient(c, r.stored) /\ c.busy
    BY <2>3, <2>4, <2>6
  <2> QED BY <1>1, <1>2, <2>3, <2>5, <2>6, <2>7, TxPrime
<1> QED BY <1>4, <1>5

(* A transaction the client did not wait for, which it has or has asked    *)
(* for: what it needs is waited for.                                       *)
LEMMA RepeatedFact ==
  ASSUME Tx!TxAssumption, TxInv, NEW c, SafeClient(c, stored), ~c.busy,
         NEW t \in c.db \cup c.existing
  PROVE  SafeClient(Tx!UpdateDependencies(c, t), stored)
<1>0. dag \in Dags /\ StorageIsClosed /\ c \in TxClients
  BY DEF TxInv, SafeClient
<1>1. t \in Vertices
  BY <1>0 DEF TxClients
<1>2. PICK d : d = Tx!UpdateDependencies(c, t)
  OBVIOUS
<1>3. /\ d \in TxClients
      /\ d.waiting = c.waiting \cup (Needs(t) \ (stored \cup c.db))
      /\ d.existing = c.existing \cup (Needs(t) \cap (stored \cup c.db))
      /\ d.blocks = c.blocks /\ d.idx = c.idx /\ d.db = c.db /\ d.busy = c.busy
  BY <1>0, <1>1, <1>2, UpdateDependenciesFact
<1>4. c.idx > Len(c.blocks) => Needs(t) \subseteq stored
  BY <1>0 DEF SafeClient, StorageIsClosed, Needs
<1>5. c.idx <= Len(c.blocks) => Gathers(d, stored)
  BY <1>3 DEF SafeClient, Gathers
<1>6. c.idx > Len(c.blocks) => d.waiting = {} /\ d.db \subseteq stored
  BY <1>3, <1>4 DEF SafeClient
<1>7. d.idx >= 1 /\ d.existing \subseteq stored \cup d.db /\ ~d.busy
  BY <1>3 DEF SafeClient
<1>8. SafeClient(d, stored)
  BY <1>3, <1>5, <1>6, <1>7 DEF SafeClient
<1> QED
  BY <1>2, <1>8

(* A transaction the client waited for joins the buffer.                   *)
Joined(c, t) ==
    [Tx!UpdateDependencies([c EXCEPT !.waiting = c.waiting \ {t}], t)
        EXCEPT !.db = c.db \cup {t}]

(* A client that is about to add its block.                                *)
CanAdd(f) ==
    /\ f \in TxClients /\ f.idx >= 1 /\ f.idx <= Len(f.blocks)
    /\ Adds(f, stored) /\ f.existing \subseteq stored \cup f.db

LEMMA AwaitedFact ==
  ASSUME Tx!TxAssumption, TxInv, NEW c, SafeClient(c, stored), ~c.busy, NEW t \in c.waiting
  PROVE  /\ SafeClient(Joined(c, t), stored)
         /\ Joined(c, t).waiting = {} => CanAdd([Joined(c, t) EXCEPT !.todo = Joined(c, t).db])
<1> DEFINE d == Joined(c, t)
<1>0. dag \in Dags /\ StorageIsClosed /\ c \in TxClients /\ c.idx \in Nat /\ Len(c.blocks) \in Nat
  BY BlocksType DEF TxInv, SafeClient, TxClients
<1>1. t \in Vertices
  BY <1>0 DEF TxClients
<1>2. PICK w \in SUBSET Vertices : w = c.waiting \ {t}
  BY <1>0 DEF TxClients
<1>3. PICK a : a = [c EXCEPT !.waiting = w]
  OBVIOUS
<1>4. /\ a \in TxClients /\ a.waiting = w /\ a.blocks = c.blocks /\ a.idx = c.idx
      /\ a.db = c.db /\ a.existing = c.existing /\ a.busy = c.busy
  BY <1>0, <1>3 DEF TxClients
<1>5. PICK b : b = Tx!UpdateDependencies(a, t)
  OBVIOUS
<1>6. /\ b \in TxClients
      /\ b.waiting = w \cup (Needs(t) \ (stored \cup c.db))
      /\ b.existing = c.existing \cup (Needs(t) \cap (stored \cup c.db))
      /\ b.blocks = c.blocks /\ b.idx = c.idx /\ b.db = c.db /\ b.busy = c.busy
  BY <1>0, <1>1, <1>4, <1>5, UpdateDependenciesFact
<1>7. PICK e \in SUBSET Vertices : e = c.db \cup {t}
  BY <1>0, <1>1 DEF TxClients
<1>8. d = [b EXCEPT !.db = e]
  BY <1>2, <1>3, <1>5, <1>7 DEF Joined
<1> HIDE DEF d
<1>9. /\ d \in TxClients /\ d.db = e /\ d.waiting = b.waiting /\ d.existing = b.existing
      /\ d.blocks = c.blocks /\ d.idx = c.idx /\ d.busy = c.busy
  BY <1>6, <1>8 DEF TxClients
<1>10. c.idx <= Len(c.blocks) /\ Gathers(c, stored) /\ c.idx >= 1
  BY <1>0 DEF SafeClient
<1>11. Gathers(d, stored)
  <2>1. stored \cup d.db \cup d.waiting = stored \cup c.db \cup c.waiting \cup Needs(t)
    BY <1>2, <1>6, <1>7, <1>9
  <2> QED BY <1>7, <1>9, <1>10, <2>1 DEF Gathers
<1>12. d.existing \subseteq stored \cup d.db
  BY <1>6, <1>7, <1>9 DEF SafeClient
<1>13. SafeClient(d, stored)
  BY <1>0, <1>9, <1>10, <1>11, <1>12 DEF SafeClient
<1>14. ASSUME d.waiting = {}
       PROVE  CanAdd([d EXCEPT !.todo = d.db])
  <2>1. PICK f : f = [d EXCEPT !.todo = e]
    OBVIOUS
  <2>2. /\ f \in TxClients /\ f.todo = e /\ f.db = d.db /\ f.waiting = d.waiting
        /\ f.existing = d.existing /\ f.blocks = d.blocks /\ f.idx = d.idx
    BY <1>9, <2>1 DEF TxClients
  <2>3. Adds(f, stored)
    BY <1>9, <1>11, <1>14, <2>2 DEF Gathers, Adds
  <2>4. CanAdd(f)
    BY <1>9, <1>10, <1>12, <2>2, <2>3 DEF CanAdd
  <2> QED BY <1>9, <2>1, <2>4
<1> QED
  BY <1>13, <1>14 DEF d

LEMMA ProcessQueueStep ==
  ASSUME Tx!TxAssumption, TxInv, Tx!ProcessQueue
  PROVE  TxInv'
<1>1. dag' = dag /\ chain' = chain /\ toClient' = toClient /\ orphans' = orphans
  BY DEF Tx!ProcessQueue, Tx!peerVars
<1>2. dag \in Dags /\ chain \in Seq(DOMAIN dag.owns) /\ toClient \in Seq(TxMessages)
      /\ StorageIsClosed /\ Closed(stored) /\ SafeClient(client, stored) /\ client \in TxClients
      /\ ~client.busy
  BY DEF TxInv, Tx!ProcessQueue, StorageIsClosed, Closed, Needs, SafeClient
<1>3. \A c \in orphans : SafeClient(c, stored) /\ c.busy
  BY DEF TxInv
<1>4. ASSUME stored' = stored, SafeClient(client', stored) PROVE TxInv'
  BY <1>1, <1>2, <1>3, <1>4, TxPrime
<1>5. PICK idle : idle = [client EXCEPT !.scheduled = FALSE]
  OBVIOUS
<1>6. SafeClient(idle, stored)
  BY <1>2, <1>5, SafeSame DEF TxClients
<1>7. CASE client.fired
  BY <1>4, <1>5, <1>6, <1>7 DEF Tx!ProcessQueue
<1>8. CASE ~client.fired /\ client.queue = <<>>
  <2>1. Tx!CheckEnd(idle) /\ stored' = stored
    BY <1>5, <1>8 DEF Tx!ProcessQueue
  <2> QED BY <1>2, <1>4, <1>6, <2>1, EndFact
<1>9. CASE ~client.fired /\ client.queue # <<>>
  <2>0. client.queue \in Seq(Vertices)
    BY <1>2 DEF TxClients
  <2>a. Tail(client.queue) \in Seq(Vertices)
    BY <1>9, <2>0
  <2>1. PICK q \in Seq(Vertices) : q = Tail(client.queue)
    BY <2>a
  <2>2. PICK t \in Vertices : t = Head(client.queue)
    BY <1>9, <2>0
  <2>3. PICK c : c = [client EXCEPT !.queue = q]
    OBVIOUS
  <2>4. SafeClient(c, stored) /\ ~c.busy
    BY <1>2, <2>3, SafeSame DEF TxClients
  <2>5. CASE t \notin c.waiting
    <3>1. stored' = stored /\ \/ /\ t \in c.db \cup c.existing
                                 /\ client' = Tx!UpdateDependencies(c, t)
                              \/ Tx!Fails(c)
      BY <1>9, <2>1, <2>2, <2>3, <2>5 DEF Tx!ProcessQueue
    <3> QED BY <1>2, <1>4, <2>4, <3>1, RepeatedFact, EndFact
  <2>6. CASE t \in c.waiting
    <3>1. PICK d : d = Joined(c, t)
      OBVIOUS
    <3>2. [Tx!UpdateDependencies([c EXCEPT !.waiting = @ \ {t}], t) EXCEPT !.db = @ \cup {t}] = d
      <4>1. c \in TxClients
        BY <2>4 DEF SafeClient
      <4>2. PICK w \in SUBSET Vertices : w = c.waiting \ {t}
        BY <4>1 DEF TxClients
      <4>3. PICK a : a = [c EXCEPT !.waiting = w]
        OBVIOUS
      <4>4. a \in TxClients /\ a.db = c.db
        BY <4>1, <4>3 DEF TxClients
      <4>5. Tx!UpdateDependencies(a, t).db = c.db
        BY <1>2, <4>4, UpdateDependenciesFact
      <4> QED BY <3>1, <4>2, <4>3, <4>5 DEF Joined
    <3>3. /\ SafeClient(d, stored)
          /\ d.waiting = {} => CanAdd([d EXCEPT !.todo = d.db])
      BY <2>4, <2>6, <3>1, AwaitedFact
    <3>4. CASE d.waiting # {}
      <4>1. client' = d /\ stored' = stored
        BY <1>9, <2>1, <2>2, <2>3, <2>6, <3>2, <3>4 DEF Tx!ProcessQueue
      <4> QED BY <1>4, <3>3, <4>1
    <3>5. CASE d.waiting = {}
      <4>1. PICK f : f = [d EXCEPT !.todo = d.db]
        OBVIOUS
      <4>2. f \in TxClients /\ f.idx >= 1 /\ f.idx <= Len(f.blocks) /\ Adds(f, stored)
            /\ f.existing \subseteq stored \cup f.db
        BY <3>3, <3>5, <4>1 DEF CanAdd
      <4>3. PICK r : r = Tx!AddNext(f)
        OBVIOUS
      <4>4. stored \subseteq r.stored /\ Closed(r.stored) /\ SafeClient(r.client, r.stored)
        BY <1>2, <4>2, <4>3, AddNextFact
      <4>5. stored' = r.stored /\ client' = r.client
        BY <1>9, <2>1, <2>2, <2>3, <2>6, <3>2, <3>5, <4>1, <4>3 DEF Tx!ProcessQueue
      <4>6. \A x \in orphans : SafeClient(x, r.stored) /\ x.busy
        BY <1>3, <4>4, SafeGrows
      <4> QED BY <1>1, <1>2, <4>4, <4>5, <4>6, TxPrime
    <3> QED BY <3>4, <3>5
  <2> QED BY <2>5, <2>6
<1> QED BY <1>7, <1>8, <1>9

LEMMA TxInitHolds ==
  ASSUME Tx!TxAssumption, Tx!Init
  PROVE  TxInv
<1>1. dag \in Dags /\ chain = dag.before
  BY DEF Tx!Init
<1>2. chain \in Seq(DOMAIN dag.owns)
  BY <1>1 DEF Tx!TxAssumption, Tx!WellFormed
<1>3. <<>> \in Seq(TxMessages) /\ <<>> \in Seq(Vertices)
  OBVIOUS
<1>4. SafeClient(Tx!NoClient, stored)
  BY <1>1, <1>3, NewClientFact
<1> QED
  BY <1>1, <1>2, <1>3, <1>4 DEF Tx!Init, TxInv, StorageIsClosed

LEMMA TxNextHolds ==
  ASSUME Tx!TxAssumption, TxInv, [Tx!Next]_(Tx!vars)
  PROVE  TxInv'
<1>1. CASE UNCHANGED Tx!vars
  <2>1. dag' = dag /\ chain' = chain /\ toClient' = toClient
        /\ UNCHANGED <<stored, client, orphans>>
    BY <1>1 DEF Tx!vars
  <2>2. chain \in Seq(DOMAIN dag.owns) /\ toClient \in Seq(TxMessages)
    BY DEF TxInv
  <2> QED BY <2>1, <2>2, TxQuietStep
<1>2. CASE Tx!Next
  BY <1>2, ServerSendStep, ServerReceiveStep, ReorgStep, ClientReceiveStep, ProcessQueueStep,
     ContinueStep, OtherPeerStep DEF Tx!Next
<1> QED BY <1>1, <1>2

(***************************************************************************)
(* The storage of a node that syncs is closed under dependencies, for any  *)
(* DAG whose timestamps increase along dependencies, any re-org of the     *)
(* peer, streaming limit and order of arrival, whatever other peers add    *)
(* meanwhile, with any number of replaced clients still adding a block.    *)
(***************************************************************************)
THEOREM StoredIsClosed ==
  ASSUME Tx!TxAssumption PROVE Tx!Spec => []StorageIsClosed
<1>1. Tx!Init => TxInv
  BY TxInitHolds
<1>2. TxInv /\ [Tx!Next]_(Tx!vars) => TxInv'
  BY TxNextHolds
<1>3. TxInv => StorageIsClosed
  BY DEF TxInv
<1> QED
  BY <1>1, <1>2, <1>3, PTL DEF Tx!Spec

-----------------------------------------------------------------------------
(* Connections: what a pool is and what its operations do.                 *)

PoolOver(Q) ==
    [max_connections : Q, connections : SUBSET Conns, handshaking : SUBSET Conns,
     connected : [Peers -> Conns \cup {None}], queue : Q, enabled : SUBSET Conns,
     always : Q, drops : SUBSET Conns]
IsPool(pl) == \E Q : pl \in PoolOver(Q)

(* The peers MAX_ENABLED_SYNC is about.                                    *)
Counted(pl) == {p \in Peers \ pl.always : pl.connected[p] \in pl.enabled}

(***************************************************************************)
(* connected_peers has a connection under the peer it leads to, after its  *)
(* handshake; syncs are only enabled then, and not on too many.            *)
(***************************************************************************)
SoundPool(n, pl) ==
    /\ \A q \in Peers : pl.connected[q] # None =>
          PeerOf(n, pl.connected[q]) = q /\ pl.connected[q] \notin pl.handshaking
    /\ pl.enabled \cap pl.handshaking = {}
    /\ Cardinality(Counted(pl)) <= MaxEnabledSync

(***************************************************************************)
(* What an operation on the connection c leaves to the other ones: a drop  *)
(* is scheduled for a connection that connected_peers no longer has.       *)
(***************************************************************************)
SparesOthers(c, pl, new) ==
    \A d \in Conns \ {c} :
        /\ d \in new.handshaking => d \in pl.handshaking
        /\ d \in new.enabled => d \in pl.enabled \/ \E q \in Peers : pl.connected[q] = d
        /\ d \in pl.drops => d \in new.drops
        /\ \A q \in Peers : /\ new.connected[q] = d => pl.connected[q] = d
                            /\ pl.connected[q] = d => new.connected[q] = d \/ d \in new.drops

LEMMA PoolParts ==
  ASSUME NEW pl, IsPool(pl)
  PROVE  /\ pl.connected \in [Peers -> Conns \cup {None}]
         /\ pl.handshaking \in SUBSET Conns /\ pl.enabled \in SUBSET Conns
         /\ pl.drops \in SUBSET Conns
BY DEF IsPool, PoolOver

(* Fewer peers that count are still not too many.                          *)
LEMMA FewerCounted ==
  ASSUME ConnectionsAssumption, NEW S, NEW T, T \subseteq Peers, S \subseteq T,
         Cardinality(T) <= MaxEnabledSync
  PROVE  Cardinality(S) <= MaxEnabledSync
<1>1. IsFiniteSet(Peers) /\ MaxEnabledSync \in Nat
  BY DEF ConnectionsAssumption
<1>2. IsFiniteSet(T)
  BY <1>1, FS_Subset
<1>3. IsFiniteSet(S) /\ Cardinality(S) <= Cardinality(T)
  BY <1>2, FS_Subset
<1>4. Cardinality(S) \in Nat /\ Cardinality(T) \in Nat
  BY <1>2, <1>3, FS_CardinalityType
<1> QED
  BY <1>1, <1>3, <1>4

LEMMA ConnectFact ==
  ASSUME ConnectionsAssumption, NEW n, NEW pl, IsPool(pl), SoundPool(n, pl), NEW c \in Conns,
         c \notin pl.enabled, \A q \in Peers : pl.connected[q] # c
  PROVE  /\ IsPool(OnPeerConnect(pl, c)) /\ SoundPool(n, OnPeerConnect(pl, c))
         /\ SparesOthers(c, pl, OnPeerConnect(pl, c))
         /\ OnPeerConnect(pl, c).connected = pl.connected
<1>1. PICK Q : pl \in PoolOver(Q)
  BY DEF IsPool
<1>2. PICK h \in SUBSET Conns : h = pl.handshaking \cup {c}
  BY <1>1 DEF PoolOver
<1>3. PICK k \in SUBSET Conns : k = pl.connections \cup {c}
  BY <1>1 DEF PoolOver
<1>4. PICK new : new = [pl EXCEPT !.connections = k, !.handshaking = h]
  OBVIOUS
<1>5. OnPeerConnect(pl, c) = new
  BY <1>2, <1>3, <1>4 DEF OnPeerConnect
<1>6. /\ new \in PoolOver(Q)
      /\ new.handshaking = h /\ new.connected = pl.connected /\ new.enabled = pl.enabled
      /\ new.always = pl.always /\ new.drops = pl.drops
  BY <1>1, <1>4 DEF PoolOver
<1>7. IsPool(new)
  BY <1>6 DEF IsPool
<1>8. Counted(new) = Counted(pl)
  BY <1>6 DEF Counted
<1>9. SoundPool(n, new)
  BY <1>2, <1>6, <1>8 DEF SoundPool
<1>10. SparesOthers(c, pl, new)
  BY <1>2, <1>6 DEF SparesOthers
<1> QED
  BY <1>5, <1>6, <1>7, <1>9, <1>10

LEMMA KeepParts ==
  ASSUME NEW n, NEW pl, IsPool(pl), NEW c \in Conns, PeerOf(n, c) \in Peers
  PROVE  /\ IsPool(Keep(n, pl, c))
         /\ Keep(n, pl, c).handshaking = pl.handshaking
         /\ Keep(n, pl, c).connected = [pl.connected EXCEPT ![PeerOf(n, c)] = c]
         /\ Keep(n, pl, c).always = pl.always /\ Keep(n, pl, c).drops = pl.drops
         /\ \/ Keep(n, pl, c).enabled = pl.enabled
            \/ /\ Keep(n, pl, c).enabled = pl.enabled \cup {c}
               /\ \/ Cardinality(ConnectedPeers(Keep(n, pl, c))) <= MaxEnabledSync
                  \/ PeerOf(n, c) \in pl.always
<1> DEFINE p == PeerOf(n, c)
           line == IF p \in ToSet(pl.queue) THEN pl.queue ELSE Append(pl.queue, p)
<1> HIDE DEF p
<1>1. PICK R : pl \in PoolOver(R)
  BY DEF IsPool
<1>2. PICK q : q = line
  OBVIOUS
<1>3. PICK Q : Q = R \cup {q}
  OBVIOUS
<1>4. /\ q \in Q
      /\ pl \in PoolOver(Q)
  BY <1>1, <1>3 DEF PoolOver
<1>5. PICK f \in [Peers -> Conns \cup {None}] : f = [pl.connected EXCEPT ![p] = c]
  BY <1>1 DEF PoolOver
<1>6. PICK e \in SUBSET Conns : e = pl.enabled \cup {c}
  BY <1>1 DEF PoolOver
<1>7. PICK sv : sv = [pl EXCEPT !.connected = f, !.queue = q]
  OBVIOUS
<1>8. /\ sv \in PoolOver(Q)
      /\ sv.handshaking = pl.handshaking /\ sv.connected = f /\ sv.always = pl.always
      /\ sv.drops = pl.drops /\ sv.enabled = pl.enabled
  BY <1>4, <1>7 DEF PoolOver
<1>9. PICK on : on = [sv EXCEPT !.enabled = e]
  OBVIOUS
<1>10. /\ on \in PoolOver(Q)
      /\ on.handshaking = pl.handshaking /\ on.connected = f /\ on.always = pl.always
      /\ on.drops = pl.drops /\ on.enabled = e
  BY <1>8, <1>9 DEF PoolOver
<1>11. IsPool(sv) /\ IsPool(on)
  BY <1>8, <1>10 DEF IsPool
<1>12. Keep(n, pl, c) =
         IF Cardinality(ConnectedPeers(sv)) <= MaxEnabledSync \/ p \in pl.always THEN on ELSE sv
  <2>1. [pl EXCEPT !.connected[p] = c,
                   !.queue = IF p \in ToSet(@) THEN @ ELSE Append(@, p)] = sv
    BY <1>1, <1>2, <1>5, <1>7 DEF PoolOver
  <2>2. EnableSync(sv, c) = on
    BY <1>6, <1>8, <1>9 DEF EnableSync, PoolOver
  <2> QED BY <2>1, <2>2 DEF Keep, p
<1>13. ConnectedPeers(on) = ConnectedPeers(sv)
  BY <1>8, <1>10 DEF ConnectedPeers
<1> QED
  BY <1>5, <1>6, <1>8, <1>10, <1>11, <1>12, <1>13 DEF p

LEMMA KeepFact ==
  ASSUME ConnectionsAssumption, NEW n, NEW pl, IsPool(pl), SoundPool(n, pl), NEW c \in Conns,
         PeerOf(n, c) \in Peers, c \notin pl.handshaking, c \notin pl.enabled
  PROVE  /\ IsPool(Keep(n, pl, c)) /\ SoundPool(n, Keep(n, pl, c))
         /\ Keep(n, pl, c).connected[PeerOf(n, c)] = c
         /\ (pl.connected[PeerOf(n, c)] # None => pl.connected[PeerOf(n, c)] \in pl.drops)
               => SparesOthers(c, pl, Keep(n, pl, c))
<1>1. PICK p \in Peers : p = PeerOf(n, c)
  OBVIOUS
<1>2. PICK new : new = Keep(n, pl, c)
  OBVIOUS
<1>3. /\ IsPool(new) /\ new.handshaking = pl.handshaking
      /\ new.connected = [pl.connected EXCEPT ![p] = c]
      /\ new.always = pl.always /\ new.drops = pl.drops
      /\ \/ new.enabled = pl.enabled
         \/ /\ new.enabled = pl.enabled \cup {c}
            /\ \/ Cardinality(ConnectedPeers(new)) <= MaxEnabledSync
               \/ p \in pl.always
  BY <1>1, <1>2, KeepParts
<1>4. pl.connected \in [Peers -> Conns \cup {None}] /\ pl.enabled \in SUBSET Conns
  BY PoolParts
<1>5. /\ new.connected[p] = c
      /\ \A q \in Peers : q # p => new.connected[q] = pl.connected[q]
  BY <1>3, <1>4
<1>6. c # None /\ \A q \in Peers : pl.connected[q] = c => q = p
  BY <1>1 DEF ConnectionsAssumption, SoundPool
<1>7. Cardinality(Counted(new)) <= MaxEnabledSync
  <2>1. CASE new.enabled = pl.enabled \/ p \in pl.always
    <3>1. ASSUME NEW q \in Counted(new) PROVE q \in Counted(pl)
      BY <1>3, <1>5, <1>6, <2>1 DEF Counted
    <3>2. Counted(new) \subseteq Counted(pl) /\ Counted(pl) \subseteq Peers
      BY <3>1 DEF Counted
    <3> QED BY <3>2, FewerCounted DEF SoundPool
  <2>2. CASE Cardinality(ConnectedPeers(new)) <= MaxEnabledSync
    <3>1. None \notin new.enabled
      BY <1>3, <1>4 DEF ConnectionsAssumption
    <3>2. Counted(new) \subseteq ConnectedPeers(new) /\ ConnectedPeers(new) \subseteq Peers
      BY <3>1 DEF Counted, ConnectedPeers
    <3> QED BY <2>2, <3>2, FewerCounted
  <2> QED BY <1>3, <2>1, <2>2
<1>8. SoundPool(n, new)
  <2>1. \A q \in Peers : new.connected[q] # None =>
          PeerOf(n, new.connected[q]) = q /\ new.connected[q] \notin new.handshaking
    BY <1>1, <1>3, <1>5 DEF SoundPool
  <2>2. new.enabled \cap new.handshaking = {}
    BY <1>3 DEF SoundPool
  <2> QED BY <1>7, <2>1, <2>2 DEF SoundPool
<1>9. ASSUME pl.connected[p] # None => pl.connected[p] \in pl.drops
      PROVE  SparesOthers(c, pl, new)
  <2>1. SUFFICES ASSUME NEW d \in Conns \ {c}
        PROVE  /\ d \in new.handshaking => d \in pl.handshaking
               /\ d \in new.enabled => d \in pl.enabled
               /\ d \in pl.drops => d \in new.drops
               /\ \A q \in Peers : /\ new.connected[q] = d => pl.connected[q] = d
                                   /\ pl.connected[q] = d => new.connected[q] = d \/ d \in new.drops
    BY DEF SparesOthers
  <2>2. d # None
    BY DEF ConnectionsAssumption
  <2> QED BY <1>3, <1>5, <1>9, <2>2
<1> QED
  BY <1>1, <1>2, <1>3, <1>5, <1>8, <1>9

(* on_peer_ready.                                                          *)
LEMMA ReadyFact ==
  ASSUME ConnectionsAssumption, NEW n, NEW pl, IsPool(pl), SoundPool(n, pl),
         NEW c \in pl.handshaking, PeerOf(n, c) \in Peers
  PROVE  /\ IsPool(OnPeerReady(n, pl, c)) /\ SoundPool(n, OnPeerReady(n, pl, c))
         /\ SparesOthers(c, pl, OnPeerReady(n, pl, c))
         /\ OnPeerReady(n, pl, c).connected[PeerOf(n, c)] = c \/ c \in OnPeerReady(n, pl, c).drops
<1>1. PICK Q : pl \in PoolOver(Q)
  BY DEF IsPool
<1>2. PICK p \in Peers : p = PeerOf(n, c)
  OBVIOUS
<1>3. c \in Conns /\ c \notin pl.enabled /\ c # None /\ pl.connected[p] # c
      /\ pl.connected \in [Peers -> Conns \cup {None}]
  BY <1>1 DEF PoolOver, SoundPool, ConnectionsAssumption
<1>4. PICK h \in SUBSET Conns : h = pl.handshaking \ {c}
  BY <1>1 DEF PoolOver
<1>5. PICK sh : sh = [pl EXCEPT !.handshaking = h]
  OBVIOUS
<1>6. /\ sh \in PoolOver(Q) /\ sh.handshaking = h /\ sh.connected = pl.connected
      /\ sh.enabled = pl.enabled /\ sh.always = pl.always /\ sh.drops = pl.drops
  BY <1>1, <1>5 DEF PoolOver
<1>7. SoundPool(n, sh) /\ IsPool(sh)
  <2>1. Counted(sh) = Counted(pl)
    BY <1>6 DEF Counted
  <2> QED BY <1>4, <1>6, <2>1 DEF SoundPool, IsPool
<1>8. Shaken(pl, c) = sh
  BY <1>4, <1>5 DEF Shaken
<1>9. CASE pl.connected[p] = None
  <2>1. OnPeerReady(n, pl, c) = Keep(n, sh, c)
    BY <1>2, <1>8, <1>9 DEF OnPeerReady
  <2>2. c \notin sh.handshaking /\ c \notin sh.enabled /\ sh.connected[p] = None
    BY <1>3, <1>4, <1>6, <1>9
  <2>3. PICK new : new = Keep(n, sh, c)
    OBVIOUS
  <2>4. IsPool(new) /\ SoundPool(n, new) /\ new.connected[p] = c /\ SparesOthers(c, sh, new)
    BY <1>2, <1>3, <1>7, <2>2, <2>3, KeepFact
  <2>5. SparesOthers(c, pl, new)
    BY <1>4, <1>6, <2>4 DEF SparesOthers
  <2> QED BY <1>2, <2>1, <2>3, <2>4, <2>5
<1>10. CASE pl.connected[p] # None
  <2>1. PICK dr \in Conns : dr = ConnectionToDrop(n, pl, c)
    BY <1>2, <1>3, <1>10 DEF ConnectionToDrop
  <2>2. dr = c \/ dr = pl.connected[p]
    BY <1>2, <2>1 DEF ConnectionToDrop
  <2>3. PICK ds \in SUBSET Conns : ds = sh.drops \cup {dr}
    BY <1>6 DEF PoolOver
  <2>4. PICK sd : sd = [sh EXCEPT !.drops = ds]
    OBVIOUS
  <2>5. /\ sd \in PoolOver(Q) /\ sd.handshaking = h /\ sd.connected = pl.connected
        /\ sd.enabled = pl.enabled /\ sd.always = pl.always /\ sd.drops = ds
    BY <1>6, <2>4 DEF PoolOver
  <2>6. SoundPool(n, sd) /\ IsPool(sd)
    <3>1. Counted(sd) = Counted(pl)
      BY <2>5 DEF Counted
    <3> QED BY <1>4, <2>5, <3>1 DEF SoundPool, IsPool
  <2>7. ScheduleDrop(sh, dr) = sd
    BY <2>3, <2>4 DEF ScheduleDrop
  <2>8. OnPeerReady(n, pl, c) = IF dr = c THEN sd ELSE Keep(n, sd, c)
    BY <1>2, <1>8, <1>10, <2>1, <2>7 DEF OnPeerReady
  <2>9. CASE dr = c
    <3>1. SparesOthers(c, pl, sd)
      BY <1>4, <1>6, <2>3, <2>5 DEF SparesOthers
    <3>2. c \in sd.drops
      BY <2>3, <2>5, <2>9
    <3> QED BY <2>6, <2>8, <2>9, <3>1, <3>2
  <2>10. CASE dr # c
    <3>1. c \notin sd.handshaking /\ c \notin sd.enabled /\ sd.connected[p] \in sd.drops
      BY <1>3, <1>4, <2>2, <2>3, <2>5, <2>10
    <3>2. PICK new : new = Keep(n, sd, c)
      OBVIOUS
    <3>3. IsPool(new) /\ SoundPool(n, new) /\ new.connected[p] = c /\ SparesOthers(c, sd, new)
      BY <1>2, <1>3, <2>6, <3>1, <3>2, KeepFact
    <3>4. SparesOthers(c, pl, new)
      BY <1>4, <1>6, <2>3, <2>5, <3>3 DEF SparesOthers
    <3> QED BY <1>2, <2>8, <2>10, <3>2, <3>3, <3>4
  <2> QED BY <2>9, <2>10
<1> QED BY <1>9, <1>10

(* on_peer_disconnect.                                                     *)
LEMMA DisconnectFact ==
  ASSUME ConnectionsAssumption, NEW n, NEW pl, IsPool(pl), SoundPool(n, pl), NEW c \in Conns,
         PeerOf(n, c) \in Peers, NEW known, pl.connected[PeerOf(n, c)] = c => known
  PROVE  /\ IsPool(OnPeerDisconnect(n, pl, c, known))
         /\ SoundPool(n, OnPeerDisconnect(n, pl, c, known))
         /\ SparesOthers(c, pl, OnPeerDisconnect(n, pl, c, known))
         /\ c \notin OnPeerDisconnect(n, pl, c, known).handshaking
         /\ c \notin OnPeerDisconnect(n, pl, c, known).enabled
         /\ OnPeerDisconnect(n, pl, c, known).connected[PeerOf(n, c)] # c
<1>1. PICK R : pl \in PoolOver(R)
  BY DEF IsPool
<1>2. PICK p \in Peers : p = PeerOf(n, c)
  OBVIOUS
<1>3. c # None /\ pl.connected \in [Peers -> Conns \cup {None}] /\ None \notin Conns
  BY <1>1 DEF PoolOver, ConnectionsAssumption
<1>4. PICK q : q = SelectSeq(pl.queue, LAMBDA x : x # p)
  OBVIOUS
<1>5. PICK Q : Q = R \cup {q}
  OBVIOUS
<1>6. pl \in PoolOver(Q) /\ q \in Q
  BY <1>1, <1>5 DEF PoolOver
<1>7. PICK h \in SUBSET Conns : h = pl.handshaking \ {c}
  BY <1>1 DEF PoolOver
<1>8. PICK k \in SUBSET Conns : k = pl.connections \ {c}
  BY <1>1 DEF PoolOver
<1>9. PICK on \in SUBSET Conns : on = pl.enabled \ {c}
  BY <1>1 DEF PoolOver
<1>10. PICK gone : gone = [pl EXCEPT !.connections = k, !.handshaking = h, !.enabled = on]
  OBVIOUS
<1>11. /\ gone \in PoolOver(Q) /\ gone.handshaking = h /\ gone.connected = pl.connected
       /\ gone.enabled = on /\ gone.always = pl.always /\ gone.drops = pl.drops
       /\ gone.queue = pl.queue
  BY <1>6, <1>10 DEF PoolOver
<1>12. PICK f \in [Peers -> Conns \cup {None}] : f = [pl.connected EXCEPT ![p] = None]
  BY <1>1 DEF PoolOver
<1>13. PICK left : left = [gone EXCEPT !.connected = f, !.queue = q]
  OBVIOUS
<1>14. /\ left \in PoolOver(Q) /\ left.handshaking = h /\ left.connected = f
       /\ left.enabled = on /\ left.always = pl.always /\ left.drops = pl.drops
  BY <1>6, <1>11, <1>13 DEF PoolOver
<1>15. OnPeerDisconnect(n, pl, c, known) = IF known /\ pl.connected[p] = c THEN left ELSE gone
  <2>1. Discard(pl, c) = gone
    BY <1>7, <1>8, <1>9, <1>10 DEF Discard
  <2>2. Forget(gone, p) = left
    BY <1>4, <1>11, <1>12, <1>13 DEF Forget, PoolOver
  <2> QED BY <1>2, <2>1, <2>2 DEF OnPeerDisconnect
<1>16. PICK new : new = OnPeerDisconnect(n, pl, c, known)
  OBVIOUS
<1>17. /\ IsPool(new) /\ new.handshaking = h /\ new.enabled = on /\ new.always = pl.always
       /\ new.drops = pl.drops
       /\ new.connected = IF pl.connected[p] = c THEN f ELSE pl.connected
  BY <1>2, <1>11, <1>14, <1>15, <1>16 DEF IsPool
<1>18. /\ new.connected[p] = IF pl.connected[p] = c THEN None ELSE pl.connected[p]
       /\ \A x \in Peers : x # p => new.connected[x] = pl.connected[x]
  BY <1>3, <1>12, <1>17
<1>19. Counted(new) \subseteq Counted(pl) /\ Counted(pl) \subseteq Peers
  <2>1. None \notin on
    BY <1>3
  <2> QED BY <1>9, <1>17, <1>18, <2>1 DEF Counted
<1>20. SoundPool(n, new)
  <2>1. Cardinality(Counted(new)) <= MaxEnabledSync
    BY <1>19, FewerCounted DEF SoundPool
  <2>2. \A x \in Peers : new.connected[x] # None =>
          PeerOf(n, new.connected[x]) = x /\ new.connected[x] \notin new.handshaking
    BY <1>7, <1>17, <1>18 DEF SoundPool
  <2>3. new.enabled \cap new.handshaking = {}
    BY <1>7, <1>9, <1>17 DEF SoundPool
  <2> QED BY <2>1, <2>2, <2>3 DEF SoundPool
<1>21. SparesOthers(c, pl, new)
  <2>1. ASSUME NEW d \in Conns \ {c}, NEW x \in Peers
        PROVE  new.connected[x] = d <=> pl.connected[x] = d
    BY <1>3, <1>18
  <2> QED BY <1>7, <1>9, <1>17, <2>1 DEF SparesOthers
<1> QED
  BY <1>2, <1>3, <1>7, <1>9, <1>16, <1>17, <1>18, <1>20, <1>21

(* What an operation that changes the enabled syncs only has to respect.   *)
LEMMA EnabledFact ==
  ASSUME ConnectionsAssumption, NEW n, NEW pl, IsPool(pl), SoundPool(n, pl), NEW new,
         NEW on, on \subseteq pl.enabled \cup {pl.connected[p] : p \in ConnectedPeers(pl)},
         NEW list, NEW S \in SUBSET Peers, Cardinality(S) <= MaxEnabledSync,
         \A p \in Peers \ list : pl.connected[p] # None /\ pl.connected[p] \in on => p \in S,
         new = [pl EXCEPT !.always = list, !.enabled = on]
  PROVE  IsPool(new) /\ SoundPool(n, new) /\ SparesOthers(None, pl, new)
<1>1. PICK R : pl \in PoolOver(R)
  BY DEF IsPool
<1>2. PICK Q : Q = R \cup {list}
  OBVIOUS
<1>3. pl \in PoolOver(Q) /\ list \in Q
  BY <1>1, <1>2 DEF PoolOver
<1>4. pl.connected \in [Peers -> Conns \cup {None}] /\ pl.enabled \in SUBSET Conns
      /\ None \notin Conns
  BY <1>1 DEF PoolOver, ConnectionsAssumption
<1>5. PICK e \in SUBSET Conns : e = on
  BY <1>4 DEF ConnectedPeers
<1>6. /\ new \in PoolOver(Q) /\ new.handshaking = pl.handshaking /\ new.connected = pl.connected
      /\ new.enabled = on /\ new.always = list /\ new.drops = pl.drops
  BY <1>3, <1>5 DEF PoolOver
<1>7. IsPool(new)
  BY <1>6 DEF IsPool
<1>8. Counted(new) \subseteq S
  BY <1>4, <1>5, <1>6 DEF Counted
<1>9. Cardinality(Counted(new)) <= MaxEnabledSync
  BY <1>8, FewerCounted
<1>10. on \cap pl.handshaking = {}
  BY DEF SoundPool, ConnectedPeers
<1>11. SoundPool(n, new)
  BY <1>6, <1>9, <1>10 DEF SoundPool
<1>12. SparesOthers(None, pl, new)
  <2>1. \A d \in on : d \in pl.enabled \/ \E q \in Peers : pl.connected[q] = d
    BY DEF ConnectedPeers
  <2> QED BY <1>6, <2>1 DEF SparesOthers
<1> QED
  BY <1>7, <1>11, <1>12

(* _sync_rotate_if_needed.                                                 *)
LEMMA RotateFact ==
  ASSUME ConnectionsAssumption, NEW n, NEW pl, IsPool(pl), SoundPool(n, pl),
         NEW S \in Selections(pl)
  PROVE  /\ IsPool(SyncRotate(pl, S)) /\ SoundPool(n, SyncRotate(pl, S))
         /\ SparesOthers(None, pl, SyncRotate(pl, S))
<1> DEFINE on == {c \in pl.enabled : \A p \in Peers : pl.connected[p] = c => p \in S \cup pl.always}
                 \cup {pl.connected[p] : p \in S}
<1>1. S \subseteq ConnectedPeers(pl) /\ S \in SUBSET Peers
  BY DEF Selections, ConnectedPeers
<1>2. Cardinality(S) <= MaxEnabledSync
  <2>1. MaxEnabledSync \in Nat /\ IsFiniteSet(ConnectedPeers(pl))
    BY FS_Subset DEF ConnectionsAssumption, ConnectedPeers
  <2>2. Cardinality(ConnectedPeers(pl)) \in Nat
    BY <2>1, FS_CardinalityType
  <2>3. Cardinality(S) = IF Cardinality(ConnectedPeers(pl)) < MaxEnabledSync
                         THEN Cardinality(ConnectedPeers(pl)) ELSE MaxEnabledSync
    BY DEF Selections
  <2> QED BY <2>1, <2>2, <2>3
<1>3. ASSUME NEW p \in Peers \ pl.always, pl.connected[p] # None, pl.connected[p] \in on
      PROVE  p \in S
  <2>1. CASE \E q \in S : pl.connected[p] = pl.connected[q]
    BY <1>1, <1>3, <2>1 DEF SoundPool, ConnectedPeers
  <2> QED BY <1>3, <2>1
<1>4. on \subseteq pl.enabled \cup {pl.connected[p] : p \in ConnectedPeers(pl)}
  BY <1>1
<1>5. SyncRotate(pl, S) = [pl EXCEPT !.always = pl.always, !.enabled = on]
  <2>1. PICK Q : pl \in PoolOver(Q)
    BY DEF IsPool
  <2>2. PICK e : e = on
    OBVIOUS
  <2>3. SyncRotate(pl, S) = [pl EXCEPT !.enabled = e]
    BY <2>2 DEF SyncRotate
  <2> HIDE DEF on
  <2> QED BY <2>1, <2>2, <2>3 DEF PoolOver
<1> HIDE DEF on
<1> QED
  BY <1>1, <1>2, <1>3, <1>4, <1>5, EnabledFact

(* set_always_enable_sync.                                                 *)
LEMMA AlwaysFact ==
  ASSUME ConnectionsAssumption, NEW n, NEW pl, IsPool(pl), SoundPool(n, pl), NEW list
  PROVE  /\ IsPool(SetAlwaysEnableSync(pl, list)) /\ SoundPool(n, SetAlwaysEnableSync(pl, list))
         /\ SparesOthers(None, pl, SetAlwaysEnableSync(pl, list))
<1> DEFINE on == (pl.enabled \cup {pl.connected[p] : p \in list \cap ConnectedPeers(pl)})
                 \ {pl.connected[p] : p \in pl.always \ list}
           S == Counted(pl)
<1>1. S \in SUBSET Peers /\ Cardinality(S) <= MaxEnabledSync
  BY DEF SoundPool, Counted
<1>2. ASSUME NEW p \in Peers \ list, pl.connected[p] # None, pl.connected[p] \in on
      PROVE  p \in S
  <2>1. p \notin pl.always
    BY <1>2
  <2>2. ~ \E q \in list \cap ConnectedPeers(pl) : pl.connected[p] = pl.connected[q]
    BY <1>2 DEF SoundPool, ConnectedPeers
  <2>3. pl.connected[p] \in pl.enabled
    BY <1>2, <2>2
  <2> QED BY <2>1, <2>3 DEF Counted
<1>3. on \subseteq pl.enabled \cup {pl.connected[p] : p \in ConnectedPeers(pl)}
  OBVIOUS
<1>4. SetAlwaysEnableSync(pl, list) = [pl EXCEPT !.always = list, !.enabled = on]
  <2>1. PICK e : e = on
    OBVIOUS
  <2> QED BY <2>1 DEF SetAlwaysEnableSync
<1> HIDE DEF on, S
<1> QED
  BY <1>1, <1>2, <1>3, <1>4, EnabledFact

(* drop_connection.                                                        *)
WithoutDrop(pl, c) == [pl EXCEPT !.drops = pl.drops \ {c}]

LEMMA DropFact ==
  ASSUME ConnectionsAssumption, NEW n, NEW pl, IsPool(pl), SoundPool(n, pl), NEW c
  PROVE  /\ IsPool(WithoutDrop(pl, c)) /\ SoundPool(n, WithoutDrop(pl, c))
         /\ SparesOthers(c, pl, WithoutDrop(pl, c))
         /\ WithoutDrop(pl, c).handshaking = pl.handshaking
         /\ WithoutDrop(pl, c).enabled = pl.enabled
         /\ WithoutDrop(pl, c).connected = pl.connected
<1>0. PICK new : new = WithoutDrop(pl, c)
  OBVIOUS
<1>1. PICK Q : pl \in PoolOver(Q)
  BY DEF IsPool
<1>2. PICK ds \in SUBSET Conns : ds = pl.drops \ {c}
  BY <1>1 DEF PoolOver
<1>3. /\ new \in PoolOver(Q) /\ new.handshaking = pl.handshaking /\ new.connected = pl.connected
      /\ new.enabled = pl.enabled /\ new.always = pl.always /\ new.drops = ds
  BY <1>0, <1>1, <1>2 DEF PoolOver, WithoutDrop
<1>4. Counted(new) = Counted(pl)
  BY <1>3 DEF Counted
<1> QED
  BY <1>0, <1>2, <1>3, <1>4 DEF IsPool, SoundPool, SparesOthers

-----------------------------------------------------------------------------
(* Connections: the ends and the lines between them.                       *)

Lines == {"HELLO", "PEER-ID", "READY", "GET-PEERS"}
Has(s, m) == \E i \in 1 .. Len(s) : s[i] = m

EndType ==
    [st : {"none", "hello", "peer_id", "ready", "closed"},
     link : {"none", "connecting", "up", "closing", "aborted", "down"},
     waits : BOOLEAN, peer : BOOLEAN, mine : BOOLEAN, other : BOOLEAN]

(***************************************************************************)
(* An end r and the pool of its node.  The pool knows of no connection     *)
(* that is not open, an open one that is READY is in connected_peers or is *)
(* going to be dropped, and the handshake of one that is in PEER-ID lacks  *)
(* one of the two READY.                                                   *)
(***************************************************************************)
SoundEnd(e, r, pl) ==
    /\ r.link \in {"none", "connecting", "down"} =>
          e[1] \notin pl.handshaking \cup pl.enabled /\ pl.connected[Remote(e)] # e[1]
    /\ r.link \in {"none", "connecting"} => r.st = "none" /\ ~r.waits /\ ~r.mine
    /\ pl.connected[Remote(e)] = e[1] => r.peer
    /\ r.mine => r.peer
    /\ r.link = "up" =>
          /\ r.st \in {"hello", "peer_id", "ready"}
          /\ r.st = "hello" => ~r.waits /\ ~r.mine
          /\ r.st = "ready" => r.mine /\ (pl.connected[Remote(e)] = e[1] \/ e[1] \in pl.drops)
          /\ r.st = "peer_id" => ~(r.mine /\ r.other)
          /\ IsStatic(e) => r.st = "ready"

(***************************************************************************)
(* The end r of a connection whose other end s is open: the line that r    *)
(* needs to go on is on its way (lines) once s has sent it.                *)
(***************************************************************************)
SoundPair(r, s, lines) ==
    s.link = "up" /\ r.link \in {"none", "connecting", "up"} =>
        /\ r.st \in {"none", "hello"} => Has(lines, "HELLO")
        /\ s.st # "hello" /\ ~r.waits /\ ~r.mine => Has(lines, "PEER-ID")
        /\ s.mine /\ ~r.other => Has(lines, "READY")

ConnInv ==
    /\ end \in [Ends -> EndType]
    /\ ch \in [Ends -> Seq(Lines)]
    /\ pool = [n \in Nodes |-> pool[n]]
    /\ \A n \in Nodes : IsPool(pool[n]) /\ SoundPool(n, pool[n])
    /\ \A e \in Ends : SoundEnd(e, end[e], pool[e[2]])
    /\ \A e \in Ends : ~IsStatic(e) => SoundPair(end[e], end[Across(e)], ch[e])

LEMMA SideFact ==
  ASSUME ConnectionsAssumption, NEW e \in Ends
  PROVE  /\ e[1] \in Conns /\ e[2] \in Nodes /\ e[1] # None
         /\ Remote(e) \in Peers /\ Remote(e) = PeerOf(e[2], e[1])
         /\ e = <<e[1], e[2]>>
<1>1. e \in Conns \X Nodes /\ e[2] \in {From[e[1]], To[e[1]]}
  BY DEF Ends, Conns
<1>2. e[1] \in Conns /\ e[2] \in Nodes /\ e = <<e[1], e[2]>>
  BY <1>1
<1>3. From[e[1]] \in Peers /\ To[e[1]] \in Peers /\ e[1] # None
  BY <1>2 DEF ConnectionsAssumption
<1> QED
  BY <1>2, <1>3 DEF Remote, PeerOf

(* A connection that is not static has two ends, each across the other.    *)
LEMMA AcrossFact ==
  ASSUME ConnectionsAssumption, NEW e \in Ends, ~IsStatic(e)
  PROVE  /\ Across(e) \in Ends /\ Across(e) # e /\ Across(Across(e)) = e
         /\ Across(e)[1] = e[1] /\ ~IsStatic(Across(e))
<1>1. e \in Conns \X Nodes /\ e[2] \in {From[e[1]], To[e[1]]} /\ e = <<e[1], e[2]>>
  BY DEF Ends, Conns
<1>2. e[1] \in Conns /\ e[2] \in Nodes /\ e[1] \notin Static
  BY <1>1 DEF IsStatic
<1>3. From[e[1]] \in Nodes /\ To[e[1]] \in Nodes /\ From[e[1]] # To[e[1]]
  BY <1>2 DEF ConnectionsAssumption
<1>4. PICK c \in Conns : c = e[1]
  BY <1>2
<1>5. PICK n \in Nodes : n = e[2]
  BY <1>2
<1>6. PICK m \in Nodes : m = Remote(e)
  BY <1>3 DEF Remote
<1>7. e = <<c, n>> /\ Across(e) = <<c, m>> /\ m # n /\ m \in {From[c], To[c]}
      /\ Remote(<<c, m>>) = n
  BY <1>1, <1>3, <1>4, <1>5, <1>6 DEF Across, Remote
<1>8. <<c, m>> \in Ends
  BY <1>7 DEF Ends, Conns
<1> QED
  BY <1>2, <1>4, <1>7, <1>8 DEF Across, IsStatic

(* Nobody else is across.                                                  *)
LEMMA AcrossOther ==
  ASSUME ConnectionsAssumption, NEW e \in Ends, NEW x \in Ends, ~IsStatic(x),
         x # e, x # Across(e)
  PROVE  Across(x) # e
<1>1. Across(x) = e => Across(e) = x
  BY AcrossFact
<1> QED BY <1>1

LEMMA HasAppend ==
  ASSUME NEW s \in Seq(Lines), NEW m \in Lines
  PROVE  /\ Append(s, m) \in Seq(Lines) /\ Has(Append(s, m), m)
         /\ \A k : Has(s, k) => Has(Append(s, m), k)
<1>1. Append(s, m) \in Seq(Lines) /\ Len(Append(s, m)) = Len(s) + 1 /\ Len(s) \in Nat
  OBVIOUS
<1>2. Append(s, m)[Len(s) + 1] = m /\ \A i \in 1 .. Len(s) : Append(s, m)[i] = s[i]
  OBVIOUS
<1>3. \A i \in 1 .. Len(s) : i \in 1 .. Len(s) + 1
  BY <1>1
<1> QED
  BY <1>1, <1>2, <1>3 DEF Has

LEMMA HasTail ==
  ASSUME NEW s \in Seq(Lines), s # <<>>
  PROVE  /\ Tail(s) \in Seq(Lines) /\ Head(s) \in Lines
         /\ \A k : Has(s, k) => k = Head(s) \/ Has(Tail(s), k)
<1>1. Tail(s) \in Seq(Lines) /\ Head(s) \in Lines /\ Head(s) = s[1]
  OBVIOUS
<1>2. Len(s) \in Nat /\ Len(Tail(s)) = Len(s) - 1 /\ Len(s) # 0
  OBVIOUS
<1>3. \A i \in 1 .. Len(Tail(s)) : Tail(s)[i] = s[i + 1]
  OBVIOUS
<1>4. ASSUME NEW k, NEW i \in 1 .. Len(s), s[i] = k, k # Head(s)
      PROVE  Has(Tail(s), k)
  <2>1. i - 1 \in 1 .. Len(Tail(s)) /\ (i - 1) + 1 = i
    BY <1>1, <1>2, <1>4
  <2> QED BY <1>3, <1>4, <2>1 DEF Has
<1> QED
  BY <1>1, <1>4 DEF Has

(* send_message.                                                           *)
LEMMA SendFact ==
  ASSUME ConnectionsAssumption, NEW e \in Ends, NEW out \in [Ends -> Seq(Lines)], NEW m \in Lines
  PROVE  /\ SendIn(out, e, m) \in [Ends -> Seq(Lines)]
         /\ \A x \in Ends : x # Across(e) => SendIn(out, e, m)[x] = out[x]
         /\ \A x \in Ends : \A k : Has(out[x], k) => Has(SendIn(out, e, m)[x], k)
         /\ ~IsStatic(e) /\ end[e].link \in {"connecting", "none", "up"} =>
               Has(SendIn(out, e, m)[Across(e)], m)
<1>1. CASE ~(end[e].link \in {"connecting", "none", "up"} /\ Across(e) \in Ends)
  <2>1. SendIn(out, e, m) = out
    BY <1>1 DEF SendIn
  <2> QED BY <1>1, <2>1, AcrossFact
<1>2. CASE end[e].link \in {"connecting", "none", "up"} /\ Across(e) \in Ends
  <2>1. PICK s \in Seq(Lines) : s = Append(out[Across(e)], m)
    BY <1>2, HasAppend
  <2>2. SendIn(out, e, m) = [out EXCEPT ![Across(e)] = s]
    BY <1>2, <2>1 DEF SendIn
  <2>3. Has(s, m) /\ \A k : Has(out[Across(e)], k) => Has(s, k)
    BY <1>2, <2>1, HasAppend
  <2> QED BY <1>2, <2>2, <2>3
<1> QED BY <1>1, <1>2

(* An operation on one connection leaves the other ends of the node sound. *)
LEMMA OtherEnds ==
  ASSUME ConnectionsAssumption, NEW e \in Ends, NEW r, NEW pl, NEW new, NEW c, e[1] # c,
         SoundPool(e[2], pl), SparesOthers(c, pl, new), SoundEnd(e, r, pl)
  PROVE  SoundEnd(e, r, new)
<1>1. PICK d \in Conns \ {c} : d = e[1]
  BY SideFact
<1>2. PICK p \in Peers : p = Remote(e) /\ p = PeerOf(e[2], d)
  BY <1>1, SideFact
<1>3. d # None
  BY <1>1, SideFact
<1>4. /\ d \in new.handshaking => d \in pl.handshaking
      /\ d \in new.enabled => d \in pl.enabled \/ \E q \in Peers : pl.connected[q] = d
      /\ d \in pl.drops => d \in new.drops
      /\ new.connected[p] = d => pl.connected[p] = d
      /\ pl.connected[p] = d => new.connected[p] = d \/ d \in new.drops
  BY <1>1, <1>2 DEF SparesOthers
<1>5. \A q \in Peers : pl.connected[q] = d => q = p
  BY <1>2, <1>3 DEF SoundPool
<1> QED
  BY <1>1, <1>2, <1>4, <1>5 DEF SoundEnd

(* The next state is judged by the same predicates.                        *)
LEMMA ConnPrime ==
  ASSUME end' \in [Ends -> EndType], ch' \in [Ends -> Seq(Lines)],
         pool' = [n \in Nodes |-> pool'[n]],
         \A n \in Nodes : IsPool(pool'[n]) /\ SoundPool(n, pool'[n]),
         \A e \in Ends : SoundEnd(e, end'[e], pool'[e[2]]),
         \A e \in Ends : ~IsStatic(e) => SoundPair(end'[e], end'[Across(e)], ch'[e])
  PROVE  ConnInv'
BY DEF ConnInv

(* A step of one end, with its pool and the lines from and to it.          *)
LEMMA EndStep ==
  ASSUME ConnectionsAssumption, ConnInv, NEW e \in Ends, NEW r \in EndType, NEW pl,
         end' = [end EXCEPT ![e] = r], pool' = [pool EXCEPT ![e[2]] = pl],
         IsPool(pl), SoundPool(e[2], pl), SparesOthers(e[1], pool[e[2]], pl),
         SoundEnd(e, r, pl),
         ch' \in [Ends -> Seq(Lines)],
         \A x \in Ends : x # e /\ x # Across(e) => ch'[x] = ch[x],
         ~IsStatic(e) => /\ SoundPair(r, end[Across(e)], ch'[e])
                         /\ SoundPair(end[Across(e)], r, ch'[Across(e)])
  PROVE  ConnInv'
<1>1. /\ end \in [Ends -> EndType] /\ pool = [n \in Nodes |-> pool[n]]
      /\ \A n \in Nodes : IsPool(pool[n]) /\ SoundPool(n, pool[n])
      /\ \A x \in Ends : SoundEnd(x, end[x], pool[x[2]])
      /\ \A x \in Ends : ~IsStatic(x) => SoundPair(end[x], end[Across(x)], ch[x])
  BY DEF ConnInv
<1>2. e[1] \in Conns /\ e[2] \in Nodes /\ e = <<e[1], e[2]>>
  BY SideFact
<1>3. /\ end' \in [Ends -> EndType] /\ end'[e] = r
      /\ \A x \in Ends : x # e => end'[x] = end[x]
  BY <1>1
<1>4. /\ pool' = [n \in Nodes |-> pool'[n]] /\ pool'[e[2]] = pl
      /\ \A n \in Nodes : n # e[2] => pool'[n] = pool[n]
  BY <1>1, <1>2
<1>5. \A n \in Nodes : IsPool(pool'[n]) /\ SoundPool(n, pool'[n])
  BY <1>1, <1>4
<1>6. ASSUME NEW x \in Ends PROVE SoundEnd(x, end'[x], pool'[x[2]])
  <2>1. CASE x = e
    BY <1>3, <1>4, <2>1
  <2>2. CASE x # e /\ x[2] # e[2]
    <3>1. x[2] \in Nodes
      BY SideFact
    <3> QED BY <1>1, <1>3, <1>4, <2>2, <3>1
  <2>3. CASE x # e /\ x[2] = e[2]
    <3>1. x[1] # e[1]
      BY <1>2, <2>3, SideFact
    <3>2. SoundEnd(x, end[x], pool[x[2]]) /\ SoundPool(x[2], pool[x[2]])
          /\ SparesOthers(e[1], pool[x[2]], pl)
      BY <1>1, <1>2, <2>3
    <3>3. SoundEnd(x, end[x], pl)
      BY <3>1, <3>2, OtherEnds
    <3> QED BY <1>3, <1>4, <2>3, <3>3
  <2> QED BY <2>1, <2>2, <2>3
<1>7. ASSUME NEW x \in Ends, ~IsStatic(x)
      PROVE  SoundPair(end'[x], end'[Across(x)], ch'[x])
  <2>1. Across(x) \in Ends /\ Across(x) # x /\ Across(Across(x)) = x /\ ~IsStatic(Across(x))
    BY <1>7, AcrossFact
  <2>2. CASE x = e
    BY <1>3, <1>7, <2>1, <2>2
  <2>3. CASE x # e /\ x = Across(e)
    <3>1. ~IsStatic(e)
      BY <1>7, <2>3 DEF IsStatic, Across
    <3>2. Across(x) = e
      BY <2>3, <3>1, AcrossFact
    <3> QED BY <1>3, <2>3, <3>1, <3>2
  <2>4. CASE x # e /\ x # Across(e)
    <3>1. Across(x) # e
      BY <1>7, <2>4, AcrossOther
    <3> QED BY <1>1, <1>3, <1>7, <2>1, <2>4, <3>1
  <2> QED BY <2>2, <2>3, <2>4
<1> QED
  BY <1>3, <1>4, <1>5, <1>6, <1>7, ConnPrime

(* A step that only changes the pool of a node.                            *)
LEMMA PoolStep ==
  ASSUME ConnectionsAssumption, ConnInv, NEW n \in Nodes, NEW pl,
         pool' = [pool EXCEPT ![n] = pl], UNCHANGED <<end, ch>>,
         IsPool(pl), SoundPool(n, pl), SparesOthers(None, pool[n], pl)
  PROVE  ConnInv'
<1>1. /\ end \in [Ends -> EndType] /\ pool = [m \in Nodes |-> pool[m]]
      /\ ch \in [Ends -> Seq(Lines)]
      /\ \A m \in Nodes : IsPool(pool[m]) /\ SoundPool(m, pool[m])
      /\ \A x \in Ends : SoundEnd(x, end[x], pool[x[2]])
      /\ \A x \in Ends : ~IsStatic(x) => SoundPair(end[x], end[Across(x)], ch[x])
  BY DEF ConnInv
<1>2. /\ pool' = [m \in Nodes |-> pool'[m]] /\ pool'[n] = pl
      /\ \A m \in Nodes : m # n => pool'[m] = pool[m]
  BY <1>1
<1>3. ASSUME NEW x \in Ends PROVE SoundEnd(x, end'[x], pool'[x[2]])
  <2>1. x[1] # None /\ x[2] \in Nodes
    BY SideFact
  <2>2. CASE x[2] = n
    BY <1>1, <1>2, <2>1, <2>2, OtherEnds
  <2>3. CASE x[2] # n
    BY <1>1, <1>2, <2>1, <2>3
  <2> QED BY <2>2, <2>3
<1>4. \A m \in Nodes : IsPool(pool'[m]) /\ SoundPool(m, pool'[m])
  BY <1>1, <1>2
<1> QED
  BY <1>1, <1>2, <1>3, <1>4, ConnPrime

(* A pool that is left alone.                                              *)
LEMMA PoolKept ==
  ASSUME ConnInv, NEW n \in Nodes
  PROVE  /\ [pool EXCEPT ![n] = pool[n]] = pool
         /\ IsPool(pool[n]) /\ SoundPool(n, pool[n])
         /\ \A c : SparesOthers(c, pool[n], pool[n])
<1>1. pool = [m \in Nodes |-> pool[m]] /\ IsPool(pool[n]) /\ SoundPool(n, pool[n])
  BY DEF ConnInv
<1> QED
  BY <1>1 DEF SparesOthers

(* An end that is closed, or is left as it was.                            *)
ClosedLinks == {"closing", "aborted", "down"}

LEMMA CloseStep ==
  ASSUME ConnectionsAssumption, ConnInv, NEW e \in Ends, NEW x \in EndType, NEW pl,
         end' = [end EXCEPT ![e] = x], pool' = [pool EXCEPT ![e[2]] = pl],
         IsPool(pl), SoundPool(e[2], pl), SparesOthers(e[1], pool[e[2]], pl), SoundEnd(e, x, pl),
         ch' \in [Ends -> Seq(Lines)],
         \A y \in Ends : y # e /\ y # Across(e) => ch'[y] = ch[y],
         x.link \in ClosedLinks \/ (x = end[e] /\ ch' = ch)
  PROVE  ConnInv'
<1>1. ASSUME ~IsStatic(e)
      PROVE  SoundPair(x, end[Across(e)], ch'[e]) /\ SoundPair(end[Across(e)], x, ch'[Across(e)])
  <2>1. Across(e) \in Ends /\ Across(Across(e)) = e /\ ~IsStatic(Across(e))
    BY <1>1, AcrossFact
  <2>2. SoundPair(end[e], end[Across(e)], ch[e]) /\ SoundPair(end[Across(e)], end[e], ch[Across(e)])
    BY <1>1, <2>1 DEF ConnInv
  <2>3. CASE x.link \in ClosedLinks
    BY <2>3 DEF SoundPair, ClosedLinks
  <2> QED BY <2>2, <2>3
<1> QED
  BY <1>1, EndStep

(* disconnect(), forced or not.                                            *)
LEMMA ClosingFact ==
  ASSUME NEW r \in EndType
  PROVE  /\ Closing(r) \in EndType /\ Aborted(r) \in EndType
         /\ Closing(r) = r \/ Closing(r).link = "closing"
         /\ Aborted(r) = r \/ Aborted(r).link = "aborted"
         /\ Closing(r).link # "up" /\ Aborted(r).link # "up"
         /\ Closing(r).peer = r.peer /\ Aborted(r).peer = r.peer
         /\ Closing(r).mine = r.mine /\ Aborted(r).mine = r.mine
<1>1. PICK a : a = [r EXCEPT !.link = "closing"]
  OBVIOUS
<1>2. PICK b : b = [r EXCEPT !.link = "aborted"]
  OBVIOUS
<1>3. /\ a \in EndType /\ a.link = "closing" /\ b \in EndType /\ b.link = "aborted"
      /\ a.peer = r.peer /\ b.peer = r.peer /\ a.mine = r.mine /\ b.mine = r.mine
  BY <1>1, <1>2 DEF EndType
<1>4. [r EXCEPT !.link = r.link] = r
  BY DEF EndType
<1>5. Closing(r) = IF r.link = "up" THEN a ELSE r
  BY <1>1, <1>4 DEF Closing
<1>6. Aborted(r) = IF r.link \in {"up", "closing"} THEN b ELSE r
  BY <1>2, <1>4 DEF Aborted
<1> QED
  BY <1>3, <1>5, <1>6

LEMMA StateFact ==
  ASSUME ConnectionsAssumption, ConnInv, NEW e \in Ends
  PROVE  /\ end[e] \in EndType /\ SoundEnd(e, end[e], pool[e[2]]) /\ ch[e] \in Seq(Lines)
         /\ end \in [Ends -> EndType] /\ ch \in [Ends -> Seq(Lines)]
         /\ e[2] \in Nodes /\ IsPool(pool[e[2]]) /\ SoundPool(e[2], pool[e[2]])
         /\ [pool EXCEPT ![e[2]] = pool[e[2]]] = pool
         /\ SparesOthers(e[1], pool[e[2]], pool[e[2]])
<1>1. e[2] \in Nodes
  BY SideFact
<1> QED
  BY <1>1, PoolKept DEF ConnInv

(* A closed end is sound when the pool does not have it as open.           *)
LEMMA ClosedEnd ==
  ASSUME NEW e, NEW pl, NEW r, SoundEnd(e, r, pl), NEW x, x.link \in {"closing", "aborted"},
         x.peer \/ (~r.peer /\ ~x.mine)
  PROVE  SoundEnd(e, x, pl)
BY DEF SoundEnd

(* The steps that close an end and leave the pool alone.                   *)
LEMMA ClosingSteps ==
  ASSUME ConnectionsAssumption, ConnInv, NEW e \in Ends, pool' = pool,
         NEW x, x = Closing(end[e]) \/ x = Aborted(end[e]), end' = [end EXCEPT ![e] = x],
         ch' = ch \/ (end[e].link = "up" /\ \E rest \in Seq(Lines) : ch' = [ch EXCEPT ![e] = rest])
  PROVE  ConnInv'
<1>1. /\ end[e] \in EndType /\ SoundEnd(e, end[e], pool[e[2]]) /\ ch \in [Ends -> Seq(Lines)]
      /\ e[2] \in Nodes /\ IsPool(pool[e[2]]) /\ SoundPool(e[2], pool[e[2]])
      /\ pool' = [pool EXCEPT ![e[2]] = pool[e[2]]]
      /\ SparesOthers(e[1], pool[e[2]], pool[e[2]])
  BY StateFact
<1>2. /\ x \in EndType /\ x.link # "up" /\ x.peer = end[e].peer /\ x.mine = end[e].mine
      /\ x = end[e] \/ x.link \in {"closing", "aborted"}
  BY <1>1, ClosingFact
<1>3. SoundEnd(e, x, pool[e[2]])
  <2>1. end[e].mine => end[e].peer
    BY <1>1 DEF SoundEnd
  <2>2. x.peer \/ (~end[e].peer /\ ~x.mine)
    BY <1>2, <2>1
  <2> QED BY <1>1, <1>2, <2>2, ClosedEnd
<1>4. ch' \in [Ends -> Seq(Lines)] /\ \A y \in Ends : y # e => ch'[y] = ch[y]
  BY <1>1
<1>5. x.link \in ClosedLinks \/ (x = end[e] /\ ch' = ch)
  BY <1>2 DEF ClosedLinks
<1> QED
  BY <1>1, <1>2, <1>3, <1>4, <1>5, CloseStep

LEMMA DialStep ==
  ASSUME ConnectionsAssumption, ConnInv, NEW c \in Conns \ Static, Dial(c)
  PROVE  ConnInv'
<1>1. PICK e : e = <<c, From[c]>>
  OBVIOUS
<1>2. e \in Ends /\ ~IsStatic(e)
  BY <1>1 DEF ConnectionsAssumption, Ends, Conns, IsStatic
<1>3. end[e].link = "none" /\ end' = [end EXCEPT ![e].link = "connecting"] /\ ch' = ch
      /\ pool' = pool
  BY <1>1 DEF Dial
<1>4. /\ end[e] \in EndType /\ SoundEnd(e, end[e], pool[e[2]]) /\ ch \in [Ends -> Seq(Lines)]
      /\ e[2] \in Nodes /\ IsPool(pool[e[2]]) /\ SoundPool(e[2], pool[e[2]])
      /\ pool' = [pool EXCEPT ![e[2]] = pool[e[2]]]
      /\ SparesOthers(e[1], pool[e[2]], pool[e[2]]) /\ end \in [Ends -> EndType]
  BY <1>2, <1>3, StateFact
<1>5. PICK x : x = [end[e] EXCEPT !.link = "connecting"]
  OBVIOUS
<1>6. /\ x \in EndType /\ x.link = "connecting" /\ x.st = end[e].st /\ x.waits = end[e].waits
      /\ x.peer = end[e].peer /\ x.mine = end[e].mine /\ x.other = end[e].other
  BY <1>4, <1>5 DEF EndType
<1>7. end' = [end EXCEPT ![e] = x]
  BY <1>2, <1>3, <1>4, <1>5
<1>8. SoundEnd(e, x, pool[e[2]])
  BY <1>3, <1>4, <1>6 DEF SoundEnd
<1>9. Across(e) \in Ends /\ Across(Across(e)) = e /\ ~IsStatic(Across(e))
  BY <1>2, AcrossFact
<1>10. SoundPair(end[e], end[Across(e)], ch[e])
  BY <1>2 DEF ConnInv
<1>11. SoundPair(x, end[Across(e)], ch'[e]) /\ SoundPair(end[Across(e)], x, ch'[Across(e)])
  BY <1>3, <1>6, <1>10 DEF SoundPair
<1> QED
  BY <1>2, <1>3, <1>4, <1>6, <1>7, <1>8, <1>11, EndStep

LEMMA FailStep ==
  ASSUME ConnectionsAssumption, ConnInv, NEW c \in Conns \ Static, ConnectionFails(c)
  PROVE  ConnInv'
<1>1. PICK e : e = <<c, From[c]>>
  OBVIOUS
<1>2. e \in Ends
  BY <1>1 DEF ConnectionsAssumption, Ends, Conns
<1>3. end[e].link = "connecting" /\ end' = [end EXCEPT ![e].link = "down"] /\ ch' = ch
      /\ pool' = pool
  BY <1>1 DEF ConnectionFails
<1>4. /\ end[e] \in EndType /\ SoundEnd(e, end[e], pool[e[2]]) /\ ch \in [Ends -> Seq(Lines)]
      /\ e[2] \in Nodes /\ IsPool(pool[e[2]]) /\ SoundPool(e[2], pool[e[2]])
      /\ pool' = [pool EXCEPT ![e[2]] = pool[e[2]]]
      /\ SparesOthers(e[1], pool[e[2]], pool[e[2]]) /\ end \in [Ends -> EndType]
  BY <1>2, <1>3, StateFact
<1>5. PICK x : x = [end[e] EXCEPT !.link = "down"]
  OBVIOUS
<1>6. x \in EndType /\ x.link = "down" /\ x.peer = end[e].peer /\ x.mine = end[e].mine
  BY <1>4, <1>5 DEF EndType
<1>7. end' = [end EXCEPT ![e] = x]
  BY <1>2, <1>3, <1>4, <1>5
<1>8. SoundEnd(e, x, pool[e[2]])
  BY <1>3, <1>4, <1>6 DEF SoundEnd
<1>9. x.link \in ClosedLinks
  BY <1>6 DEF ClosedLinks
<1> QED
  BY <1>2, <1>3, <1>4, <1>6, <1>7, <1>8, <1>9, CloseStep

(* on_connect, refused by a full pool or not.                              *)
LEMMA ConnectStep ==
  ASSUME ConnectionsAssumption, ConnInv, NEW e \in Ends, ~IsStatic(e),
         end[e].link \in {"none", "connecting"}, OnConnect(e)
  PROVE  ConnInv'
<1>1. /\ end[e] \in EndType /\ SoundEnd(e, end[e], pool[e[2]]) /\ ch \in [Ends -> Seq(Lines)]
      /\ e[2] \in Nodes /\ IsPool(pool[e[2]]) /\ SoundPool(e[2], pool[e[2]])
      /\ pool = [pool EXCEPT ![e[2]] = pool[e[2]]]
      /\ SparesOthers(e[1], pool[e[2]], pool[e[2]]) /\ end \in [Ends -> EndType]
  BY StateFact
<1>2. PICK link \in {"up", "aborted"} : link = IF IsFull(pool[e[2]]) THEN "aborted" ELSE "up"
  OBVIOUS
<1>3. PICK x : x = [end[e] EXCEPT !.st = "hello", !.link = link]
  OBVIOUS
<1>4. /\ x \in EndType /\ x.link = link /\ x.st = "hello" /\ x.waits = end[e].waits
      /\ x.peer = end[e].peer /\ x.mine = end[e].mine /\ x.other = end[e].other
  BY <1>1, <1>3 DEF EndType
<1>5. end' = [end EXCEPT ![e] = x]
  <2>1. end' = [end EXCEPT ![e].st = "hello", ![e].link = link]
    BY <1>2 DEF OnConnect
  <2> QED BY <1>1, <1>3, <2>1
<1>6. /\ ~end[e].waits /\ ~end[e].mine /\ end[e].st = "none" /\ e[1] \notin pool[e[2]].enabled
      /\ pool[e[2]].connected[Remote(e)] # e[1]
  BY <1>1 DEF SoundEnd
<1>7. "HELLO" \in Lines
  BY DEF Lines
<1>8. PICK new : new = SendIn(ch, e, "HELLO")
  OBVIOUS
<1>9. Across(e) \in Ends /\ Across(e) # e /\ Across(Across(e)) = e /\ ~IsStatic(Across(e))
  BY AcrossFact
<1>10. /\ ch' = new /\ new \in [Ends -> Seq(Lines)]
       /\ \A y \in Ends : y # Across(e) => new[y] = ch[y]
       /\ Has(new[Across(e)], "HELLO")
  BY <1>1, <1>7, <1>8, SendFact DEF OnConnect, Send
<1>11. CASE IsFull(pool[e[2]])
  <2>1. x.link = "aborted" /\ x.link \in ClosedLinks
    BY <1>2, <1>4, <1>11 DEF ClosedLinks
  <2>2. SoundEnd(e, x, pool[e[2]])
    BY <1>4, <1>6, <2>1 DEF SoundEnd
  <2>3. pool' = [pool EXCEPT ![e[2]] = pool[e[2]]]
    BY <1>1, <1>11 DEF OnConnect
  <2> QED BY <1>1, <1>4, <1>5, <1>10, <2>1, <2>2, <2>3, CloseStep
<1>12. CASE ~IsFull(pool[e[2]])
  <2>1. PICK pl : pl = OnPeerConnect(pool[e[2]], e[1])
    OBVIOUS
  <2>2. pool' = [pool EXCEPT ![e[2]] = pl]
    BY <1>12, <2>1 DEF OnConnect
  <2>3. e[1] \in Conns /\ e[1] # None /\ Remote(e) = PeerOf(e[2], e[1])
    BY SideFact
  <2>4. \A q \in Peers : pool[e[2]].connected[q] # e[1]
    BY <1>1, <1>6, <2>3 DEF SoundPool
  <2>5. /\ IsPool(pl) /\ SoundPool(e[2], pl) /\ SparesOthers(e[1], pool[e[2]], pl)
        /\ pl.connected = pool[e[2]].connected
    BY <1>1, <1>6, <2>1, <2>3, <2>4, ConnectFact
  <2>6. x.link = "up"
    BY <1>2, <1>4, <1>12
  <2>7. SoundEnd(e, x, pl)
    BY <1>4, <1>6, <2>5, <2>6 DEF SoundEnd
  <2>8. SoundPair(end[e], end[Across(e)], ch[e])
    BY DEF ConnInv
  <2>9. SoundPair(x, end[Across(e)], ch'[e])
    BY <1>4, <1>6, <1>9, <1>10, <2>8 DEF SoundPair
  <2>10. SoundPair(end[Across(e)], x, ch'[Across(e)])
    BY <1>4, <1>6, <1>10 DEF SoundPair
  <2> QED BY <1>4, <1>5, <1>10, <2>2, <2>5, <2>7, <2>9, <2>10, EndStep
<1> QED BY <1>11, <1>12

(* change_state(READY), once both READY were seen.                         *)
LEMMA EnterReadyStep ==
  ASSUME ConnectionsAssumption, ConnInv, NEW e \in Ends, NEW r \in EndType,
         r.link = end[e].link, r.link \notin {"none", "connecting"},
         r.link = "up" => end[e].st # "hello",
         r.mine, r.peer, r.other,
         NEW out \in [Ends -> Seq(Lines)],
         \A y \in Ends : y # e /\ y # Across(e) => out[y] = ch[y],
         ~IsStatic(e) => /\ \A k : Has(ch[Across(e)], k) => Has(out[Across(e)], k)
                         /\ end[e].mine \/ r.link # "up" \/ Has(out[Across(e)], "READY"),
         EnterReady(e, r, out)
  PROVE  ConnInv'
<1>1. /\ end[e] \in EndType /\ SoundEnd(e, end[e], pool[e[2]])
      /\ e[2] \in Nodes /\ IsPool(pool[e[2]]) /\ SoundPool(e[2], pool[e[2]])
      /\ pool = [pool EXCEPT ![e[2]] = pool[e[2]]]
      /\ SparesOthers(e[1], pool[e[2]], pool[e[2]]) /\ end \in [Ends -> EndType]
  BY StateFact
<1>2. PICK x : x = [r EXCEPT !.st = "ready"]
  OBVIOUS
<1>3. x \in EndType /\ x.link = r.link /\ x.st = "ready" /\ x.peer /\ x.mine /\ x.other
  BY <1>2 DEF EndType
<1>4. CASE MayBecomeReady(e)
  <2>1. PICK pl : pl = OnPeerReady(e[2], pool[e[2]], e[1])
    OBVIOUS
  <2>2. end' = [end EXCEPT ![e] = x] /\ pool' = [pool EXCEPT ![e[2]] = pl]
        /\ ch' = SendIn(out, e, "GET-PEERS")
    BY <1>2, <1>4, <2>1 DEF EnterReady
  <2>3. e[1] \in pool[e[2]].handshaking /\ Remote(e) \in Peers /\ Remote(e) = PeerOf(e[2], e[1])
    BY <1>4, SideFact DEF MayBecomeReady
  <2>4. /\ IsPool(pl) /\ SoundPool(e[2], pl) /\ SparesOthers(e[1], pool[e[2]], pl)
        /\ pl.connected[Remote(e)] = e[1] \/ e[1] \in pl.drops
    BY <1>1, <2>1, <2>3, ReadyFact
  <2>5. end[e].link # "down"
    BY <1>1, <2>3 DEF SoundEnd
  <2>6. SoundEnd(e, x, pl)
    BY <1>3, <2>4, <2>5 DEF SoundEnd
  <2>7. "GET-PEERS" \in Lines
    BY DEF Lines
  <2>8. PICK new : new = SendIn(out, e, "GET-PEERS")
    OBVIOUS
  <2>9. /\ ch' = new /\ new \in [Ends -> Seq(Lines)]
        /\ \A y \in Ends : y # Across(e) => new[y] = out[y]
        /\ \A y \in Ends : \A k : Has(out[y], k) => Has(new[y], k)
    BY <2>2, <2>7, <2>8, SendFact
  <2>10. ASSUME ~IsStatic(e)
         PROVE  /\ SoundPair(x, end[Across(e)], ch'[e])
                /\ SoundPair(end[Across(e)], x, ch'[Across(e)])
    <3>1. Across(e) \in Ends /\ Across(Across(e)) = e /\ ~IsStatic(Across(e))
      BY <2>10, AcrossFact
    <3>2. SoundPair(end[Across(e)], end[e], ch[Across(e)])
      BY <3>1 DEF ConnInv
    <3>3. \A k : Has(ch[Across(e)], k) => Has(ch'[Across(e)], k)
      BY <2>9, <2>10, <3>1
    <3>4. end[e].mine \/ r.link # "up" \/ Has(ch'[Across(e)], "READY")
      BY <2>9, <2>10, <3>1
    <3>5. SoundPair(x, end[Across(e)], ch'[e])
      BY <1>3 DEF SoundPair
    <3>6. SoundPair(end[Across(e)], x, ch'[Across(e)])
      BY <1>3, <3>2, <3>3, <3>4 DEF SoundPair
    <3> QED BY <3>5, <3>6
  <2> QED BY <1>3, <2>2, <2>4, <2>6, <2>9, <2>10, EndStep
<1>5. CASE ~MayBecomeReady(e)
  <2>1. PICK z : z = Closing(x)
    OBVIOUS
  <2>2. end' = [end EXCEPT ![e] = z] /\ ch' = out /\ pool' = [pool EXCEPT ![e[2]] = pool[e[2]]]
    BY <1>1, <1>2, <1>5, <2>1 DEF EnterReady
  <2>3. /\ z \in EndType /\ z.link # "up" /\ z.peer /\ z.mine
        /\ z = x \/ z.link = "closing"
    BY <1>3, <2>1, ClosingFact
  <2>4. z.link \in {"closing", "aborted", "down"} /\ (z.link = "down" => end[e].link = "down")
    BY <1>1, <1>3, <2>3 DEF EndType
  <2>5. SoundEnd(e, z, pool[e[2]])
    BY <1>1, <2>3, <2>4 DEF SoundEnd
  <2>6. z.link \in ClosedLinks
    BY <2>4 DEF ClosedLinks
  <2> QED BY <1>1, <2>2, <2>3, <2>5, <2>6, CloseStep
<1> QED BY <1>4, <1>5

(* A line is handled by an open end: an end that stays open, with the line *)
(* taken from its channel and perhaps one sent across.                     *)
LEMMA HandledStep ==
  ASSUME ConnectionsAssumption, ConnInv, NEW e \in Ends, NEW x \in EndType,
         end[e].link = "up", x.link = "up", x.mine = end[e].mine, x.peer = end[e].peer,
         ch[e] # <<>>, pool' = pool, end' = [end EXCEPT ![e] = x],
         SoundEnd(e, x, pool[e[2]]), x.st # "hello",
         (Head(ch[e]) # "PEER-ID" /\ x.waits = end[e].waits) \/ x.waits,
         (Head(ch[e]) # "READY" /\ x.other = end[e].other) \/ x.other,
         NEW out \in [Ends -> Seq(Lines)],
         \A y \in Ends : y # Across(e) => out[y] = ch[y],
         ~IsStatic(e) => /\ \A k : Has(ch[Across(e)], k) => Has(out[Across(e)], k)
                         /\ x.st = end[e].st \/ Has(out[Across(e)], "PEER-ID"),
         ch' = [out EXCEPT ![e] = Tail(ch[e])]
  PROVE  ConnInv'
<1>1. /\ end[e] \in EndType /\ SoundEnd(e, end[e], pool[e[2]]) /\ ch[e] \in Seq(Lines)
      /\ e[2] \in Nodes /\ IsPool(pool[e[2]]) /\ SoundPool(e[2], pool[e[2]])
      /\ pool = [pool EXCEPT ![e[2]] = pool[e[2]]]
      /\ SparesOthers(e[1], pool[e[2]], pool[e[2]]) /\ end \in [Ends -> EndType]
  BY StateFact
<1>2. PICK rest \in Seq(Lines) : /\ rest = Tail(ch[e])
                                 /\ \A k : Has(ch[e], k) => k = Head(ch[e]) \/ Has(rest, k)
  BY <1>1, HasTail
<1>3. /\ ch' \in [Ends -> Seq(Lines)] /\ ch'[e] = rest
      /\ \A y \in Ends : y # e => ch'[y] = out[y]
  BY <1>2
<1>4. ASSUME ~IsStatic(e)
      PROVE  SoundPair(x, end[Across(e)], ch'[e]) /\ SoundPair(end[Across(e)], x, ch'[Across(e)])
  <2>1. Across(e) \in Ends /\ Across(e) # e /\ Across(Across(e)) = e /\ ~IsStatic(Across(e))
    BY <1>4, AcrossFact
  <2>2. SoundPair(end[e], end[Across(e)], ch[e]) /\ SoundPair(end[Across(e)], end[e], ch[Across(e)])
    BY <1>4, <2>1 DEF ConnInv
  <2>3. x.st # "none"
    BY DEF SoundEnd
  <2>4. SoundPair(x, end[Across(e)], ch'[e])
    BY <1>2, <1>3, <2>2, <2>3 DEF SoundPair
  <2>5. SoundPair(end[Across(e)], x, ch'[Across(e)])
    BY <1>3, <1>4, <2>1, <2>2 DEF SoundPair
  <2> QED BY <2>4, <2>5
<1> QED
  BY <1>1, <1>3, <1>4, EndStep

LEMMA ReceiveStep ==
  ASSUME ConnectionsAssumption, ConnInv, NEW e \in Ends, Receive(e)
  PROVE  ConnInv'
<1> DEFINE r == end[e]
           m == Head(ch[e])
           rest == Tail(ch[e])
<1>1. /\ r \in EndType /\ SoundEnd(e, r, pool[e[2]]) /\ ch[e] \in Seq(Lines)
      /\ end \in [Ends -> EndType] /\ ch \in [Ends -> Seq(Lines)]
      /\ pool = [pool EXCEPT ![e[2]] = pool[e[2]]]
  BY StateFact
<1>2. r.link = "up" /\ ch[e] # <<>>
  BY DEF Receive
<1>3. rest \in Seq(Lines) /\ m \in Lines
  BY <1>1, <1>2, HasTail
<1>4. \/ Close(e, r, rest)
      \/ m = "HELLO" /\ HandleHello(e, r, rest)
      \/ m = "PEER-ID" /\ HandlePeerId(e, r, rest)
      \/ m = "READY" /\ HandleReady(e, r, rest)
      \/ m = "GET-PEERS" /\ HandleGetPeers(e, r, rest)
  BY DEF Receive
<1>5. CASE Close(e, r, rest)
  <2>1. end' = [end EXCEPT ![e] = Closing(end[e])] /\ pool' = pool
        /\ ch' = [ch EXCEPT ![e] = rest]
    BY <1>5 DEF Close
  <2>2. \E s \in Seq(Lines) : ch' = [ch EXCEPT ![e] = s]
    BY <1>3, <2>1
  <2> QED BY <1>2, <2>1, <2>2, ClosingSteps
<1>6. \A y \in Ends : y # Across(e) => ch[y] = ch[y]
  OBVIOUS
<1>7. CASE m = "HELLO" /\ HandleHello(e, r, rest) /\ ~Close(e, r, rest)
  <2>1. r.st = "hello" /\ end' = [end EXCEPT ![e].st = "peer_id"] /\ pool' = pool
        /\ ch' = [SendIn(ch, e, "PEER-ID") EXCEPT ![e] = rest]
    BY <1>7 DEF HandleHello, Send
  <2>2. PICK x : x = [r EXCEPT !.st = "peer_id"]
    OBVIOUS
  <2>3. /\ x \in EndType /\ x.st = "peer_id" /\ x.link = "up" /\ x.mine = r.mine
        /\ x.peer = r.peer /\ x.waits = r.waits /\ x.other = r.other
    BY <1>1, <1>2, <2>2 DEF EndType
  <2>4. end' = [end EXCEPT ![e] = x]
    BY <1>1, <2>1, <2>2
  <2>5. SoundEnd(e, x, pool[e[2]])
    BY <1>1, <1>2, <2>1, <2>3 DEF SoundEnd
  <2>6. PICK out : out = SendIn(ch, e, "PEER-ID")
    OBVIOUS
  <2>7. "PEER-ID" \in Lines
    BY DEF Lines
  <2>8. /\ out \in [Ends -> Seq(Lines)] /\ \A y \in Ends : y # Across(e) => out[y] = ch[y]
        /\ \A y \in Ends : \A k : Has(ch[y], k) => Has(out[y], k)
        /\ ~IsStatic(e) => Has(out[Across(e)], "PEER-ID")
    <3>1. ch \in [Ends -> Seq(Lines)]
      BY <1>1
    <3>2. end[e].link \in {"connecting", "none", "up"}
      BY <1>2
    <3> QED BY <2>6, <2>7, <3>1, <3>2, SendFact
  <2>9. ~IsStatic(e) => \A k : Has(ch[Across(e)], k) => Has(out[Across(e)], k)
    BY <2>8, AcrossFact
  <2>10. ch' = [out EXCEPT ![e] = Tail(ch[e])]
    BY <2>1, <2>6
  <2> QED BY <1>2, <1>7, <2>1, <2>3, <2>4, <2>5, <2>8, <2>9, <2>10, HandledStep
<1>8. CASE m = "PEER-ID" /\ HandlePeerId(e, r, rest) /\ ~Close(e, r, rest)
  <2>1. r.st = "peer_id" /\ end' = [end EXCEPT ![e].waits = TRUE] /\ pool' = pool
        /\ ch' = [ch EXCEPT ![e] = Tail(ch[e])]
    BY <1>8 DEF HandlePeerId
  <2>2. PICK x : x = [r EXCEPT !.waits = TRUE]
    OBVIOUS
  <2>3. /\ x \in EndType /\ x.st = r.st /\ x.link = "up" /\ x.mine = r.mine
        /\ x.peer = r.peer /\ x.waits /\ x.other = r.other
    BY <1>1, <1>2, <2>2 DEF EndType
  <2>4. end' = [end EXCEPT ![e] = x]
    BY <1>1, <2>1, <2>2
  <2>5. SoundEnd(e, x, pool[e[2]])
    BY <1>1, <1>2, <2>1, <2>3 DEF SoundEnd
  <2> QED BY <1>1, <1>2, <1>8, <2>1, <2>3, <2>4, <2>5, HandledStep
<1>9. CASE m = "READY" /\ HandleReady(e, r, rest)
  <2>1. PICK x : x = [r EXCEPT !.other = TRUE]
    OBVIOUS
  <2>2. /\ x \in EndType /\ x.st = r.st /\ x.link = "up" /\ x.mine = r.mine
        /\ x.peer = r.peer /\ x.waits = r.waits /\ x.other
    BY <1>1, <1>2, <2>1 DEF EndType
  <2>3. r.st = "peer_id"
    BY <1>9 DEF HandleReady
  <2>4. CASE r.mine
    <3>1. PICK out : out = [ch EXCEPT ![e] = rest]
      OBVIOUS
    <3>2. /\ out \in [Ends -> Seq(Lines)] /\ \A y \in Ends : y # e => out[y] = ch[y]
      BY <1>1, <1>3, <3>1
    <3>3. EnterReady(e, x, out)
      BY <1>9, <2>1, <2>4, <3>1 DEF HandleReady
    <3>4. x.peer
      BY <1>1, <2>2, <2>4 DEF SoundEnd
    <3>5. ~IsStatic(e) => out[Across(e)] = ch[Across(e)]
      BY <3>2, AcrossFact
    <3> QED BY <1>2, <2>2, <2>3, <2>4, <3>2, <3>3, <3>4, <3>5, EnterReadyStep
  <2>5. CASE ~r.mine
    <3>1. end' = [end EXCEPT ![e].other = TRUE] /\ pool' = pool
          /\ ch' = [ch EXCEPT ![e] = Tail(ch[e])]
      BY <1>9, <2>5 DEF HandleReady
    <3>2. end' = [end EXCEPT ![e] = x]
      BY <1>1, <2>1, <3>1
    <3>3. SoundEnd(e, x, pool[e[2]])
      BY <1>1, <1>2, <2>2, <2>3, <2>5 DEF SoundEnd
    <3> QED BY <1>1, <1>2, <1>9, <2>2, <2>3, <3>1, <3>2, <3>3, HandledStep
  <2> QED BY <2>4, <2>5
<1>10. CASE m = "GET-PEERS" /\ HandleGetPeers(e, r, rest)
  <2>1. r.st = "ready" /\ end' = [end EXCEPT ![e] = end[e]] /\ pool' = pool
        /\ ch' = [ch EXCEPT ![e] = Tail(ch[e])]
    BY <1>1, <1>10 DEF HandleGetPeers
  <2> QED BY <1>1, <1>2, <1>10, <2>1, HandledStep
<1> HIDE DEF r, m, rest
<1> QED BY <1>4, <1>5, <1>7, <1>8, <1>9, <1>10

LEMMA ResumeStep ==
  ASSUME ConnectionsAssumption, ConnInv, NEW e \in Ends, ResumePeerId(e)
  PROVE  ConnInv'
<1>1. /\ end[e] \in EndType /\ SoundEnd(e, end[e], pool[e[2]]) /\ ch[e] \in Seq(Lines)
      /\ end \in [Ends -> EndType] /\ ch \in [Ends -> Seq(Lines)]
      /\ e[2] \in Nodes /\ IsPool(pool[e[2]]) /\ SoundPool(e[2], pool[e[2]])
      /\ pool = [pool EXCEPT ![e[2]] = pool[e[2]]]
      /\ SparesOthers(e[1], pool[e[2]], pool[e[2]])
  BY StateFact
<1>2. end[e].waits /\ end[e].link \notin {"none", "connecting"}
      /\ (end[e].link = "up" => end[e].st # "hello") /\ (end[e].mine => end[e].peer)
  BY <1>1 DEF ResumePeerId, SoundEnd
<1>3. PICK r : r = [end[e] EXCEPT !.waits = FALSE]
  OBVIOUS
<1>4. /\ r \in EndType /\ ~r.waits /\ r.st = end[e].st /\ r.link = end[e].link
      /\ r.peer = end[e].peer /\ r.mine = end[e].mine /\ r.other = end[e].other
  BY <1>1, <1>3 DEF EndType
<1>5. PICK known : known = [r EXCEPT !.peer = TRUE, !.mine = TRUE]
  OBVIOUS
<1>6. /\ known \in EndType /\ ~known.waits /\ known.st = end[e].st /\ known.link = end[e].link
      /\ known.peer /\ known.mine /\ known.other = end[e].other
  BY <1>4, <1>5 DEF EndType
<1>7. PICK peer : peer = [r EXCEPT !.peer = TRUE]
  OBVIOUS
<1>8. /\ peer \in EndType /\ peer.link = end[e].link /\ peer.peer /\ peer.mine = end[e].mine
  BY <1>4, <1>7 DEF EndType
<1>9. \/ (r.other /\ EnterReady(e, known, SendIn(ch, e, "READY")))
      \/ (~r.other /\ end' = [end EXCEPT ![e] = known] /\ ch' = SendIn(ch, e, "READY") /\ pool' = pool)
      \/ (end' = [end EXCEPT ![e] = Closing(r)] /\ ch' = ch /\ pool' = pool)
      \/ (end' = [end EXCEPT ![e] = Aborted(peer)] /\ ch' = ch /\ pool' = pool)
  BY <1>3, <1>5, <1>7 DEF ResumePeerId, Send
<1>10. PICK out : out = SendIn(ch, e, "READY")
  OBVIOUS
<1>11. "READY" \in Lines
  BY DEF Lines
<1>12. /\ out \in [Ends -> Seq(Lines)] /\ \A y \in Ends : y # Across(e) => out[y] = ch[y]
       /\ \A y \in Ends : \A k : Has(ch[y], k) => Has(out[y], k)
       /\ ~IsStatic(e) /\ end[e].link = "up" => Has(out[Across(e)], "READY")
  <2>1. ch \in [Ends -> Seq(Lines)]
    BY <1>1
  <2>2. end[e].link = "up" => end[e].link \in {"connecting", "none", "up"}
    OBVIOUS
  <2> QED BY <1>10, <1>11, <2>1, <2>2, SendFact
<1>13. ~IsStatic(e) => \A k : Has(ch[Across(e)], k) => Has(out[Across(e)], k)
  BY <1>12, AcrossFact
<1>14. CASE r.other /\ EnterReady(e, known, out)
  BY <1>2, <1>4, <1>6, <1>12, <1>13, <1>14, EnterReadyStep
<1>15. CASE ~r.other /\ end' = [end EXCEPT ![e] = known] /\ ch' = out /\ pool' = pool
  <2>1. SoundEnd(e, known, pool[e[2]])
    BY <1>1, <1>2, <1>4, <1>6, <1>15 DEF SoundEnd
  <2>2. ASSUME ~IsStatic(e)
        PROVE  /\ SoundPair(known, end[Across(e)], ch'[e])
               /\ SoundPair(end[Across(e)], known, ch'[Across(e)])
    <3>1. Across(e) \in Ends /\ Across(e) # e /\ Across(Across(e)) = e /\ ~IsStatic(Across(e))
      BY <2>2, AcrossFact
    <3>2. SoundPair(end[e], end[Across(e)], ch[e]) /\ SoundPair(end[Across(e)], end[e], ch[Across(e)])
      BY <2>2, <3>1 DEF ConnInv
    <3>3. ch'[e] = ch[e]
      BY <1>12, <1>15, <3>1
    <3>4. SoundPair(known, end[Across(e)], ch'[e])
      BY <1>6, <3>2, <3>3 DEF SoundPair
    <3>5. SoundPair(end[Across(e)], known, ch'[Across(e)])
      BY <1>6, <1>12, <1>13, <1>15, <2>2, <3>2 DEF SoundPair
    <3> QED BY <3>4, <3>5
  <2> QED BY <1>1, <1>6, <1>12, <1>15, <2>1, <2>2, EndStep
<1>16. CASE end' = [end EXCEPT ![e] = Closing(r)] /\ ch' = ch /\ pool' = pool
  <2>1. PICK z : z = Closing(r)
    OBVIOUS
  <2>2. /\ z \in EndType /\ z.link # "up" /\ z.peer = r.peer /\ z.mine = r.mine
        /\ z = r \/ z.link = "closing"
    BY <1>4, <2>1, ClosingFact
  <2>3. z.link \in {"closing", "aborted", "down"} /\ (z.link = "down" => end[e].link = "down")
    BY <1>2, <1>4, <2>2 DEF EndType
  <2>4. SoundEnd(e, z, pool[e[2]])
    BY <1>1, <1>4, <2>2, <2>3 DEF SoundEnd
  <2>5. z.link \in ClosedLinks
    BY <2>3 DEF ClosedLinks
  <2> QED BY <1>1, <1>16, <2>1, <2>2, <2>4, <2>5, CloseStep
<1>17. CASE end' = [end EXCEPT ![e] = Aborted(peer)] /\ ch' = ch /\ pool' = pool
  <2>1. PICK z : z = Aborted(peer)
    OBVIOUS
  <2>2. /\ z \in EndType /\ z.link # "up" /\ z.peer
        /\ z = peer \/ z.link = "aborted"
    BY <1>8, <2>1, ClosingFact
  <2>3. z.link \in {"closing", "aborted", "down"} /\ (z.link = "down" => end[e].link = "down")
    BY <1>2, <1>8, <2>2 DEF EndType
  <2>4. SoundEnd(e, z, pool[e[2]])
    BY <1>1, <2>2, <2>3 DEF SoundEnd
  <2>5. z.link \in ClosedLinks
    BY <2>3 DEF ClosedLinks
  <2> QED BY <1>1, <1>17, <2>1, <2>2, <2>4, <2>5, CloseStep
<1> QED
  BY <1>9, <1>10, <1>14, <1>15, <1>16, <1>17

LEMMA DropDuplicateStep ==
  ASSUME ConnectionsAssumption, ConnInv, NEW e \in Ends, DropDuplicate(e)
  PROVE  ConnInv'
<1>1. /\ end[e] \in EndType /\ SoundEnd(e, end[e], pool[e[2]])
      /\ ch \in [Ends -> Seq(Lines)]
      /\ e[2] \in Nodes /\ IsPool(pool[e[2]]) /\ SoundPool(e[2], pool[e[2]])
  BY StateFact
<1>2. PICK pl : pl = WithoutDrop(pool[e[2]], e[1])
  OBVIOUS
<1>3. pool = [n \in Nodes |-> pool[n]]
  BY DEF ConnInv
<1>4. pool' = [pool EXCEPT ![e[2]] = pl]
  BY <1>1, <1>2, <1>3 DEF DropDuplicate, WithoutDrop
<1>5. /\ IsPool(pl) /\ SoundPool(e[2], pl) /\ SparesOthers(e[1], pool[e[2]], pl)
      /\ pl.handshaking = pool[e[2]].handshaking /\ pl.enabled = pool[e[2]].enabled
      /\ pl.connected = pool[e[2]].connected
  BY <1>1, <1>2, DropFact
<1>6. PICK x : x = Closing(end[e])
  OBVIOUS
<1>7. /\ x \in EndType /\ x.link # "up" /\ x.peer = end[e].peer /\ x.mine = end[e].mine
      /\ x = end[e] \/ x.link = "closing"
  BY <1>1, <1>6, ClosingFact
<1>8. SoundEnd(e, x, pl)
  BY <1>1, <1>5, <1>7 DEF SoundEnd
<1>9. x.link \in ClosedLinks \/ x = end[e]
  BY <1>7 DEF ClosedLinks
<1>10. end' = [end EXCEPT ![e] = x] /\ ch' = ch
  BY <1>6 DEF DropDuplicate
<1> QED
  BY <1>1, <1>4, <1>5, <1>7, <1>8, <1>9, <1>10, CloseStep

LEMMA UnchangedStep ==
  ASSUME ConnInv, UNCHANGED <<end, ch, pool>>
  PROVE  ConnInv'
BY ConnPrime DEF ConnInv

LEMMA DropPeerStep ==
  ASSUME ConnectionsAssumption, ConnInv, NEW n \in Nodes, NEW p \in Peers, DropPeer(n, p)
  PROVE  ConnInv'
<1>1. PICK e : e = <<pool[n].connected[p], n>>
  OBVIOUS
<1>2. end' = [end EXCEPT ![e] = Closing(end[e])] /\ ch' = ch /\ pool' = pool
  BY <1>1 DEF DropPeer
<1>3. CASE e \in Ends
  BY <1>2, <1>3, ClosingSteps
<1>4. CASE e \notin Ends
  <2>1. end \in [Ends -> EndType]
    BY DEF ConnInv
  <2>2. end' = end
    BY <1>2, <1>4, <2>1
  <2> QED BY <1>2, <2>2, UnchangedStep
<1> QED BY <1>3, <1>4

LEMMA IdleTimeoutStep ==
  ASSUME ConnectionsAssumption, ConnInv, NEW e \in Ends, IdleTimeout(e)
  PROVE  ConnInv'
<1>1. end' = [end EXCEPT ![e] = Aborted(end[e])] /\ ch' = ch /\ pool' = pool
  BY DEF IdleTimeout
<1> QED
  BY <1>1, ClosingSteps

LEMMA LostStep ==
  ASSUME ConnectionsAssumption, ConnInv, NEW e \in Ends, ConnectionLost(e)
  PROVE  ConnInv'
<1>1. /\ end[e] \in EndType /\ SoundEnd(e, end[e], pool[e[2]])
      /\ ch \in [Ends -> Seq(Lines)] /\ end \in [Ends -> EndType]
      /\ e[2] \in Nodes /\ IsPool(pool[e[2]]) /\ SoundPool(e[2], pool[e[2]])
  BY StateFact
<1>2. PICK pl : pl = OnPeerDisconnect(e[2], pool[e[2]], e[1], end[e].peer)
  OBVIOUS
<1>3. e[1] \in Conns /\ Remote(e) \in Peers /\ Remote(e) = PeerOf(e[2], e[1])
  BY SideFact
<1>4. pool[e[2]].connected[Remote(e)] = e[1] => end[e].peer
  BY <1>1 DEF SoundEnd
<1>5. /\ IsPool(pl) /\ SoundPool(e[2], pl) /\ SparesOthers(e[1], pool[e[2]], pl)
      /\ e[1] \notin pl.handshaking /\ e[1] \notin pl.enabled /\ pl.connected[Remote(e)] # e[1]
  BY <1>1, <1>2, <1>3, <1>4, DisconnectFact
<1>6. PICK x : x = [end[e] EXCEPT !.link = "down", !.st = "closed"]
  OBVIOUS
<1>7. x \in EndType /\ x.link = "down" /\ x.peer = end[e].peer /\ x.mine = end[e].mine
  BY <1>1, <1>6 DEF EndType
<1>8. end' = [end EXCEPT ![e] = x]
  <2>1. end' = [end EXCEPT ![e].link = "down", ![e].st = "closed"]
    BY DEF ConnectionLost
  <2> QED BY <1>1, <1>6, <2>1
<1>9. pool' = [pool EXCEPT ![e[2]] = pl] /\ ch' = [ch EXCEPT ![e] = <<>>]
  BY <1>2 DEF ConnectionLost
<1>10. <<>> \in Seq(Lines)
  OBVIOUS
<1>11. ch' \in [Ends -> Seq(Lines)] /\ \A y \in Ends : y # e => ch'[y] = ch[y]
  BY <1>1, <1>9, <1>10
<1>12. SoundEnd(e, x, pl)
  BY <1>1, <1>5, <1>7 DEF SoundEnd
<1>13. x.link \in ClosedLinks
  BY <1>7 DEF ClosedLinks
<1> QED
  BY <1>5, <1>7, <1>8, <1>9, <1>11, <1>12, <1>13, CloseStep

LEMMA SyncPoolStep ==
  ASSUME ConnectionsAssumption, ConnInv, NEW n \in Nodes,
         SyncUpdate(n) \/ \E ps : SetAlways(n, ps)
  PROVE  ConnInv'
<1>1. IsPool(pool[n]) /\ SoundPool(n, pool[n])
  BY DEF ConnInv
<1>2. UNCHANGED <<end, ch>>
  BY DEF SyncUpdate, SetAlways
<1>3. PICK pl : /\ pool' = [pool EXCEPT ![n] = pl]
                /\ \/ \E S \in Selections(pool[n]) : pl = SyncRotate(pool[n], S)
                   \/ \E ps : pl = SetAlwaysEnableSync(pool[n], ps)
  BY DEF SyncUpdate, SetAlways
<1>4. IsPool(pl) /\ SoundPool(n, pl) /\ SparesOthers(None, pool[n], pl)
  BY <1>1, <1>3, RotateFact, AlwaysFact
<1> QED
  BY <1>2, <1>3, <1>4, PoolStep

LEMMA ConnNextHolds ==
  ASSUME ConnectionsAssumption, ConnInv, [Next]_vars
  PROVE  ConnInv'
<1>1. CASE UNCHANGED vars
  BY <1>1, UnchangedStep DEF vars
<1>2. ASSUME NEW c \in Conns \ Static, ClientConnects(c) \/ ServerAccepts(c)
      PROVE  ConnInv'
  <2>1. PICK e : e \in {<<c, From[c]>>, <<c, To[c]>>} /\ OnConnect(e)
                 /\ end[e].link \in {"none", "connecting"}
    BY <1>2 DEF ClientConnects, ServerAccepts
  <2>2. e \in Ends /\ ~IsStatic(e)
    BY <2>1 DEF ConnectionsAssumption, Ends, Conns, IsStatic
  <2> QED BY <2>1, <2>2, ConnectStep
<1>3. CASE \E c \in Conns \ Static :
               Dial(c) \/ ConnectionFails(c) \/ ClientConnects(c) \/ ServerAccepts(c)
  BY <1>2, <1>3, DialStep, FailStep
<1>4. CASE \E e \in Ends : \/ Receive(e) \/ ResumePeerId(e) \/ DropDuplicate(e)
                           \/ IdleTimeout(e) \/ ConnectionLost(e)
  BY <1>4, ReceiveStep, ResumeStep, DropDuplicateStep, IdleTimeoutStep, LostStep
<1>5. CASE \E n \in Nodes : SyncUpdate(n)
  BY <1>5, SyncPoolStep
<1>6. CASE \E n \in Nodes, p \in Peers : DropPeer(n, p)
  BY <1>6, DropPeerStep
<1>7. CASE \E n \in Nodes : \E ps \in AlwaysLists[n] : SetAlways(n, ps)
  BY <1>7, SyncPoolStep
<1> QED
  BY <1>1, <1>3, <1>4, <1>5, <1>6, <1>7 DEF Next

(* The static connections of a node, all in connected_peers.               *)
LEMMA StaticFact ==
  ASSUME ConnectionsAssumption, NEW n \in Nodes, NEW max, NEW on \in FirstOnes(n)
  PROVE  /\ IsPool(StaticPool(n, max, on)) /\ SoundPool(n, StaticPool(n, max, on))
         /\ StaticPool(n, max, on).handshaking = {}
         /\ StaticPool(n, max, on).enabled \subseteq Static
         /\ \A p \in Peers : StaticPool(n, max, on).connected[p] \in Static \cup {None}
         /\ \A c \in StaticOf(n) : StaticPool(n, max, on).connected[PeerOf(n, c)] = c
<1> DEFINE S == StaticOf(n)
           conn == [p \in Peers |->
                       IF \E c \in S : PeerOf(n, c) = p
                       THEN CHOOSE c \in S : PeerOf(n, c) = p ELSE None]
<1>1. /\ S \subseteq Static /\ Static \subseteq Conns /\ None \notin Conns
      /\ \A c \in S : n \in {From[c], To[c]}
      /\ \A c, d \in S : PeerOf(n, c) = PeerOf(n, d) => c = d
  BY DEF ConnectionsAssumption, StaticOf
<1>2. on \subseteq S /\ Cardinality(on) = IF Cardinality(S) < MaxEnabledSync
                                          THEN Cardinality(S) ELSE MaxEnabledSync
  BY DEF FirstOnes, kSubset
<1>3. IsFiniteSet(S) /\ IsFiniteSet(on)
  BY <1>1, <1>2, FS_Subset DEF ConnectionsAssumption
<1>4. Cardinality(on) \in Nat /\ Cardinality(on) <= MaxEnabledSync /\ MaxEnabledSync \in Nat
  BY <1>2, <1>3, FS_CardinalityType DEF ConnectionsAssumption
<1>5. \A c \in S : PeerOf(n, c) \in Peers
  BY <1>1 DEF ConnectionsAssumption, PeerOf
<1> HIDE DEF S
<1>6. ASSUME NEW p \in Peers
      PROVE  \/ conn[p] = None /\ ~ \E c \in S : PeerOf(n, c) = p
             \/ conn[p] \in S /\ PeerOf(n, conn[p]) = p
  <2>1. CASE \E c \in S : PeerOf(n, c) = p
    <3>1. conn[p] = CHOOSE c \in S : PeerOf(n, c) = p
      BY <2>1
    <3>2. (CHOOSE c \in S : PeerOf(n, c) = p) \in S
          /\ PeerOf(n, CHOOSE c \in S : PeerOf(n, c) = p) = p
      BY <2>1
    <3> QED BY <3>1, <3>2, Zenon
  <2>2. CASE ~ \E c \in S : PeerOf(n, c) = p
    BY <2>2
  <2> QED BY <2>1, <2>2
<1>7. PICK f : f = conn
  OBVIOUS
<1>8. f \in [Peers -> Conns \cup {None}]
  <2>1. f = [p \in Peers |-> f[p]]
    BY <1>7
  <2>2. \A p \in Peers : f[p] \in Conns \cup {None}
    BY <1>1, <1>6, <1>7
  <2> QED BY <2>1, <2>2
<1>9. /\ \A p \in Peers : f[p] = None \/ (f[p] \in S /\ PeerOf(n, f[p]) = p)
      /\ \A c \in S : f[PeerOf(n, c)] = c
  BY <1>1, <1>5, <1>6, <1>7
<1>10. PICK q : q = SetToSeq({PeerOf(n, c) : c \in S})
  OBVIOUS
<1>11. PICK Q : Q = {max, <<>>, {}, q}
  OBVIOUS
<1>12. PICK g : g = [p \in Peers |-> None]
  OBVIOUS
<1>13. PICK ep : ep = EmptyPool(max)
  OBVIOUS
<1>14. ep = [max_connections |-> max, connections |-> {}, handshaking |-> {}, connected |-> g,
             queue |-> <<>>, enabled |-> {}, always |-> {}, drops |-> {}]
  BY <1>12, <1>13 DEF EmptyPool
<1>15. g \in [Peers -> Conns \cup {None}]
  BY <1>12
<1>16. ep \in PoolOver(Q) /\ ep.handshaking = {}
  BY <1>11, <1>14, <1>15 DEF PoolOver
<1>17. PICK pl : pl = [ep EXCEPT !.connections = S, !.connected = f, !.queue = q, !.enabled = on]
  OBVIOUS
<1>18. StaticPool(n, max, on) = pl
  <2>1. PICK k : k = S
    OBVIOUS
  <2> QED BY <1>7, <1>10, <1>13, <1>17 DEF StaticPool, S
<1>19. S \in SUBSET Conns /\ on \in SUBSET Conns /\ q \in Q
  BY <1>1, <1>2, <1>11
<1>20. pl \in PoolOver(Q) /\ pl.handshaking = {} /\ pl.connected = f /\ pl.enabled = on
  BY <1>8, <1>16, <1>17, <1>19 DEF PoolOver
<1>21. Cardinality(Counted(pl)) <= MaxEnabledSync
  <2>1. PICK h : h = [p \in Counted(pl) |-> f[p]]
    OBVIOUS
  <2>2. \A p \in Counted(pl) : p \in Peers /\ f[p] \in on
    BY <1>20 DEF Counted
  <2>3. h \in [Counted(pl) -> on]
    BY <2>1, <2>2
  <2>4. \A p, x \in Counted(pl) : h[p] = h[x] => p = x
    BY <1>1, <1>9, <1>19, <2>1, <2>2
  <2>5. h \in Injection(Counted(pl), on)
    BY <2>3, <2>4 DEF Injection, IsInjective
  <2>6. IsFiniteSet(Counted(pl)) /\ Cardinality(Counted(pl)) <= Cardinality(on)
    BY <1>3, <2>5, FS_Injection
  <2>7. Cardinality(Counted(pl)) \in Nat
    BY <2>6, FS_CardinalityType
  <2> QED BY <1>4, <2>6, <2>7
<1>22. SoundPool(n, pl)
  BY <1>9, <1>20, <1>21 DEF SoundPool
<1>23. IsPool(pl)
  BY <1>20 DEF IsPool
<1> QED
  BY <1>1, <1>2, <1>9, <1>18, <1>20, <1>22, <1>23 DEF S

LEMMA ConnInitHolds ==
  ASSUME ConnectionsAssumption, Init
  PROVE  ConnInv
<1>1. PICK max \in Limits, on \in [Nodes -> SUBSET Static] :
          /\ \A n \in Nodes : on[n] \in FirstOnes(n)
          /\ pool = [n \in Nodes |-> StaticPool(n, max, on[n])]
  BY DEF Init
<1>2. pool = [n \in Nodes |-> pool[n]]
  BY <1>1
<1>3. ASSUME NEW n \in Nodes
      PROVE  /\ IsPool(pool[n]) /\ SoundPool(n, pool[n])
             /\ pool[n].handshaking = {} /\ pool[n].enabled \subseteq Static
             /\ \A p \in Peers : pool[n].connected[p] \in Static \cup {None}
             /\ \A c \in StaticOf(n) : pool[n].connected[PeerOf(n, c)] = c
  BY <1>1, StaticFact
<1>4. NewEnd \in EndType /\ ReadyEnd \in EndType
  BY DEF NewEnd, ReadyEnd, EndType
<1>5. /\ end \in [Ends -> EndType]
      /\ \A e \in Ends : end[e] = IF IsStatic(e) THEN ReadyEnd ELSE NewEnd
  BY <1>4 DEF Init
<1>6. <<>> \in Seq(Lines)
  OBVIOUS
<1>7. ch \in [Ends -> Seq(Lines)]
  BY <1>6 DEF Init
<1>8. ASSUME NEW e \in Ends PROVE SoundEnd(e, end[e], pool[e[2]])
  <2>1. e[1] \in Conns /\ e[2] \in Nodes /\ e[1] # None /\ Remote(e) \in Peers
        /\ Remote(e) = PeerOf(e[2], e[1])
    BY SideFact
  <2>2. CASE IsStatic(e)
    <3>1. e[1] \in StaticOf(e[2])
      BY <2>2 DEF StaticOf, IsStatic, Ends
    <3>2. pool[e[2]].connected[Remote(e)] = e[1]
      BY <1>3, <2>1, <3>1
    <3> QED BY <1>5, <2>2, <3>2 DEF SoundEnd, ReadyEnd
  <2>3. CASE ~IsStatic(e)
    <3>1. /\ e[1] \notin pool[e[2]].handshaking \cup pool[e[2]].enabled
          /\ pool[e[2]].connected[Remote(e)] # e[1]
      BY <1>3, <2>1, <2>3 DEF IsStatic
    <3> QED BY <1>5, <2>3, <3>1 DEF SoundEnd, NewEnd
  <2> QED BY <2>2, <2>3
<1>9. ASSUME NEW e \in Ends, ~IsStatic(e) PROVE SoundPair(end[e], end[Across(e)], ch[e])
  <2>1. Across(e) \in Ends /\ ~IsStatic(Across(e))
    BY <1>9, AcrossFact
  <2>2. end[Across(e)].link = "none"
    BY <1>5, <2>1 DEF NewEnd
  <2> QED BY <2>2 DEF SoundPair
<1> QED
  BY <1>2, <1>3, <1>5, <1>7, <1>8, <1>9 DEF ConnInv

(* At rest, an open end has nothing left to wait for.                      *)
LEMMA AgreeFact ==
  ASSUME ConnectionsAssumption, ConnInv
  PROVE  EndsAgreeAtRest
<1>1. SUFFICES ASSUME AtRest, NEW e \in Ends
               PROVE  end[e].link = "up" <=> pool[e[2]].connected[Remote(e)] = e[1]
  BY DEF EndsAgreeAtRest
<1>2. SoundEnd(e, end[e], pool[e[2]]) /\ e[2] \in Nodes
  BY StateFact
<1>3. ~end[e].waits /\ end[e].link \in {"none", "up", "down"} /\ pool[e[2]].drops = {}
  BY <1>1, <1>2 DEF AtRest
<1>4. ASSUME pool[e[2]].connected[Remote(e)] = e[1] PROVE end[e].link = "up"
  BY <1>2, <1>3, <1>4 DEF SoundEnd
<1>5. ASSUME end[e].link = "up" PROVE end[e].st = "ready"
  <2>1. CASE IsStatic(e)
    BY <1>2, <1>5, <2>1 DEF SoundEnd
  <2>2. CASE ~IsStatic(e)
    <3>1. PICK f \in Ends : f = Across(e) /\ Across(f) = e /\ ~IsStatic(f) /\ f[1] = e[1]
      BY <2>2, AcrossFact
    <3>2. end[f].link = "up"
      <4>1. PICK c \in Conns \ Static : c = e[1]
        BY <2>2, SideFact DEF IsStatic
      <4>2. end[<<c, From[c]>>].link = end[<<c, To[c]>>].link
        BY <1>1, <4>1 DEF AtRest, Conns
      <4>3. \/ (e = <<c, From[c]>> /\ f = <<c, To[c]>>)
            \/ (e = <<c, To[c]>> /\ f = <<c, From[c]>>)
        <5>1. e = <<c, e[2]>> /\ e[2] \in {From[c], To[c]} /\ From[c] # To[c]
          BY <4>1, SideFact DEF Ends, ConnectionsAssumption
        <5>2. f = <<c, IF From[c] = e[2] THEN To[c] ELSE From[c]>>
          BY <3>1, <4>1 DEF Across, Remote
        <5> QED BY <5>1, <5>2
      <4> QED BY <1>5, <4>2, <4>3
    <3>3. SoundEnd(f, end[f], pool[f[2]])
      BY StateFact
    <3>4. ~end[f].waits /\ ch[f] = <<>> /\ ch[e] = <<>>
      BY <1>1, <1>5, <3>2 DEF AtRest
    <3>5. SoundPair(end[e], end[f], ch[e]) /\ SoundPair(end[f], end[e], ch[f])
      BY <2>2, <3>1 DEF ConnInv
    <3>6. \A m : ~Has(<<>>, m)
      BY DEF Has
    <3>7. end[e].st \in {"peer_id", "ready"} /\ end[f].st \in {"peer_id", "ready"}
      BY <1>2, <1>5, <3>2, <3>3, <3>4, <3>5, <3>6 DEF SoundEnd, SoundPair
    <3>8. end[e].mine /\ end[f].mine
      BY <1>3, <1>5, <3>2, <3>4, <3>5, <3>6, <3>7 DEF SoundPair
    <3>9. end[e].other
      BY <1>5, <3>2, <3>4, <3>5, <3>6, <3>8 DEF SoundPair
    <3> QED BY <1>2, <1>5, <3>7, <3>8, <3>9 DEF SoundEnd
  <2> QED BY <2>1, <2>2
<1>6. ASSUME end[e].link = "up" PROVE pool[e[2]].connected[Remote(e)] = e[1]
  BY <1>2, <1>3, <1>5, <1>6 DEF SoundEnd
<1> QED
  BY <1>4, <1>6

(***************************************************************************)
(* When nothing is on its way, the two ends of every open connection are   *)
(* READY and are the one that connected_peers holds for the other node,    *)
(* for any number of nodes and connections between them and any order of   *)
(* dials, handshakes, duplicates, refusals, timeouts and drops.            *)
(***************************************************************************)
THEOREM OpenConnectionsAgree ==
  ASSUME ConnectionsAssumption PROVE Spec => []EndsAgreeAtRest
<1>1. Init => ConnInv
  BY ConnInitHolds
<1>2. ConnInv /\ [Next]_vars => ConnInv'
  BY ConnNextHolds
<1>3. ConnInv => EndsAgreeAtRest
  BY AgreeFact
<1> QED
  BY <1>1, <1>2, <1>3, PTL DEF Spec

(***************************************************************************)
(* A node never syncs from more than MAX_ENABLED_SYNC peers outside of its *)
(* always-enabled list, for any number of peers and any such bound, in any *)
(* order of connections, duplicates, rotations and changes of the list.    *)
(***************************************************************************)
THEOREM SyncsAreBounded ==
  ASSUME ConnectionsAssumption PROVE Spec => []EnabledSyncsAreBounded
<1>1. Init => ConnInv
  BY ConnInitHolds
<1>2. ConnInv /\ [Next]_vars => ConnInv'
  BY ConnNextHolds
<1>3. ConnInv => EnabledSyncsAreBounded
  BY DEF ConnInv, SoundPool, Counted, EnabledSyncsAreBounded
<1> QED
  BY <1>1, <1>2, <1>3, PTL DEF Spec
=============================================================================
