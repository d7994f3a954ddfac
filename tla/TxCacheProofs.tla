---------------------------- MODULE TxCacheProofs ----------------------------
(***************************************************************************)
(* Proofs about TxCache, for any transactions, any positive capacities and *)
(* any number of versions.                                                 *)
(*                                                                         *)
(* LastSaveSurvives is not inductive as it stands.  It needs that the      *)
(* object in memory is never older than the last save (otherwise a write   *)
(* would undo a save), that a cleared mark is followed by a write or by a  *)
(* removal, and that a save marks a transaction that is in the cache: the  *)
(* last two are facts about the order of the steps of a call, Shape.  And  *)
(* when the thread is about to put a version older than the last save, it  *)
(* must not be the last write: PutIsCovered.                               *)
(***************************************************************************)
EXTENDS TxCache, FiniteSetTheorems, WellFoundedInduction, TLAPS

TxOps == {"update", "insert", "evicted", "mark", "unmark", "write", "pop", "delete"}
Steps == [op : TxOps, tx : Txs] \cup [op : {"shrink"}, tx : {None}]
Pcs == {"", "fetch", "unmark", "write", "put"}

(* Types: what the cache, the disk, the call and the thread can hold.      *)
TypeOK ==
    /\ cache \in Seq(Txs) /\ dirty \subseteq Txs
    /\ capacity \in Nat \ {0}
    /\ obj \in [Txs -> Nat] /\ disk \in [Txs -> Nat] /\ saved \in [Txs -> Nat]
    /\ held \subseteq Txs /\ torn \subseteq Txs /\ overtaken \subseteq Txs
    /\ todo \in Seq(Steps)
    /\ thread \in [st : {"timer", "running"}, left : SUBSET Txs, cur : Txs \cup {None}, pc : Pcs,
                   val : Nat]
    /\ thread.pc # "" => thread.cur \in Txs /\ thread.st = "running"

(* The order of the steps of a call: a mark is cleared only right before a *)
(* write or a removal, and set last, right after the transaction was put   *)
(* into the cache.                                                         *)
UnmarkShape(q) ==
    \A k \in 1 .. Len(q) : q[k].op = "unmark" =>
        /\ k < Len(q)
        /\ q[k + 1] \in {Step("write", q[k].tx), Step("delete", q[k].tx)}
MarkShape(q) ==
    \A k \in 1 .. Len(q) : q[k].op = "mark" =>
        /\ k = Len(q)
        /\ k > 1 => q[k - 1] \in {Step("update", q[k].tx), Step("insert", q[k].tx)}
Shape == UnmarkShape(todo) /\ MarkShape(todo)

(* A transaction about to be marked is referenced and in the cache.        *)
MarksHeld == \A t \in Txs : Pending("mark", t) => t \in held
MarksCached == todo # <<>> /\ todo[1].op = "mark" => todo[1].tx \in ToSet(cache)

(* A transaction being removed counts as unsaved and is not referenced.    *)
RemovalsUnsaved ==
    \A t \in Txs : Pending("pop", t) \/ Pending("delete", t) => saved[t] = 0 /\ t \notin held

(* A torn transaction is unsaved and not referenced.                       *)
TornIsGone == \A t \in torn : saved[t] = 0 /\ t \notin held

(* The object in memory has the last save.                                 *)
MemoryIsNewest == \A t \in Txs \ (torn \cup overtaken) : saved[t] # 0 => obj[t] >= saved[t]

(* A put of the flush thread that is older than the last save is followed  *)
(* by another write.                                                       *)
PutIsCovered ==
    \A t \in Txs \ (torn \cup overtaken) :
        thread.cur = t /\ thread.pc = "put" /\ saved[t] # 0 =>
            \/ thread.val >= saved[t]
            \/ t \in dirty /\ (t \in ToSet(cache) \/ Pending("evicted", t))
            \/ Pending("write", t)

IInv ==
    /\ TypeOK /\ Shape /\ MarksHeld /\ MarksCached /\ RemovalsUnsaved /\ TornIsGone
    /\ MemoryIsNewest /\ LastSaveSurvives /\ PutIsCovered

----------------------------------------------------------------------------
(* Sequences.                                                              *)

(* The elements of a sequence.                                             *)
LEMMA ToSetLemma ==
    ASSUME NEW S, NEW q \in Seq(S), NEW x
    PROVE  x \in ToSet(q) <=> \E i \in 1 .. Len(q) : q[i] = x
BY DEF ToSet

LEMMA AppendLemma ==
    ASSUME NEW S, NEW q \in Seq(S), NEW x \in S
    PROVE  Append(q, x) \in Seq(S) /\ ToSet(Append(q, x)) = ToSet(q) \cup {x}
<1> DEFINE r == Append(q, x)
<1>1. /\ r \in Seq(S) /\ Len(r) = Len(q) + 1 /\ Len(q) \in Nat
      /\ r[Len(q) + 1] = x /\ \A k \in 1 .. Len(q) : r[k] = q[k]
  OBVIOUS
<1> HIDE DEF r
<1>2. ASSUME NEW y PROVE y \in ToSet(r) <=> y \in ToSet(q) \/ y = x
  <2>1. y \in ToSet(r) <=> \E i \in 1 .. (Len(q) + 1) : r[i] = y
    BY <1>1, ToSetLemma
  <2>2. y \in ToSet(q) <=> \E i \in 1 .. Len(q) : q[i] = y
    BY ToSetLemma
  <2>3. \A i \in 1 .. (Len(q) + 1) : i = Len(q) + 1 \/ i \in 1 .. Len(q)
    BY <1>1
  <2>4. Len(q) + 1 \in 1 .. (Len(q) + 1) /\ \A i \in 1 .. Len(q) : i \in 1 .. (Len(q) + 1)
    BY <1>1
  <2> QED BY <2>1, <2>2, <2>3, <2>4, <1>1
<1> QED BY <1>1, <1>2 DEF r

LEMMA TailSet ==
    ASSUME NEW S, NEW q \in Seq(S), q # <<>>
    PROVE  /\ Tail(q) \in Seq(S) /\ Head(q) \in S
           /\ \A x \in ToSet(q) : x = Head(q) \/ x \in ToSet(Tail(q))
<1> DEFINE r == Tail(q)
<1>1. /\ r \in Seq(S) /\ Len(r) = Len(q) - 1 /\ Len(q) \in Nat \ {0}
      /\ Head(q) = q[1] /\ Head(q) \in S
      /\ \A k \in 1 .. (Len(q) - 1) : r[k] = q[k + 1]
  OBVIOUS
<1> HIDE DEF r
<1>2. ASSUME NEW x \in ToSet(q), x # Head(q) PROVE x \in ToSet(r)
  <2>1. PICK i \in 1 .. Len(q) : q[i] = x
    BY ToSetLemma
  <2>2. i - 1 \in 1 .. (Len(q) - 1) /\ (i - 1) + 1 = i
    BY <1>1, <1>2, <2>1
  <2>3. i - 1 \in 1 .. Len(r) /\ r[i - 1] = x
    BY <1>1, <2>1, <2>2
  <2> QED BY <1>1, <2>3, ToSetLemma
<1> QED BY <1>1, <1>2 DEF r

(* A nonempty set of numbers has a least element, which Min returns.       *)
LEMMA MinIsLeast ==
    ASSUME NEW I, I \subseteq Nat, I # {}
    PROVE  Min(I) \in I
<1>1. PICK x \in I : \A y \in I : ~ (<<y, x>> \in OpToRel(<, Nat))
  BY WFMin, NatLessThanWellFounded
<1>2. ASSUME NEW y \in I PROVE x <= y
  <2>1. x \in Nat /\ y \in Nat
    OBVIOUS
  <2>2. ~ (<<y, x>> \in {ss \in Nat \X Nat : ss[1] < ss[2]})
    BY <1>1 DEF OpToRel
  <2>3. ~ (y < x)
    BY <2>1, <2>2
  <2> QED BY <2>1, <2>3
<1> QED BY <1>2 DEF Min

(* RemoveFirst takes one element out and nothing else.                     *)
LEMMA RemoveFirstLemma ==
    ASSUME NEW S, NEW q \in Seq(S), NEW e
    PROVE  /\ RemoveFirst(q, e) \in Seq(S)
           /\ \A x \in ToSet(q) : x # e => x \in ToSet(RemoveFirst(q, e))
<1>1. CASE \A i \in 1 .. Len(q) : q[i] # e
  BY <1>1 DEF RemoveFirst
<1>2. CASE \E i \in 1 .. Len(q) : q[i] = e
  <2> DEFINE I == {i \in 1 .. Len(q) : q[i] = e}
             m == Min(I)
  <2>1. m \in I
    <3>1. I \subseteq Nat /\ I # {}
      BY <1>2
    <3> HIDE DEF I
    <3> QED BY <3>1, MinIsLeast
  <2>2. RemoveFirst(q, e) = RemoveAt(q, m)
    BY <1>2 DEF RemoveFirst, SelectInSeq
  <2>3. m \in 1 .. Len(q) /\ q[m] = e
    BY <2>1
  <2> HIDE DEF m
  <2> DEFINE a == SubSeq(q, 1, m - 1)
             b == SubSeq(q, m + 1, Len(q))
  <2>4. a \in Seq(S) /\ Len(a) = m - 1 /\ \A i \in 1 .. (m - 1) : a[i] = q[i]
    BY <2>3
  <2>5. b \in Seq(S) /\ Len(b) = Len(q) - m /\ \A i \in 1 .. (Len(q) - m) : b[i] = q[m + i]
    BY <2>3
  <2>6. RemoveFirst(q, e) = a \o b
    BY <2>2 DEF RemoveAt
  <2> HIDE DEF a, b
  <2>7. a \o b \in Seq(S)
    BY <2>4, <2>5
  <2>8. ASSUME NEW i \in 1 .. Len(q), q[i] # e
        PROVE  q[i] \in ToSet(a \o b)
    <3>1. i \in Int /\ m \in Int /\ Len(q) \in Int /\ i # m
      BY <2>3, <2>8
    <3>2. CASE i < m
      <4>1. i \in 1 .. Len(a \o b) /\ (a \o b)[i] = q[i]
        BY <2>3, <2>4, <2>5, <3>2
      <4> QED BY <4>1, <2>7, ToSetLemma
    <3>3. CASE i > m
      <4>1. i - 1 \in 1 .. Len(a \o b)
        BY <2>3, <2>4, <2>5, <3>3
      <4>2. (a \o b)[i - 1] = b[i - m]
        BY <2>3, <2>4, <2>5, <3>3
      <4>3. b[i - m] = q[i]
        BY <2>3, <2>5, <3>3
      <4> QED BY <4>1, <4>2, <4>3, <2>7, ToSetLemma
    <3> QED BY <3>1, <3>2, <3>3
  <2>9. \A x \in ToSet(q) : x # e => x \in ToSet(a \o b)
    BY <2>8, ToSetLemma
  <2> QED BY <2>6, <2>7, <2>9
<1> QED BY <1>1, <1>2

(* What one step in front of a call, and one less, do to its indices.      *)
LEMMA ConsLemma ==
    ASSUME NEW S, NEW q \in Seq(S), NEW a \in S
    PROVE  /\ <<a>> \o q \in Seq(S) /\ Len(<<a>> \o q) = Len(q) + 1
           /\ (<<a>> \o q)[1] = a
           /\ \A k \in 1 .. Len(q) : (<<a>> \o q)[k + 1] = q[k]
OBVIOUS

LEMMA Cons2Lemma ==
    ASSUME NEW S, NEW q \in Seq(S), NEW a \in S, NEW b \in S
    PROVE  <<a, b>> \o q = <<a>> \o (<<b>> \o q)
<1> DEFINE l == <<a, b>> \o q
           r == <<a>> \o (<<b>> \o q)
<1>1. l \in Seq(S) /\ Len(l) = Len(q) + 2 /\ l[1] = a /\ l[2] = b
  OBVIOUS
<1>2. \A k \in 1 .. Len(q) : l[k + 2] = q[k]
  OBVIOUS
<1>3. r \in Seq(S) /\ Len(r) = Len(q) + 2 /\ r[1] = a /\ r[2] = b
  OBVIOUS
<1>4. \A k \in 1 .. Len(q) : r[k + 2] = q[k]
  OBVIOUS
<1> HIDE DEF l, r
<1>5. ASSUME NEW k \in 1 .. Len(l) PROVE l[k] = r[k]
  <2>1. k = 1 \/ k = 2 \/ (k - 2 \in 1 .. Len(q) /\ k = (k - 2) + 2)
    BY <1>1
  <2> QED BY <2>1, <1>1, <1>2, <1>3, <1>4
<1>6. l = r
  BY <1>1, <1>3, <1>5
<1> QED BY <1>6 DEF l, r

LEMMA TailLemma ==
    ASSUME NEW S, NEW q \in Seq(S), q # <<>>
    PROVE  /\ Tail(q) \in Seq(S) /\ Len(Tail(q)) = Len(q) - 1 /\ Len(q) \in Nat \ {0}
           /\ Head(q) = q[1] /\ Head(q) \in S
           /\ \A k \in 1 .. (Len(q) - 1) : Tail(q)[k] = q[k + 1]
OBVIOUS

----------------------------------------------------------------------------
(* The steps left of a call.                                               *)

In(q, s) == \E k \in 1 .. Len(q) : q[k] = s

LEMMA PendingIsIn ==
    ASSUME todo \in Seq(Steps)
    PROVE  \A op, t : Pending(op, t) <=> In(todo, Step(op, t))
BY DEF Pending, In

LEMMA PendingIsInNext ==
    ASSUME todo' \in Seq(Steps)
    PROVE  \A op, t : Pending(op, t)' <=> In(todo', Step(op, t))
BY DEF Pending, In, Step

LEMMA TailSteps ==
    ASSUME NEW q \in Seq(Steps), q # <<>>, UnmarkShape(q), MarkShape(q)
    PROVE  /\ Tail(q) \in Seq(Steps) /\ UnmarkShape(Tail(q)) /\ MarkShape(Tail(q))
           /\ \A s : In(Tail(q), s) => In(q, s)
           /\ \A s : In(q, s) /\ s # Head(q) => In(Tail(q), s)
           /\ Head(q) \in Steps /\ In(q, Head(q))
           /\ Tail(q) # <<>> /\ Tail(q)[1].op = "mark" =>
                 Head(q) \in {Step("update", Tail(q)[1].tx), Step("insert", Tail(q)[1].tx)}
           /\ Head(q).op = "unmark" => Tail(q) # <<>> /\
                 Tail(q)[1] \in {Step("write", Head(q).tx), Step("delete", Head(q).tx)}
           /\ Head(q).op = "mark" => Tail(q) = <<>>
<1> DEFINE r == Tail(q)
<1>1. /\ r \in Seq(Steps) /\ Len(r) = Len(q) - 1 /\ Len(q) \in Nat \ {0}
      /\ Head(q) = q[1] /\ Head(q) \in Steps
      /\ \A k \in 1 .. (Len(q) - 1) : r[k] = q[k + 1]
  BY TailLemma
<1> HIDE DEF r
<1>2. UnmarkShape(r)
  <2> SUFFICES ASSUME NEW k \in 1 .. Len(r), r[k].op = "unmark"
               PROVE  k < Len(r) /\ r[k + 1] \in {Step("write", r[k].tx), Step("delete", r[k].tx)}
    BY DEF UnmarkShape
  <2>1. k + 1 \in 1 .. Len(q) /\ r[k] = q[k + 1]
    BY <1>1
  <2>2. k + 1 < Len(q) /\ q[(k + 1) + 1] \in {Step("write", q[k + 1].tx), Step("delete", q[k + 1].tx)}
    BY <2>1 DEF UnmarkShape
  <2>3. k < Len(r) /\ r[k + 1] = q[(k + 1) + 1]
    BY <2>2, <1>1
  <2> QED BY <2>1, <2>2, <2>3
<1>3. MarkShape(r)
  <2> SUFFICES ASSUME NEW k \in 1 .. Len(r), r[k].op = "mark"
               PROVE  /\ k = Len(r)
                      /\ k > 1 => r[k - 1] \in {Step("update", r[k].tx), Step("insert", r[k].tx)}
    BY DEF MarkShape
  <2>1. k + 1 \in 1 .. Len(q) /\ r[k] = q[k + 1] /\ k + 1 > 1 /\ (k + 1) - 1 = k
    BY <1>1
  <2>2. k + 1 = Len(q) /\ q[k] \in {Step("update", q[k + 1].tx), Step("insert", q[k + 1].tx)}
    BY <2>1 DEF MarkShape
  <2>3. k > 1 => r[k - 1] = q[k]
    BY <2>1, <1>1
  <2> QED BY <2>1, <2>2, <2>3, <1>1
<1>4. \A s : In(r, s) => In(q, s)
  BY <1>1 DEF In
<1>5. ASSUME NEW s, In(q, s), s # Head(q) PROVE In(r, s)
  <2>1. PICK k \in 1 .. Len(q) : q[k] = s
    BY <1>5 DEF In
  <2>2. k - 1 \in 1 .. Len(r) /\ r[k - 1] = s
    BY <2>1, <1>1, <1>5
  <2> QED BY <2>2 DEF In
<1>6. In(q, Head(q))
  BY <1>1 DEF In
<1>7. ASSUME r # <<>>, r[1].op = "mark"
      PROVE  Head(q) \in {Step("update", r[1].tx), Step("insert", r[1].tx)}
  <2>1. 2 \in 1 .. Len(q) /\ r[1] = q[2] /\ 2 - 1 = 1
    BY <1>1, <1>7
  <2> QED BY <2>1, <1>1, <1>7 DEF MarkShape
<1>8. ASSUME Head(q).op = "unmark"
      PROVE  r # <<>> /\ r[1] \in {Step("write", Head(q).tx), Step("delete", Head(q).tx)}
  <2>1. 1 < Len(q) /\ q[1 + 1] \in {Step("write", q[1].tx), Step("delete", q[1].tx)}
    BY <1>1, <1>8 DEF UnmarkShape
  <2>2. 1 \in 1 .. (Len(q) - 1) /\ r # <<>>
    BY <2>1, <1>1
  <2> QED BY <2>1, <2>2, <1>1
<1>9. ASSUME Head(q).op = "mark" PROVE r = <<>>
  BY <1>1, <1>9 DEF MarkShape
<1> QED BY <1>1, <1>2, <1>3, <1>4, <1>5, <1>6, <1>7, <1>8, <1>9 DEF r

LEMMA ConsSteps ==
    ASSUME NEW q \in Seq(Steps), UnmarkShape(q), MarkShape(q), NEW a \in Steps,
           a.op # "mark",
           a.op = "unmark" => q # <<>> /\ q[1] \in {Step("write", a.tx), Step("delete", a.tx)},
           q # <<>> /\ q[1].op = "mark" => a \in {Step("update", q[1].tx), Step("insert", q[1].tx)}
    PROVE  /\ <<a>> \o q \in Seq(Steps) /\ UnmarkShape(<<a>> \o q) /\ MarkShape(<<a>> \o q)
           /\ \A s : In(<<a>> \o q, s) <=> s = a \/ In(q, s)
           /\ <<a>> \o q # <<>> /\ (<<a>> \o q)[1] = a
<1> DEFINE r == <<a>> \o q
<1>1. /\ r \in Seq(Steps) /\ Len(r) = Len(q) + 1 /\ r[1] = a
      /\ \A k \in 1 .. Len(q) : r[k + 1] = q[k]
  BY ConsLemma
<1>2. Len(q) \in Nat /\ (q # <<>> => Len(q) > 0)
  OBVIOUS
<1> HIDE DEF r
<1>3. ASSUME NEW k \in 1 .. Len(r), k # 1
      PROVE  k - 1 \in 1 .. Len(q) /\ r[k] = q[k - 1]
  <2>1. k - 1 \in 1 .. Len(q) /\ (k - 1) + 1 = k
    BY <1>1, <1>2, <1>3
  <2> QED BY <2>1, <1>1
<1>4. UnmarkShape(r)
  <2> SUFFICES ASSUME NEW k \in 1 .. Len(r), r[k].op = "unmark"
               PROVE  k < Len(r) /\ r[k + 1] \in {Step("write", r[k].tx), Step("delete", r[k].tx)}
    BY DEF UnmarkShape
  <2>1. CASE k = 1
    BY <2>1, <1>1, <1>2
  <2>2. CASE k # 1
    <3>1. k - 1 \in 1 .. Len(q) /\ r[k] = q[k - 1]
      BY <2>2, <1>3
    <3>2. k - 1 < Len(q) /\ q[(k - 1) + 1] \in {Step("write", r[k].tx), Step("delete", r[k].tx)}
      BY <3>1 DEF UnmarkShape
    <3>3. k < Len(r) /\ (k - 1) + 1 = k /\ r[k + 1] = q[k]
      BY <3>2, <1>1, <1>2
    <3> QED BY <3>2, <3>3
  <2> QED BY <2>1, <2>2
<1>5. MarkShape(r)
  <2> SUFFICES ASSUME NEW k \in 1 .. Len(r), r[k].op = "mark"
               PROVE  /\ k = Len(r)
                      /\ k > 1 => r[k - 1] \in {Step("update", r[k].tx), Step("insert", r[k].tx)}
    BY DEF MarkShape
  <2>1. k # 1
    BY <1>1
  <2>2. k - 1 \in 1 .. Len(q) /\ r[k] = q[k - 1]
    BY <2>1, <1>3
  <2>3. /\ k - 1 = Len(q)
        /\ k - 1 > 1 => q[(k - 1) - 1] \in {Step("update", r[k].tx), Step("insert", r[k].tx)}
    BY <2>2 DEF MarkShape
  <2>4. CASE k = 2
    <3>1. q # <<>> /\ r[k] = q[1] /\ k - 1 = 1
      BY <2>4, <2>2
    <3> QED BY <3>1, <1>1, <2>3
  <2>5. CASE k > 2
    <3>1. k - 1 > 1 /\ k - 1 \in 1 .. Len(r) /\ k - 1 # 1
      BY <2>5, <1>1, <2>2
    <3>2. r[k - 1] = q[(k - 1) - 1]
      BY <3>1, <1>3
    <3> QED BY <3>1, <3>2, <2>3, <1>1
  <2> QED BY <2>1, <2>2, <2>4, <2>5
<1>6. ASSUME NEW s PROVE In(r, s) <=> s = a \/ In(q, s)
  <2>1. ASSUME In(r, s), s # a PROVE In(q, s)
    <3>1. PICK k \in 1 .. Len(r) : r[k] = s
      BY <2>1 DEF In
    <3>2. k - 1 \in 1 .. Len(q) /\ r[k] = q[k - 1]
      BY <3>1, <2>1, <1>1, <1>3
    <3> QED BY <3>1, <3>2 DEF In
  <2>2. ASSUME In(q, s) PROVE In(r, s)
    <3>1. PICK k \in 1 .. Len(q) : q[k] = s
      BY <2>2 DEF In
    <3>2. k + 1 \in 1 .. Len(r) /\ r[k + 1] = s
      BY <3>1, <1>1, <1>2
    <3> QED BY <3>2 DEF In
  <2>3. In(r, a)
    BY <1>1, <1>2 DEF In
  <2> QED BY <2>1, <2>2, <2>3
<1>7. r # <<>>
  BY <1>1, <1>2
<1> QED BY <1>1, <1>4, <1>5, <1>6, <1>7 DEF r

----------------------------------------------------------------------------
(* The steps of the reactor's call.                                        *)

(* A call that goes on to the step after its first.                        *)
LEMMA GoesOn ==
    ASSUME IInv, todo # <<>>, todo' = Tail(todo)
    PROVE  /\ todo' \in Seq(Steps) /\ Shape'
           /\ \A op, t : Pending(op, t)' => Pending(op, t)
           /\ \A op, t : Pending(op, t) /\ Head(todo) # Step(op, t) => Pending(op, t)'
           /\ todo' # <<>> /\ todo'[1].op = "mark" =>
                 Head(todo) \in {Step("update", todo'[1].tx), Step("insert", todo'[1].tx)}
           /\ Head(todo) \in Steps /\ Pending(Head(todo).op, Head(todo).tx)
<1>1. todo \in Seq(Steps) /\ UnmarkShape(todo) /\ MarkShape(todo)
  BY DEF IInv, TypeOK, Shape
<1>2. todo' \in Seq(Steps)
  BY <1>1, TailSteps
<1>3. \A op, t : Pending(op, t)' <=> In(todo', Step(op, t))
  BY <1>2, PendingIsInNext
<1>4. Shape'
  BY <1>1, TailSteps DEF Shape
<1>5. Head(todo) \in Steps /\ In(todo, Head(todo))
  BY <1>1, TailSteps
<1>6. Head(todo) = Step(Head(todo).op, Head(todo).tx)
  BY <1>5 DEF Steps, Step
<1> QED BY <1>1, <1>2, <1>3, <1>4, <1>5, <1>6, TailSteps, PendingIsIn

(* A call that evicts the transaction h first, and then goes on with s.    *)
LEMMA Evicts ==
    ASSUME IInv, todo # <<>>, NEW h \in Txs, NEW s \in Steps,
           \/ \E t \in Txs : Head(todo) = Step("update", t) /\ s = Step("insert", t)
           \/ s = Head(todo) /\ s.op = "shrink",
           todo' = <<Step("evicted", h)>> \o (<<s>> \o Tail(todo))
    PROVE  /\ todo' \in Seq(Steps) /\ Shape'
           /\ todo' # <<>> /\ todo'[1] = Step("evicted", h)
           /\ \A op, t : Pending(op, t)' =>
                 Step(op, t) \in {Step("evicted", h), s} \/ Pending(op, t)
           /\ \A op, t : Step(op, t) = Step("evicted", h) => Pending(op, t)'
           /\ \A op, t : Pending(op, t) /\ op # "update" => Pending(op, t)'
<1>1. todo \in Seq(Steps) /\ UnmarkShape(todo) /\ MarkShape(todo)
  BY DEF IInv, TypeOK, Shape
<1> DEFINE r == Tail(todo)
           a == <<s>> \o r
           e == Step("evicted", h)
<1>2. r \in Seq(Steps) /\ UnmarkShape(r) /\ MarkShape(r)
  BY <1>1, TailSteps
<1>3. r # <<>> /\ r[1].op = "mark" =>
         Head(todo) \in {Step("update", r[1].tx), Step("insert", r[1].tx)}
  BY <1>1, TailSteps
<1>4. \A x : In(r, x) => In(todo, x)
  BY <1>1, TailSteps
<1>5. \A x : In(todo, x) /\ x # Head(todo) => In(r, x)
  BY <1>1, TailSteps
<1> HIDE DEF r
<1>6. r # <<>> /\ r[1].op = "mark" => s \in {Step("update", r[1].tx), Step("insert", r[1].tx)}
  BY <1>3 DEF Step
<1>7. s.op # "mark" /\ s.op # "unmark"
  BY DEF Step
<1>8. /\ a \in Seq(Steps) /\ UnmarkShape(a) /\ MarkShape(a)
      /\ \A x : In(a, x) <=> x = s \/ In(r, x)
      /\ a # <<>> /\ a[1] = s
  BY <1>2, <1>6, <1>7, ConsSteps
<1> HIDE DEF a
<1>9. e \in Steps /\ e.op # "mark" /\ e.op # "unmark"
  BY DEF Step, Steps, TxOps
<1> HIDE DEF e
<1>10. /\ <<e>> \o a \in Seq(Steps) /\ UnmarkShape(<<e>> \o a) /\ MarkShape(<<e>> \o a)
       /\ \A x : In(<<e>> \o a, x) <=> x = e \/ In(a, x)
       /\ <<e>> \o a # <<>> /\ (<<e>> \o a)[1] = e
  BY <1>7, <1>8, <1>9, ConsSteps
<1>11. todo' = <<e>> \o a
  BY DEF e, a, r
<1>12. todo' \in Seq(Steps) /\ \A op, t : Pending(op, t)' <=> In(todo', Step(op, t))
  BY <1>10, <1>11, PendingIsInNext
<1>13. \A op, t : Pending(op, t) <=> In(todo, Step(op, t))
  BY <1>1, PendingIsIn
<1>14. ASSUME NEW op, NEW t, Pending(op, t), op # "update" PROVE Pending(op, t)'
  <2>1. CASE Step(op, t) = Head(todo)
    <3>1. Step(op, t) = s
      BY <2>1, <1>14 DEF Step
    <3> QED BY <3>1, <1>8, <1>10, <1>11, <1>12
  <2>2. CASE Step(op, t) # Head(todo)
    BY <2>2, <1>5, <1>8, <1>10, <1>11, <1>12, <1>13, <1>14
  <2> QED BY <2>1, <2>2
<1>15. \A op, t : Pending(op, t)' => Step(op, t) \in {e, s} \/ Pending(op, t)
  BY <1>4, <1>8, <1>10, <1>11, <1>12, <1>13
<1> QED BY <1>10, <1>11, <1>12, <1>14, <1>15 DEF Shape, e

(* A call that found an evicted transaction marked, and will write it.     *)
LEMMA WritesEvicted ==
    ASSUME IInv, todo # <<>>, NEW t0 \in Txs, Head(todo) = Step("evicted", t0),
           todo' = <<Step("unmark", t0), Step("write", t0)>> \o Tail(todo)
    PROVE  /\ todo' \in Seq(Steps) /\ Shape'
           /\ todo' # <<>> /\ todo'[1] = Step("unmark", t0)
           /\ \A op, t : Pending(op, t)' =>
                 Step(op, t) \in {Step("unmark", t0), Step("write", t0)} \/ Pending(op, t)
           /\ Pending("write", t0)'
           /\ \A op, t : Pending(op, t) /\ Step(op, t) # Step("evicted", t0) => Pending(op, t)'
<1>1. todo \in Seq(Steps) /\ UnmarkShape(todo) /\ MarkShape(todo)
  BY DEF IInv, TypeOK, Shape
<1> DEFINE r == Tail(todo)
           w == Step("write", t0)
           u == Step("unmark", t0)
           a == <<w>> \o r
<1>2. r \in Seq(Steps) /\ UnmarkShape(r) /\ MarkShape(r)
  BY <1>1, TailSteps
<1>3. r # <<>> => r[1].op # "mark"
  <2>1. r # <<>> /\ r[1].op = "mark" =>
           Head(todo) \in {Step("update", r[1].tx), Step("insert", r[1].tx)}
    BY <1>1, TailSteps
  <2> QED BY <2>1 DEF Step
<1>4. \A x : In(r, x) => In(todo, x)
  BY <1>1, TailSteps
<1>5. \A x : In(todo, x) /\ x # Head(todo) => In(r, x)
  BY <1>1, TailSteps
<1>6. w \in Steps /\ u \in Steps /\ w.op = "write" /\ u.op = "unmark" /\ u.tx = t0
  BY DEF Step, Steps, TxOps
<1> HIDE DEF r
<1>7. /\ a \in Seq(Steps) /\ UnmarkShape(a) /\ MarkShape(a)
      /\ \A x : In(a, x) <=> x = w \/ In(r, x)
      /\ a # <<>> /\ a[1] = w
  <2> HIDE DEF w
  <2> QED BY <1>2, <1>3, <1>6, ConsSteps
<1>8. a[1] \in {Step("write", u.tx), Step("delete", u.tx)} /\ a[1].op # "mark"
  BY <1>6, <1>7
<1>9. todo' = <<u>> \o a
  BY <1>2, <1>6, Cons2Lemma DEF r
<1> HIDE DEF a, u, w
<1>10. /\ <<u>> \o a \in Seq(Steps) /\ UnmarkShape(<<u>> \o a) /\ MarkShape(<<u>> \o a)
       /\ \A x : In(<<u>> \o a, x) <=> x = u \/ In(a, x)
       /\ <<u>> \o a # <<>> /\ (<<u>> \o a)[1] = u
  BY <1>6, <1>7, <1>8, ConsSteps
<1>11. todo' \in Seq(Steps) /\ \A op, t : Pending(op, t)' <=> In(todo', Step(op, t))
  BY <1>9, <1>10, PendingIsInNext
<1>12. \A op, t : Pending(op, t) <=> In(todo, Step(op, t))
  BY <1>1, PendingIsIn
<1>13. \A op, t : Pending(op, t)' => Step(op, t) \in {u, w} \/ Pending(op, t)
  BY <1>4, <1>7, <1>9, <1>10, <1>11, <1>12
<1>14. Pending("write", t0)'
  BY <1>7, <1>9, <1>10, <1>11 DEF w
<1>15. \A op, t : Pending(op, t) /\ Step(op, t) # Step("evicted", t0) => Pending(op, t)'
  BY <1>5, <1>7, <1>9, <1>10, <1>11, <1>12
<1> QED BY <1>9, <1>10, <1>11, <1>13, <1>14, <1>15 DEF Shape, u, w

(* The same, for a first step that is known.                               *)
LEMMA GoesOnFrom ==
    ASSUME IInv, todo # <<>>, NEW o, NEW t, Head(todo) = Step(o, t), todo' = Tail(todo)
    PROVE  /\ todo' \in Seq(Steps) /\ Shape'
           /\ \A op, u : Pending(op, u)' => Pending(op, u)
           /\ \A op, u : Pending(op, u) /\ (op # o \/ u # t) => Pending(op, u)'
           /\ todo' # <<>> /\ todo'[1].op = "mark" =>
                 o \in {"update", "insert"} /\ todo'[1].tx = t
           /\ Pending(o, t)
<1>1. \A op, u : Pending(op, u) /\ Head(todo) # Step(op, u) => Pending(op, u)'
  BY GoesOn
<1>2. \A op, u : (op # o \/ u # t) => Head(todo) # Step(op, u)
  BY DEF Step
<1>3. todo' # <<>> /\ todo'[1].op = "mark" =>
         Head(todo) \in {Step("update", todo'[1].tx), Step("insert", todo'[1].tx)}
  BY GoesOn
<1>4. todo' # <<>> /\ todo'[1].op = "mark" => o \in {"update", "insert"} /\ todo'[1].tx = t
  BY <1>3 DEF Step
<1>5. Pending(Head(todo).op, Head(todo).tx) /\ Head(todo).op = o /\ Head(todo).tx = t
  BY GoesOn DEF Step
<1>6. todo' \in Seq(Steps) /\ Shape' /\ \A op, u : Pending(op, u)' => Pending(op, u)
  BY GoesOn
<1>7. \A op, u : Pending(op, u) /\ (op # o \/ u # t) => Pending(op, u)'
  BY <1>1, <1>2
<1>8. Pending(o, t)
  BY <1>5
<1> QED BY <1>4, <1>6, <1>7, <1>8

(* self.cache[tx.hash] = tx, after an eviction.                            *)
LEMMA InsertStep ==
    ASSUME IInv, todo # <<>>, NEW t \in Txs, Head(todo) = Step("insert", t),
           Insert(t, Tail(todo)), UNCHANGED <<capacity, obj, held, thread>>
    PROVE  IInv'
<1> USE DEF IInv
<1>1. /\ todo' \in Seq(Steps) /\ Shape'
      /\ \A op, u : Pending(op, u)' => Pending(op, u)
      /\ \A op, u : Pending(op, u) /\ (op # "insert" \/ u # t) => Pending(op, u)'
      /\ todo' # <<>> /\ todo'[1].op = "mark" =>
            "insert" \in {"update", "insert"} /\ todo'[1].tx = t
      /\ Pending("insert", t)
  BY GoesOnFrom DEF Insert
<1>2. cache' \in Seq(Txs) /\ ToSet(cache') = ToSet(cache) \cup {t}
  BY AppendLemma DEF TypeOK, Insert
<1>3. UNCHANGED <<dirty, disk, saved, torn, overtaken, capacity, obj, held, thread>>
  BY DEF Insert, history
<1>4. TypeOK'
  BY <1>1, <1>2, <1>3 DEF TypeOK
<1>5. MarksHeld' /\ MarksCached' /\ RemovalsUnsaved'
  BY <1>1, <1>2, <1>3 DEF MarksHeld, MarksCached, RemovalsUnsaved
<1>6. TornIsGone' /\ MemoryIsNewest'
  BY <1>1, <1>2, <1>3 DEF TornIsGone, MemoryIsNewest
<1>7. LastSaveSurvives' /\ PutIsCovered'
  BY <1>1, <1>2, <1>3 DEF LastSaveSurvives, Survives, PutIsCovered, BeingWritten
<1> QED BY <1>1, <1>4, <1>5, <1>6, <1>7

(* _update_cache without an eviction.                                      *)
LEMMA UpdateStep ==
    ASSUME IInv, todo # <<>>, NEW t \in Txs, Head(todo) = Step("update", t),
           UpdateCache(t, Tail(todo)), UNCHANGED <<capacity, obj, held, thread>>,
           ~ (t \notin ToSet(cache) /\ Len(cache) >= capacity)
    PROVE  IInv'
<1> USE DEF IInv
<1>1. /\ todo' \in Seq(Steps) /\ Shape'
      /\ \A op, u : Pending(op, u)' => Pending(op, u)
      /\ \A op, u : Pending(op, u) /\ (op # "update" \/ u # t) => Pending(op, u)'
      /\ todo' # <<>> /\ todo'[1].op = "mark" =>
            "update" \in {"update", "insert"} /\ todo'[1].tx = t
      /\ Pending("update", t)
  BY GoesOnFrom DEF UpdateCache
<1>2. cache' \in Seq(Txs) /\ ToSet(cache) \cup {t} \subseteq ToSet(cache')
  <2>1. cache \in Seq(Txs)
    BY DEF TypeOK
  <2>2. /\ RemoveFirst(cache, t) \in Seq(Txs)
        /\ \A x \in ToSet(cache) : x # t => x \in ToSet(RemoveFirst(cache, t))
    BY <2>1, RemoveFirstLemma
  <2>3. cache' = Append(RemoveFirst(cache, t), t)
    BY DEF UpdateCache
  <2> QED BY <2>2, <2>3, AppendLemma
<1>3. UNCHANGED <<dirty, disk, saved, torn, overtaken, capacity, obj, held, thread>>
  BY DEF UpdateCache, history
<1>4. TypeOK'
  BY <1>1, <1>2, <1>3 DEF TypeOK
<1>5. MarksHeld' /\ MarksCached' /\ RemovalsUnsaved'
  BY <1>1, <1>2, <1>3 DEF MarksHeld, MarksCached, RemovalsUnsaved
<1>6. TornIsGone' /\ MemoryIsNewest'
  BY <1>1, <1>2, <1>3 DEF TornIsGone, MemoryIsNewest
<1>7. LastSaveSurvives' /\ PutIsCovered'
  BY <1>1, <1>2, <1>3 DEF LastSaveSurvives, Survives, PutIsCovered, BeingWritten
<1> QED BY <1>1, <1>4, <1>5, <1>6, <1>7

(* An evicted transaction without a mark.                                  *)
LEMMA NotDirtyStep ==
    ASSUME IInv, todo # <<>>, NEW t \in Txs, Head(todo) = Step("evicted", t),
           Evicted(t, Tail(todo)), UNCHANGED <<capacity, obj, held, thread>>, t \notin dirty
    PROVE  IInv'
<1> USE DEF IInv
<1>1. /\ todo' \in Seq(Steps) /\ Shape'
      /\ \A op, u : Pending(op, u)' => Pending(op, u)
      /\ \A op, u : Pending(op, u) /\ (op # "evicted" \/ u # t) => Pending(op, u)'
      /\ todo' # <<>> /\ todo'[1].op = "mark" =>
            "evicted" \in {"update", "insert"} /\ todo'[1].tx = t
      /\ Pending("evicted", t)
  BY GoesOnFrom DEF Evicted
<1>2. t \notin dirty
  OBVIOUS
<1>3. UNCHANGED <<cache, dirty, disk, saved, torn, overtaken, capacity, obj, held, thread>>
  BY DEF Evicted, history
<1>4. TypeOK'
  BY <1>1, <1>2, <1>3 DEF TypeOK
<1>5. MarksHeld' /\ MarksCached' /\ RemovalsUnsaved'
  BY <1>1, <1>2, <1>3 DEF MarksHeld, MarksCached, RemovalsUnsaved
<1>6. TornIsGone' /\ MemoryIsNewest'
  BY <1>1, <1>2, <1>3 DEF TornIsGone, MemoryIsNewest
<1>7. LastSaveSurvives' /\ PutIsCovered'
  BY <1>1, <1>2, <1>3 DEF LastSaveSurvives, Survives, PutIsCovered, BeingWritten
<1> QED BY <1>1, <1>4, <1>5, <1>6, <1>7

(* dirty_txs.add: what is marked is in the cache.                          *)
LEMMA MarkStep ==
    ASSUME IInv, todo # <<>>, NEW t \in Txs, Head(todo) = Step("mark", t),
           Mark(t, Tail(todo)), UNCHANGED <<capacity, obj, held, thread>>
    PROVE  IInv'
<1> USE DEF IInv
<1>1. /\ todo' \in Seq(Steps) /\ Shape'
      /\ \A op, u : Pending(op, u)' => Pending(op, u)
      /\ \A op, u : Pending(op, u) /\ (op # "mark" \/ u # t) => Pending(op, u)'
      /\ todo' # <<>> /\ todo'[1].op = "mark" =>
            "mark" \in {"update", "insert"} /\ todo'[1].tx = t
      /\ Pending("mark", t)
  BY GoesOnFrom DEF Mark
<1>2. t \in held /\ t \in ToSet(cache) /\ t \notin torn /\ todo' = <<>>
  <2>1. t \in held
    BY <1>1 DEF MarksHeld
  <2>2. todo \in Seq(Steps) /\ UnmarkShape(todo) /\ MarkShape(todo)
    BY DEF TypeOK, Shape
  <2>3. Head(todo).op = "mark" /\ Head(todo).tx = t
    BY DEF Step
  <2>4. Tail(todo) = <<>>
    BY <2>2, <2>3, TailSteps
  <2>5. todo[1] = Head(todo)
    BY <2>2
  <2> QED BY <2>1, <2>3, <2>4, <2>5 DEF MarksCached, TornIsGone, Mark
<1>3. /\ dirty' = dirty \cup {t} /\ saved' = [saved EXCEPT ![t] = obj[t]]
      /\ UNCHANGED <<cache, disk, torn, overtaken, capacity, obj, held, thread>>
  BY DEF Mark
<1>4. \A op, u : ~ Pending(op, u)'
  BY <1>2 DEF Pending
<1>5. TypeOK'
  BY <1>1, <1>2, <1>3 DEF TypeOK
<1>6. MarksHeld' /\ MarksCached' /\ RemovalsUnsaved'
  BY <1>2, <1>3, <1>4 DEF MarksHeld, MarksCached, RemovalsUnsaved
<1>7. TornIsGone' /\ MemoryIsNewest'
  <2>1. saved'[t] = obj[t] /\ obj[t] \in Nat /\ \A u \in Txs : u # t => saved'[u] = saved[u]
    BY <1>3 DEF TypeOK
  <2>2. TornIsGone'
    BY <1>2, <1>3, <2>1 DEF TornIsGone, TypeOK
  <2>3. obj[t] >= obj[t]
    BY <2>1
  <2>4. MemoryIsNewest'
    BY <1>3, <2>1, <2>3 DEF MemoryIsNewest
  <2> QED BY <2>2, <2>4
<1>8. LastSaveSurvives' /\ PutIsCovered'
  <2>1. /\ saved'[t] = obj[t] /\ t \in dirty' /\ t \in ToSet(cache')
        /\ \A u \in Txs : u # t => saved'[u] = saved[u] /\ (u \in dirty' <=> u \in dirty)
    BY <1>2, <1>3 DEF TypeOK
  <2>2. \A u : Pending("evicted", u) => Pending("evicted", u)'
    BY <1>1
  <2>3. \A u : Pending("write", u) => Pending("write", u)'
    BY <1>1
  <2>4. LastSaveSurvives'
    BY <1>3, <2>1, <2>2, <2>3 DEF LastSaveSurvives, Survives, BeingWritten
  <2>5. PutIsCovered'
    BY <1>3, <2>1, <2>2, <2>3 DEF PutIsCovered
  <2> QED BY <2>4, <2>5
<1> QED BY <1>1, <1>5, <1>6, <1>7, <1>8

(* dirty_txs.discard: a write or a removal is next.                        *)
LEMMA UnmarkStep ==
    ASSUME IInv, todo # <<>>, NEW t \in Txs, Head(todo) = Step("unmark", t),
           Unmark(t, Tail(todo)), UNCHANGED <<capacity, obj, held, thread>>
    PROVE  IInv'
<1> USE DEF IInv
<1>1. /\ todo' \in Seq(Steps) /\ Shape'
      /\ \A op, u : Pending(op, u)' => Pending(op, u)
      /\ \A op, u : Pending(op, u) /\ (op # "unmark" \/ u # t) => Pending(op, u)'
      /\ todo' # <<>> /\ todo'[1].op = "mark" =>
            "unmark" \in {"update", "insert"} /\ todo'[1].tx = t
      /\ Pending("unmark", t)
  BY GoesOnFrom DEF Unmark
<1>2. Pending("write", t)' \/ (Pending("delete", t)' /\ saved[t] = 0)
  <2>1. todo \in Seq(Steps) /\ UnmarkShape(todo) /\ MarkShape(todo)
    BY DEF TypeOK, Shape
  <2>2. Head(todo).op = "unmark" /\ Head(todo).tx = t
    BY DEF Step
  <2>3. Tail(todo) # <<>> /\ Tail(todo)[1] \in {Step("write", t), Step("delete", t)}
    BY <2>1, <2>2, TailSteps
  <2>4. todo' = Tail(todo) /\ todo' \in Seq(Steps) /\ 1 \in 1 .. Len(todo')
    BY <1>1, <2>3 DEF Unmark
  <2>5. In(todo', Step("write", t)) \/ In(todo', Step("delete", t))
    BY <2>3, <2>4 DEF In
  <2>6. Pending("write", t)' \/ Pending("delete", t)'
    BY <2>4, <2>5, PendingIsInNext
  <2> QED BY <2>6, <1>1 DEF RemovalsUnsaved
<1>3. dirty' = dirty \ {t} /\ UNCHANGED <<cache, disk, saved, torn, overtaken, capacity, obj, held, thread>>
  BY DEF Unmark, history
<1>4. TypeOK'
  BY <1>1, <1>2, <1>3 DEF TypeOK
<1>5. MarksHeld' /\ MarksCached' /\ RemovalsUnsaved'
  BY <1>1, <1>2, <1>3 DEF MarksHeld, MarksCached, RemovalsUnsaved
<1>6. TornIsGone' /\ MemoryIsNewest'
  BY <1>1, <1>2, <1>3 DEF TornIsGone, MemoryIsNewest
<1>7. LastSaveSurvives' /\ PutIsCovered'
  BY <1>1, <1>2, <1>3 DEF LastSaveSurvives, Survives, PutIsCovered, BeingWritten
<1> QED BY <1>1, <1>4, <1>5, <1>6, <1>7

(* The object is written.                                                  *)
LEMMA WriteStep ==
    ASSUME IInv, todo # <<>>, NEW t \in Txs, Head(todo) = Step("write", t),
           Write(t, Tail(todo)), UNCHANGED <<capacity, obj, held, thread>>
    PROVE  IInv'
<1> USE DEF IInv
<1>1. /\ todo' \in Seq(Steps) /\ Shape'
      /\ \A op, u : Pending(op, u)' => Pending(op, u)
      /\ \A op, u : Pending(op, u) /\ (op # "write" \/ u # t) => Pending(op, u)'
      /\ todo' # <<>> /\ todo'[1].op = "mark" =>
            "write" \in {"update", "insert"} /\ todo'[1].tx = t
      /\ Pending("write", t)
  BY GoesOnFrom DEF Write
<1>2. disk' = [disk EXCEPT ![t] = obj[t]]
  BY DEF Write
<1>3. /\ UNCHANGED <<cache, dirty, saved, torn, capacity, obj, held, thread>>
      /\ overtaken' = IF thread.cur = t /\ thread.pc = "put" /\ thread.val < obj[t]
                      THEN overtaken \cup {t} ELSE overtaken
  BY DEF Write
<1>4. TypeOK'
  BY <1>1, <1>2, <1>3 DEF TypeOK
<1>5. MarksHeld' /\ MarksCached' /\ RemovalsUnsaved'
  BY <1>1, <1>2, <1>3 DEF MarksHeld, MarksCached, RemovalsUnsaved
<1>6. TornIsGone' /\ MemoryIsNewest'
  BY <1>1, <1>2, <1>3 DEF TornIsGone, MemoryIsNewest
<1>7. LastSaveSurvives'
  BY <1>1, <1>2, <1>3 DEF LastSaveSurvives, Survives, BeingWritten, MemoryIsNewest, TypeOK
<1>8. PutIsCovered'
  <2> SUFFICES ASSUME NEW u \in Txs \ (torn \cup overtaken'), thread.cur = u, thread.pc = "put",
                      saved[u] # 0
               PROVE  \/ thread.val >= saved[u]
                      \/ u \in dirty /\ (u \in ToSet(cache) \/ Pending("evicted", u)')
                      \/ Pending("write", u)'
    BY <1>3 DEF PutIsCovered
  <2>1. u \notin overtaken /\ obj[u] >= saved[u]
    BY <1>3 DEF MemoryIsNewest
  <2>2. thread.val \in Nat /\ obj[u] \in Nat /\ saved[u] \in Nat
    BY DEF TypeOK
  <2>3. CASE u = t
    <3>1. ~ (thread.val < obj[u])
      BY <1>3, <2>3
    <3> QED BY <2>1, <2>2, <3>1
  <2>4. CASE u # t
    BY <1>1, <2>1, <2>4 DEF PutIsCovered
  <2> QED BY <2>3, <2>4
<1> QED BY <1>1, <1>4, <1>5, <1>6, <1>7, <1>8

(* The transaction is deleted from the disk.                               *)
LEMMA DeleteStep ==
    ASSUME IInv, todo # <<>>, NEW t \in Txs, Head(todo) = Step("delete", t),
           Delete(t, Tail(todo)), UNCHANGED <<capacity, obj, held, thread>>
    PROVE  IInv'
<1> USE DEF IInv
<1>1. /\ todo' \in Seq(Steps) /\ Shape'
      /\ \A op, u : Pending(op, u)' => Pending(op, u)
      /\ \A op, u : Pending(op, u) /\ (op # "delete" \/ u # t) => Pending(op, u)'
      /\ todo' # <<>> /\ todo'[1].op = "mark" =>
            "delete" \in {"update", "insert"} /\ todo'[1].tx = t
      /\ Pending("delete", t)
  BY GoesOnFrom DEF Delete
<1>2. disk' = [disk EXCEPT ![t] = 0] /\ saved[t] = 0
  BY <1>1 DEF Delete, RemovalsUnsaved
<1>3. UNCHANGED <<cache, dirty, saved, torn, overtaken, capacity, obj, held, thread>>
  BY DEF Delete, history
<1>4. TypeOK'
  BY <1>1, <1>2, <1>3 DEF TypeOK
<1>5. MarksHeld' /\ MarksCached' /\ RemovalsUnsaved'
  BY <1>1, <1>2, <1>3 DEF MarksHeld, MarksCached, RemovalsUnsaved
<1>6. TornIsGone' /\ MemoryIsNewest'
  BY <1>1, <1>2, <1>3 DEF TornIsGone, MemoryIsNewest
<1>7. LastSaveSurvives' /\ PutIsCovered'
  <2>1. \A u \in Txs : u # t => disk'[u] = disk[u]
    BY <1>2 DEF TypeOK
  <2>2. \A u : Pending("evicted", u) => Pending("evicted", u)'
    BY <1>1
  <2>3. \A u : Pending("write", u) => Pending("write", u)'
    BY <1>1
  <2>4. LastSaveSurvives'
    BY <1>2, <1>3, <2>1, <2>2, <2>3 DEF LastSaveSurvives, Survives, BeingWritten
  <2>5. PutIsCovered'
    BY <1>3, <2>2, <2>3 DEF PutIsCovered
  <2> QED BY <2>4, <2>5
<1> QED BY <1>1, <1>4, <1>5, <1>6, <1>7

(* The transaction is taken out of the cache.                              *)
LEMMA PopStep ==
    ASSUME IInv, todo # <<>>, NEW t \in Txs, Head(todo) = Step("pop", t),
           Pop(t, Tail(todo)), UNCHANGED <<capacity, obj, held, thread>>
    PROVE  IInv'
<1> USE DEF IInv
<1>1. /\ todo' \in Seq(Steps) /\ Shape'
      /\ \A op, u : Pending(op, u)' => Pending(op, u)
      /\ \A op, u : Pending(op, u) /\ (op # "pop" \/ u # t) => Pending(op, u)'
      /\ todo' # <<>> /\ todo'[1].op = "mark" =>
            "pop" \in {"update", "insert"} /\ todo'[1].tx = t
      /\ Pending("pop", t)
  BY GoesOnFrom DEF Pop
<1>2. /\ cache' \in Seq(Txs) /\ \A x \in ToSet(cache) : x # t => x \in ToSet(cache')
      /\ saved[t] = 0 /\ t \notin held /\ torn \subseteq torn' /\ torn' \subseteq torn \cup {t}
  BY <1>1, RemoveFirstLemma DEF Pop, TypeOK, RemovalsUnsaved
<1>3. UNCHANGED <<dirty, disk, saved, overtaken, capacity, obj, held, thread>>
  BY DEF Pop
<1>4. TypeOK'
  BY <1>1, <1>2, <1>3 DEF TypeOK
<1>5. MarksHeld' /\ MarksCached' /\ RemovalsUnsaved'
  BY <1>1, <1>2, <1>3 DEF MarksHeld, MarksCached, RemovalsUnsaved
<1>6. TornIsGone' /\ MemoryIsNewest'
  BY <1>1, <1>2, <1>3 DEF TornIsGone, MemoryIsNewest
<1>7. LastSaveSurvives' /\ PutIsCovered'
  BY <1>1, <1>2, <1>3 DEF LastSaveSurvives, Survives, PutIsCovered, BeingWritten
<1> QED BY <1>1, <1>4, <1>5, <1>6, <1>7

(* An eviction: the evicted transaction keeps its mark until it is looked  *)
(* up.                                                                     *)
LEMMA PopitemStep ==
    ASSUME IInv, todo # <<>>, cache # <<>>, NEW s \in Steps,
           \/ \E t \in Txs : Head(todo) = Step("update", t) /\ s = Step("insert", t)
           \/ s = Head(todo) /\ s.op = "shrink",
           CachePopitem(<<s>> \o Tail(todo)), UNCHANGED <<capacity, obj, held, thread>>
    PROVE  IInv'
<1> USE DEF IInv
<1> PICK h : h = Head(cache)
  OBVIOUS
<1>1. /\ cache' \in Seq(Txs) /\ h \in Txs
      /\ \A x \in ToSet(cache) : x = h \/ x \in ToSet(cache')
  BY TailSet DEF CachePopitem, TypeOK
<1>2. /\ todo' = <<Step("evicted", h)>> \o (<<s>> \o Tail(todo))
      /\ UNCHANGED <<dirty, disk, saved, torn, overtaken, capacity, obj, held, thread>>
  BY DEF CachePopitem, history
<1>3. /\ todo' \in Seq(Steps) /\ Shape' /\ todo'[1] = Step("evicted", h)
      /\ \A op, t : Pending(op, t)' => Step(op, t) \in {Step("evicted", h), s} \/ Pending(op, t)
      /\ \A op, t : Step(op, t) = Step("evicted", h) => Pending(op, t)'
      /\ \A op, t : Pending(op, t) /\ op # "update" => Pending(op, t)'
  BY <1>1, <1>2, Evicts
<1>4. s.op \in {"insert", "shrink"}
  BY DEF Step
<1>5. \A op, t : Step(op, t) \in {Step("evicted", h), s} => op = "evicted" \/ op = s.op
  BY DEF Step
<1>6. \A op, t : Pending(op, t)' => op \in {"evicted", "insert", "shrink"} \/ Pending(op, t)
  BY <1>3, <1>4, <1>5
<1>7. Pending("evicted", h)' /\ todo'[1].op # "mark"
  <2>1. Pending("evicted", h)'
    BY <1>3
  <2>2. todo'[1].op = "evicted"
    BY <1>3 DEF Step
  <2> QED BY <2>1, <2>2
<1>8. TypeOK'
  BY <1>1, <1>2, <1>3 DEF TypeOK
<1>9. MarksHeld' /\ MarksCached' /\ RemovalsUnsaved'
  BY <1>2, <1>6, <1>7 DEF MarksHeld, MarksCached, RemovalsUnsaved
<1>10. TornIsGone' /\ MemoryIsNewest'
  BY <1>2 DEF TornIsGone, MemoryIsNewest
<1>11. LastSaveSurvives' /\ PutIsCovered'
  BY <1>1, <1>2, <1>3, <1>7 DEF LastSaveSurvives, Survives, PutIsCovered, BeingWritten
<1> QED BY <1>3, <1>8, <1>9, <1>10, <1>11

(* An evicted transaction with a mark will be written.                     *)
LEMMA DirtyStep ==
    ASSUME IInv, todo # <<>>, NEW t \in Txs, Head(todo) = Step("evicted", t),
           Evicted(t, Tail(todo)), UNCHANGED <<capacity, obj, held, thread>>, t \in dirty
    PROVE  IInv'
<1> USE DEF IInv
<1>1. /\ todo' = <<Step("unmark", t), Step("write", t)>> \o Tail(todo)
      /\ UNCHANGED <<cache, dirty, disk, saved, torn, overtaken, capacity, obj, held, thread>>
  BY DEF Evicted, history
<1>2. /\ todo' \in Seq(Steps) /\ Shape' /\ todo'[1] = Step("unmark", t)
      /\ \A op, u : Pending(op, u)' =>
            Step(op, u) \in {Step("unmark", t), Step("write", t)} \/ Pending(op, u)
      /\ Pending("write", t)'
      /\ \A op, u : Pending(op, u) /\ Step(op, u) # Step("evicted", t) => Pending(op, u)'
  BY <1>1, WritesEvicted
<1>3. \A op, u : Pending(op, u)' => op \in {"unmark", "write"} \/ Pending(op, u)
  BY <1>2 DEF Step
<1>4. \A op, u : Pending(op, u) /\ (op # "evicted" \/ u # t) => Pending(op, u)'
  BY <1>2 DEF Step
<1>5. todo'[1].op # "mark"
  BY <1>2 DEF Step
<1>6. TypeOK'
  BY <1>1, <1>2 DEF TypeOK
<1>7. MarksHeld' /\ MarksCached' /\ RemovalsUnsaved'
  BY <1>1, <1>3, <1>5 DEF MarksHeld, MarksCached, RemovalsUnsaved
<1>8. TornIsGone' /\ MemoryIsNewest'
  BY <1>1 DEF TornIsGone, MemoryIsNewest
<1>9. LastSaveSurvives' /\ PutIsCovered'
  BY <1>1, <1>2, <1>4 DEF LastSaveSurvives, Survives, PutIsCovered, BeingWritten
<1> QED BY <1>2, <1>6, <1>7, <1>8, <1>9

(* set_capacity has nothing more to evict.                                 *)
LEMMA ShrinkEnds ==
    ASSUME IInv, todo # <<>>, Head(todo) = Step("shrink", None),
           todo' = Tail(todo), UNCHANGED <<cache, dirty, disk, history>>,
           UNCHANGED <<capacity, obj, held, thread>>
    PROVE  IInv'
<1> USE DEF IInv
<1>1. /\ todo' \in Seq(Steps) /\ Shape'
      /\ \A op, u : Pending(op, u)' => Pending(op, u)
      /\ \A op, u : Pending(op, u) /\ op # "shrink" => Pending(op, u)'
      /\ todo' # <<>> => todo'[1].op # "mark"
  BY GoesOnFrom
<1>2. UNCHANGED <<saved, torn, overtaken>>
  BY DEF history
<1>3. TypeOK'
  BY <1>1, <1>2 DEF TypeOK
<1>4. MarksHeld' /\ MarksCached' /\ RemovalsUnsaved'
  BY <1>1, <1>2 DEF MarksHeld, MarksCached, RemovalsUnsaved
<1>5. TornIsGone' /\ MemoryIsNewest'
  BY <1>2 DEF TornIsGone, MemoryIsNewest
<1>6. LastSaveSurvives' /\ PutIsCovered'
  BY <1>1, <1>2 DEF LastSaveSurvives, Survives, PutIsCovered, BeingWritten
<1> QED BY <1>1, <1>3, <1>4, <1>5, <1>6

LEMMA CallGoesOnPreserves ==
    ASSUME IInv, CallGoesOn
    PROVE  IInv'
<1> DEFINE s == Head(todo)
<1>1. todo # <<>> /\ UNCHANGED <<capacity, obj, held, thread>>
  BY DEF CallGoesOn
<1>2. todo \in Seq(Steps) /\ s \in Steps /\ capacity \in Nat \ {0} /\ cache \in Seq(Txs)
  BY <1>1, TailLemma DEF IInv, TypeOK
<1>3. s.op \in TxOps => s.tx \in Txs /\ s = Step(s.op, s.tx)
  BY <1>2 DEF Steps, TxOps, Step
<1>4. s.op \notin TxOps => s = Step("shrink", None) /\ s.op = "shrink"
  BY <1>2 DEF Steps, Step
<1>5. CASE s.op = "update"
  <2>1. UpdateCache(s.tx, Tail(todo))
    BY <1>5 DEF CallGoesOn
  <2>2. s.tx \in Txs /\ s = Step("update", s.tx)
    BY <1>3, <1>5 DEF TxOps
  <2>3. CASE s.tx \notin ToSet(cache) /\ Len(cache) >= capacity
    <3>1. CachePopitem(<<Step("insert", s.tx)>> \o Tail(todo))
      BY <2>1, <2>3 DEF UpdateCache
    <3>2. cache # <<>> /\ Step("insert", s.tx) \in Steps
      BY <1>2, <2>2, <2>3 DEF Steps, Step, TxOps
    <3> QED BY <1>1, <2>2, <3>1, <3>2, PopitemStep
  <2>4. CASE ~ (s.tx \notin ToSet(cache) /\ Len(cache) >= capacity)
    BY <1>1, <2>1, <2>2, <2>4, UpdateStep
  <2> QED BY <2>3, <2>4
<1>6. CASE s.op = "insert"
  <2>1. Insert(s.tx, Tail(todo)) /\ s.tx \in Txs /\ s = Step("insert", s.tx)
    BY <1>3, <1>6 DEF CallGoesOn, TxOps
  <2> QED BY <1>1, <2>1, InsertStep
<1>7. CASE s.op = "evicted"
  <2>1. Evicted(s.tx, Tail(todo)) /\ s.tx \in Txs /\ s = Step("evicted", s.tx)
    BY <1>3, <1>7 DEF CallGoesOn, TxOps
  <2> QED BY <1>1, <2>1, NotDirtyStep, DirtyStep
<1>8. CASE s.op = "mark"
  <2>1. Mark(s.tx, Tail(todo)) /\ s.tx \in Txs /\ s = Step("mark", s.tx)
    BY <1>3, <1>8 DEF CallGoesOn, TxOps
  <2> QED BY <1>1, <2>1, MarkStep
<1>9. CASE s.op = "unmark"
  <2>1. Unmark(s.tx, Tail(todo)) /\ s.tx \in Txs /\ s = Step("unmark", s.tx)
    BY <1>3, <1>9 DEF CallGoesOn, TxOps
  <2> QED BY <1>1, <2>1, UnmarkStep
<1>10. CASE s.op = "write"
  <2>1. Write(s.tx, Tail(todo)) /\ s.tx \in Txs /\ s = Step("write", s.tx)
    BY <1>3, <1>10 DEF CallGoesOn, TxOps
  <2> QED BY <1>1, <2>1, WriteStep
<1>11. CASE s.op = "pop"
  <2>1. Pop(s.tx, Tail(todo)) /\ s.tx \in Txs /\ s = Step("pop", s.tx)
    BY <1>3, <1>11 DEF CallGoesOn, TxOps
  <2> QED BY <1>1, <2>1, PopStep
<1>12. CASE s.op = "delete"
  <2>1. Delete(s.tx, Tail(todo)) /\ s.tx \in Txs /\ s = Step("delete", s.tx)
    BY <1>3, <1>12 DEF CallGoesOn, TxOps
  <2> QED BY <1>1, <2>1, DeleteStep
<1>13. CASE s.op = "shrink"
  <2>1. Shrink(Tail(todo)) /\ s = Step("shrink", None)
    BY <1>4, <1>13 DEF CallGoesOn, TxOps
  <2>2. CASE Len(cache) > capacity
    <3>1. CachePopitem(<<Step("shrink", None)>> \o Tail(todo))
      BY <2>1, <2>2 DEF Shrink
    <3>2. cache # <<>>
      BY <1>2, <2>2
    <3> QED BY <1>1, <1>2, <1>13, <2>1, <3>1, <3>2, PopitemStep
  <2>3. CASE ~ (Len(cache) > capacity)
    BY <1>1, <2>1, <2>3, ShrinkEnds DEF Shrink
  <2> QED BY <2>2, <2>3
<1> QED BY <1>3, <1>4, <1>5, <1>6, <1>7, <1>8, <1>9, <1>10, <1>11, <1>12, <1>13 DEF TxOps

----------------------------------------------------------------------------
(* The calls of the reactor begin.                                         *)

(* When the reactor is in no call nothing is pending.                      *)
LEMMA FreeHasNothingPending ==
    ASSUME ReactorFree
    PROVE  \A op, t : ~ Pending(op, t)
BY DEF ReactorFree, Pending

(* The calls with one, two and three steps.                                *)
LEMMA OneStep ==
    ASSUME NEW s \in Steps, s.op \notin {"mark", "unmark"}, todo' = <<s>>
    PROVE  /\ todo' \in Seq(Steps) /\ Shape' /\ todo'[1] = s
           /\ \A op, u : Pending(op, u)' => Step(op, u) = s
<1>1. todo' \in Seq(Steps) /\ todo'[1] = s /\ Len(todo') = 1
  OBVIOUS
<1>2. Shape'
  BY <1>1 DEF Shape, UnmarkShape, MarkShape
<1>3. \A op, u : Pending(op, u)' <=> In(todo', Step(op, u))
  BY <1>1, PendingIsInNext
<1>4. \A x : In(todo', x) => x = s
  BY <1>1 DEF In
<1> QED BY <1>1, <1>2, <1>3, <1>4

LEMMA SaveSteps ==
    ASSUME NEW t \in Txs, todo' = <<Step("update", t), Step("mark", t)>>
    PROVE  /\ todo' \in Seq(Steps) /\ Shape' /\ todo'[1].op = "update"
           /\ \A op, u : Pending(op, u)' => op \in {"update", "mark"} /\ u = t
<1>1. /\ todo' \in Seq(Steps) /\ Len(todo') = 2
      /\ todo'[1] = Step("update", t) /\ todo'[2] = Step("mark", t)
  BY DEF Steps, Step, TxOps
<1>2. /\ todo'[1].op = "update" /\ todo'[2].op = "mark" /\ todo'[2].tx = t
      /\ \A k \in 1 .. 2 : k = 1 \/ k = 2
  BY <1>1 DEF Step
<1>3. Shape'
  <2>1. UnmarkShape(todo')
    BY <1>1, <1>2 DEF UnmarkShape
  <2>2. MarkShape(todo')
    BY <1>1, <1>2 DEF MarkShape
  <2> QED BY <2>1, <2>2 DEF Shape
<1>4. \A op, u : Pending(op, u)' <=> In(todo', Step(op, u))
  BY <1>1, PendingIsInNext
<1>5. \A x : In(todo', x) => x = Step("update", t) \/ x = Step("mark", t)
  BY <1>1, <1>2 DEF In
<1>6. \A op, u : Step(op, u) = Step("update", t) \/ Step(op, u) = Step("mark", t) =>
         op \in {"update", "mark"} /\ u = t
  BY DEF Step
<1> QED BY <1>1, <1>2, <1>3, <1>4, <1>5, <1>6

LEMMA RemoveSteps ==
    ASSUME NEW t \in Txs, todo' = <<Step("pop", t), Step("unmark", t), Step("delete", t)>>
    PROVE  /\ todo' \in Seq(Steps) /\ Shape' /\ todo'[1].op = "pop"
           /\ \A op, u : Pending(op, u)' => op \in {"pop", "unmark", "delete"} /\ u = t
<1>1. /\ todo' \in Seq(Steps) /\ Len(todo') = 3
      /\ todo'[1] = Step("pop", t) /\ todo'[2] = Step("unmark", t) /\ todo'[3] = Step("delete", t)
  BY DEF Steps, Step, TxOps
<1>2. /\ todo'[1].op = "pop" /\ todo'[2].op = "unmark" /\ todo'[2].tx = t /\ todo'[3].op = "delete"
      /\ \A k \in 1 .. 3 : k = 1 \/ k = 2 \/ k = 3
  BY <1>1 DEF Step
<1>3. Shape'
  <2>1. UnmarkShape(todo')
    BY <1>1, <1>2 DEF UnmarkShape
  <2>2. MarkShape(todo')
    BY <1>1, <1>2 DEF MarkShape
  <2> QED BY <2>1, <2>2 DEF Shape
<1>4. \A op, u : Pending(op, u)' <=> In(todo', Step(op, u))
  BY <1>1, PendingIsInNext
<1>5. \A x : In(todo', x) => x \in {Step("pop", t), Step("unmark", t), Step("delete", t)}
  BY <1>1, <1>2 DEF In
<1>6. \A op, u : Step(op, u) \in {Step("pop", t), Step("unmark", t), Step("delete", t)} =>
         op \in {"pop", "unmark", "delete"} /\ u = t
  BY DEF Step
<1> QED BY <1>1, <1>2, <1>3, <1>4, <1>5, <1>6

(* The call of flush(): each transaction is unmarked and written in turn.  *)
LEMMA FlushSteps ==
    ASSUME NEW n \in Nat, NEW due \in [1 .. n -> Txs],
           todo' = [k \in 1 .. 2 * n |->
                      Step(IF k % 2 = 1 THEN "unmark" ELSE "write", due[(k + 1) \div 2])]
    PROVE  /\ todo' \in Seq(Steps) /\ Shape'
           /\ todo' # <<>> => todo'[1].op # "mark"
           /\ \A op, u : Pending(op, u)' => op \in {"unmark", "write"}
<1>1. ASSUME NEW k \in 1 .. 2 * n PROVE (k + 1) \div 2 \in 1 .. n /\ k % 2 \in {0, 1}
  OBVIOUS
<1> DEFINE o(k) == IF k % 2 = 1 THEN "unmark" ELSE "write"
           x(k) == due[(k + 1) \div 2]
<1>2. \A k \in 1 .. 2 * n : Step(o(k), x(k)) \in Steps
  BY <1>1 DEF Step, Steps, TxOps
<1>3. todo' \in Seq(Steps) /\ Len(todo') = 2 * n
  BY <1>2
<1>4. \A k \in 1 .. 2 * n : todo'[k] = Step(o(k), x(k))
  OBVIOUS
<1>5. \A k \in 1 .. 2 * n : todo'[k].op = o(k) /\ todo'[k].tx = x(k)
  BY <1>4 DEF Step
<1>6. UnmarkShape(todo')
  <2> SUFFICES ASSUME NEW k \in 1 .. 2 * n, o(k) = "unmark"
               PROVE  k < 2 * n /\ todo'[k + 1] = Step("write", x(k))
    BY <1>3, <1>5 DEF UnmarkShape
  <2>1. k % 2 = 1
    OBVIOUS
  <2>2. k < 2 * n /\ k + 1 \in 1 .. 2 * n /\ (k + 1) % 2 # 1 /\ ((k + 1) + 1) \div 2 = (k + 1) \div 2
    BY <2>1
  <2> QED BY <2>2, <1>4
<1>7. MarkShape(todo')
  BY <1>3, <1>5 DEF MarkShape
<1>8. \A op, u : Pending(op, u)' <=> In(todo', Step(op, u))
  BY <1>3, PendingIsInNext
<1>9. ASSUME NEW op, NEW u, In(todo', Step(op, u)) PROVE op \in {"unmark", "write"}
  <2>1. PICK k \in 1 .. 2 * n : todo'[k] = Step(op, u)
    BY <1>9, <1>3 DEF In
  <2>2. Step(op, u).op = op
    BY DEF Step
  <2> QED BY <2>1, <2>2, <1>5
<1>10. ASSUME todo' # <<>> PROVE todo'[1].op # "mark"
  <2>1. 1 \in 1 .. 2 * n
    BY <1>3, <1>10
  <2> QED BY <2>1, <1>5
<1> QED BY <1>3, <1>6, <1>7, <1>8, <1>9, <1>10 DEF Shape

----------------------------------------------------------------------------
(* Every step preserves the invariant.                                     *)

LEMMA ReactorPreserves ==
    ASSUME IInv, NEW t \in Txs,
           \/ NewTransaction(t) \/ GetTransaction(t) \/ ChangeMetadata(t)
           \/ SaveTransaction(t) \/ Release(t) \/ RemoveTransaction(t)
    PROVE  IInv'
<1> USE DEF IInv
<1>1. \A op, u : ~ Pending(op, u)
  BY FreeHasNothingPending DEF NewTransaction, GetTransaction, ChangeMetadata, SaveTransaction,
     Release, RemoveTransaction
<1>2. CASE NewTransaction(t)
  <2>1. /\ saved[t] = 0 /\ t \notin torn /\ obj' = [obj EXCEPT ![t] = 1] /\ held' = held \cup {t}
        /\ UNCHANGED <<cache, dirty, capacity, disk, todo, thread, saved, torn, overtaken>>
    BY <1>2 DEF NewTransaction, history
  <2>2. TypeOK' /\ Shape'
    BY <2>1 DEF TypeOK, Shape
  <2>3. \A op, u : ~ Pending(op, u)'
    BY <1>1, <2>1 DEF Pending, Step
  <2>4. MarksHeld' /\ MarksCached' /\ RemovalsUnsaved' /\ TornIsGone'
    BY <2>1, <2>3 DEF MarksHeld, MarksCached, RemovalsUnsaved, TornIsGone
  <2>5. MemoryIsNewest'
    BY <2>1 DEF MemoryIsNewest, TypeOK
  <2>6. LastSaveSurvives' /\ PutIsCovered'
    BY <1>1, <2>1 DEF LastSaveSurvives, Survives, PutIsCovered, BeingWritten
  <2> QED BY <2>2, <2>4, <2>5, <2>6
<1>3. CASE GetTransaction(t)
  <2>1. /\ saved[t] # 0 /\ held' = held \cup {t} /\ todo' = <<Step("update", t)>>
        /\ obj' = IF Referenced(t) THEN obj ELSE [obj EXCEPT ![t] = disk[t]]
        /\ UNCHANGED <<cache, dirty, capacity, disk, thread, saved, torn, overtaken>>
    BY <1>3 DEF GetTransaction, history
  <2>2. Step("update", t) \in Steps /\ Step("update", t).op = "update"
    BY DEF Step, Steps, TxOps
  <2>3. /\ todo' \in Seq(Steps) /\ Shape' /\ todo'[1].op = "update"
        /\ \A op, u : Pending(op, u)' => Step(op, u) = Step("update", t)
    BY <2>1, <2>2, OneStep
  <2>4. \A op, u : Pending(op, u)' => op = "update"
    BY <2>3 DEF Step
  <2>5. TypeOK'
    BY <2>1, <2>3 DEF TypeOK
  <2>6. t \notin torn
    BY <2>1 DEF TornIsGone
  <2>7. MarksHeld' /\ MarksCached' /\ RemovalsUnsaved' /\ TornIsGone'
    BY <2>1, <2>3, <2>4, <2>6 DEF MarksHeld, MarksCached, RemovalsUnsaved, TornIsGone
  <2>8. ~ Referenced(t) /\ t \notin overtaken => disk[t] >= saved[t]
    BY <1>1, <2>1, <2>6 DEF Referenced, LastSaveSurvives, Survives, BeingWritten
  <2>9. MemoryIsNewest'
    BY <2>1, <2>8 DEF MemoryIsNewest, TypeOK
  <2>10. LastSaveSurvives' /\ PutIsCovered'
    BY <1>1, <2>1 DEF LastSaveSurvives, Survives, PutIsCovered, BeingWritten
  <2> QED BY <2>3, <2>5, <2>7, <2>9, <2>10
<1>4. CASE ChangeMetadata(t)
  <2>1. /\ obj' = [obj EXCEPT ![t] = obj[t] + 1]
        /\ UNCHANGED <<cache, dirty, capacity, held, disk, todo, thread, saved, torn, overtaken>>
    BY <1>4 DEF ChangeMetadata, history
  <2>2. obj \in [Txs -> Nat] /\ saved \in [Txs -> Nat]
    BY DEF TypeOK
  <2>3. obj' \in [Txs -> Nat] /\ \A u \in Txs : obj'[u] >= obj[u]
    BY <2>1, <2>2
  <2>4. TypeOK' /\ Shape'
    BY <2>1, <2>3 DEF TypeOK, Shape
  <2>5. \A op, u : ~ Pending(op, u)'
    BY <1>1, <2>1 DEF Pending, Step
  <2>6. MarksHeld' /\ MarksCached' /\ RemovalsUnsaved' /\ TornIsGone'
    BY <2>1, <2>5 DEF MarksHeld, MarksCached, RemovalsUnsaved, TornIsGone
  <2>7. MemoryIsNewest'
    <3> SUFFICES ASSUME NEW u \in Txs \ (torn \cup overtaken), saved[u] # 0 PROVE obj'[u] >= saved[u]
      BY <2>1 DEF MemoryIsNewest
    <3>1. obj[u] >= saved[u] /\ obj[u] \in Nat /\ obj'[u] \in Nat /\ saved[u] \in Nat
      BY <2>2, <2>3 DEF MemoryIsNewest
    <3> QED BY <2>3, <3>1
  <2>8. LastSaveSurvives' /\ PutIsCovered'
    BY <1>1, <2>1 DEF LastSaveSurvives, Survives, PutIsCovered, BeingWritten
  <2> QED BY <2>4, <2>6, <2>7, <2>8
<1>5. CASE SaveTransaction(t)
  <2>1. /\ t \in held /\ todo' = <<Step("update", t), Step("mark", t)>>
        /\ UNCHANGED <<cache, dirty, capacity, obj, held, disk, thread, saved, torn, overtaken>>
    BY <1>5 DEF SaveTransaction, history
  <2>2. /\ todo' \in Seq(Steps) /\ Shape' /\ todo'[1].op = "update"
        /\ \A op, u : Pending(op, u)' => op \in {"update", "mark"} /\ u = t
    BY <2>1, SaveSteps
  <2>3. TypeOK'
    BY <2>1, <2>2 DEF TypeOK
  <2>4. MarksHeld' /\ MarksCached' /\ RemovalsUnsaved' /\ TornIsGone' /\ MemoryIsNewest'
    BY <2>1, <2>2 DEF MarksHeld, MarksCached, RemovalsUnsaved, TornIsGone, MemoryIsNewest
  <2>5. LastSaveSurvives' /\ PutIsCovered'
    BY <1>1, <2>1 DEF LastSaveSurvives, Survives, PutIsCovered, BeingWritten
  <2> QED BY <2>2, <2>3, <2>4, <2>5
<1>6. CASE Release(t)
  <2>1. /\ held' = held \ {t}
        /\ UNCHANGED <<cache, dirty, capacity, obj, disk, todo, thread, saved, torn, overtaken>>
    BY <1>6 DEF Release, history
  <2>2. TypeOK' /\ Shape'
    BY <2>1 DEF TypeOK, Shape
  <2>3. \A op, u : ~ Pending(op, u)'
    BY <1>1, <2>1 DEF Pending, Step
  <2>4. MarksHeld' /\ MarksCached' /\ RemovalsUnsaved' /\ TornIsGone' /\ MemoryIsNewest'
    BY <2>1, <2>3 DEF MarksHeld, MarksCached, RemovalsUnsaved, TornIsGone, MemoryIsNewest
  <2>5. LastSaveSurvives' /\ PutIsCovered'
    BY <1>1, <2>1 DEF LastSaveSurvives, Survives, PutIsCovered, BeingWritten
  <2> QED BY <2>2, <2>4, <2>5
<1>7. CASE RemoveTransaction(t)
  <2>1. /\ held' = held \ {t} /\ saved' = [saved EXCEPT ![t] = 0]
        /\ todo' = <<Step("pop", t), Step("unmark", t), Step("delete", t)>>
        /\ UNCHANGED <<cache, dirty, capacity, obj, disk, thread, torn, overtaken>>
    BY <1>7 DEF RemoveTransaction, history
  <2>2. /\ todo' \in Seq(Steps) /\ Shape' /\ todo'[1].op = "pop"
        /\ \A op, u : Pending(op, u)' => op \in {"pop", "unmark", "delete"} /\ u = t
    BY <2>1, RemoveSteps
  <2>3. saved \in [Txs -> Nat] /\ torn \subseteq Txs
    BY DEF TypeOK
  <2>4. saved'[t] = 0 /\ \A u \in Txs : saved'[u] = 0 \/ saved'[u] = saved[u]
    BY <2>1, <2>3
  <2>5. TypeOK'
    BY <2>1, <2>2 DEF TypeOK
  <2>6. MarksHeld' /\ MarksCached' /\ RemovalsUnsaved'
    BY <2>1, <2>2, <2>4 DEF MarksHeld, MarksCached, RemovalsUnsaved
  <2>7. TornIsGone' /\ MemoryIsNewest'
    BY <2>1, <2>3, <2>4 DEF TornIsGone, MemoryIsNewest
  <2>8. LastSaveSurvives' /\ PutIsCovered'
    BY <1>1, <2>1, <2>4 DEF LastSaveSurvives, Survives, PutIsCovered, BeingWritten
  <2> QED BY <2>2, <2>5, <2>6, <2>7, <2>8
<1> QED BY <1>2, <1>3, <1>4, <1>5, <1>6, <1>7

LEMMA SetCapacityPreserves ==
    ASSUME IInv, CacheAssumption, NEW c \in Capacities, SetCapacity(c)
    PROVE  IInv'
<1> USE DEF IInv
<1>1. \A op, u : ~ Pending(op, u)
  BY FreeHasNothingPending DEF SetCapacity
<1>2. /\ capacity' \in Nat \ {0} /\ todo' = <<Step("shrink", None)>>
      /\ UNCHANGED <<cache, dirty, obj, held, disk, thread, saved, torn, overtaken>>
  BY DEF SetCapacity, history, CacheAssumption
<1>3. Step("shrink", None) \in Steps /\ Step("shrink", None).op = "shrink"
  BY DEF Step, Steps
<1>4. /\ todo' \in Seq(Steps) /\ Shape' /\ todo'[1].op = "shrink"
      /\ \A op, u : Pending(op, u)' => Step(op, u) = Step("shrink", None)
  BY <1>2, <1>3, OneStep
<1>5. \A op, u : Pending(op, u)' => op = "shrink"
  BY <1>4 DEF Step
<1>6. TypeOK'
  BY <1>2, <1>4 DEF TypeOK
<1>7. MarksHeld' /\ MarksCached' /\ RemovalsUnsaved' /\ TornIsGone' /\ MemoryIsNewest'
  BY <1>2, <1>4, <1>5 DEF MarksHeld, MarksCached, RemovalsUnsaved, TornIsGone, MemoryIsNewest
<1>8. LastSaveSurvives' /\ PutIsCovered'
  BY <1>1, <1>2 DEF LastSaveSurvives, Survives, PutIsCovered, BeingWritten
<1> QED BY <1>4, <1>6, <1>7, <1>8

LEMMA FlushPreserves ==
    ASSUME IInv, Flush
    PROVE  IInv'
<1> USE DEF IInv
<1>1. \A op, u : ~ Pending(op, u)
  BY FreeHasNothingPending DEF Flush
<1>2. UNCHANGED <<cache, dirty, capacity, obj, held, disk, thread, saved, torn, overtaken>>
  BY DEF Flush, history
<1> DEFINE D == dirty \cap ToSet(cache)
<1>3. PICK due \in SetToSeqs(D) :
         todo' = [k \in 1 .. 2 * Len(due) |->
                    Step(IF k % 2 = 1 THEN "unmark" ELSE "write", due[(k + 1) \div 2])]
  BY DEF Flush
<1>4. PICK n : due \in [1 .. n -> D] /\ n = Cardinality(D)
  BY DEF SetToSeqs
<1>5. IsFiniteSet(D)
  <2>1. cache \in Seq(Txs)
    BY DEF TypeOK
  <2>2. Len(cache) \in Nat /\ 1 \in Int /\ Len(cache) \in Int /\ DOMAIN cache = 1 .. Len(cache)
    BY <2>1
  <2>3. IsFiniteSet(1 .. Len(cache))
    BY <2>2, FS_Interval
  <2>4. IsFiniteSet({cache[i] : i \in 1 .. Len(cache)})
    <3> DEFINE R == {cache[i] : i \in 1 .. Len(cache)}
    <3>1. cache \in Surjection(1 .. Len(cache), R)
      BY <2>1, <2>2 DEF Surjection
    <3> HIDE DEF R
    <3>2. IsFiniteSet(R)
      BY <2>3, <3>1, FS_Surjection
    <3> QED BY <3>2 DEF R
  <2>5. D \subseteq {cache[i] : i \in 1 .. Len(cache)}
    BY <2>2 DEF ToSet
  <2> QED BY <2>4, <2>5, FS_Subset
<1>6. n \in Nat
  BY <1>4, <1>5, FS_CardinalityType
<1>7. due \in [1 .. n -> Txs] /\ Len(due) = n
  <2>1. D \subseteq Txs
    BY DEF TypeOK
  <2> HIDE DEF D
  <2> QED BY <1>4, <1>6, <2>1
<1>8. /\ todo' \in Seq(Steps) /\ Shape'
      /\ todo' # <<>> => todo'[1].op # "mark"
      /\ \A op, u : Pending(op, u)' => op \in {"unmark", "write"}
  BY <1>3, <1>6, <1>7, FlushSteps
<1>9. TypeOK'
  BY <1>2, <1>8 DEF TypeOK
<1>10. MarksHeld' /\ MarksCached' /\ RemovalsUnsaved' /\ TornIsGone' /\ MemoryIsNewest'
  BY <1>2, <1>8 DEF MarksHeld, MarksCached, RemovalsUnsaved, TornIsGone, MemoryIsNewest
<1>11. LastSaveSurvives' /\ PutIsCovered'
  BY <1>1, <1>2 DEF LastSaveSurvives, Survives, PutIsCovered, BeingWritten
<1> QED BY <1>8, <1>9, <1>10, <1>11

LEMMA ThreadPreserves ==
    ASSUME IInv,
           StartFlushThread \/ FlushCheck \/ FlushFetch \/ FlushUnmark
           \/ FlushSerialize \/ FlushPut \/ FlushEnds
    PROVE  IInv'
<1> USE DEF IInv
<1>1. UNCHANGED <<cache, capacity, obj, held, todo, saved, torn, overtaken>>
  BY DEF StartFlushThread, FlushCheck, FlushFetch, FlushUnmark, FlushSerialize, FlushPut,
     FlushEnds, history
<1>2. \A op, u : Pending(op, u)' <=> Pending(op, u)
  BY <1>1 DEF Pending, Step
<1>3. Shape' /\ MarksHeld' /\ MarksCached' /\ RemovalsUnsaved' /\ TornIsGone' /\ MemoryIsNewest'
  BY <1>1, <1>2 DEF Shape, MarksHeld, MarksCached, RemovalsUnsaved, TornIsGone, MemoryIsNewest
<1>4. CASE StartFlushThread \/ FlushCheck \/ FlushFetch \/ FlushEnds
  <2>1. UNCHANGED <<dirty, disk>>
    BY <1>4 DEF StartFlushThread, FlushCheck, FlushFetch, FlushEnds
  <2>2. thread.pc # "write" /\ thread.pc # "put"
    BY <1>4 DEF StartFlushThread, FlushCheck, FlushFetch, FlushEnds, TypeOK
  <2> DEFINE T == [st : {"timer", "running"}, left : SUBSET Txs, cur : Txs \cup {None}, pc : Pcs,
                    val : Nat]
             Good(th) == th \in T /\ (th.pc # "" => th.cur \in Txs /\ th.st = "running") /\ th.pc # "put"
  <2>3. Good(thread) /\ dirty \subseteq Txs /\ Good(Timer)
    BY <2>2 DEF TypeOK, Timer, Pcs
  <2>4. ASSUME StartFlushThread PROVE Good(thread')
    <3>1. thread' = [Timer EXCEPT !.st = "running", !.left = dirty]
      BY <2>4 DEF StartFlushThread
    <3> QED BY <2>3, <3>1 DEF Timer, Pcs
  <2>5. ASSUME FlushCheck PROVE Good(thread')
    <3>1. PICK t \in thread.left :
             \/ thread' = [thread EXCEPT !.left = @ \ {t}, !.cur = t, !.pc = "fetch"]
             \/ thread' = [thread EXCEPT !.left = @ \ {t}]
      BY <2>5 DEF FlushCheck
    <3>2. thread.st = "running" /\ t \in Txs
      BY <2>3, <2>5 DEF FlushCheck
    <3> QED BY <2>3, <3>1, <3>2 DEF Pcs
  <2>6. ASSUME FlushFetch PROVE Good(thread')
    <3>1. thread' = [thread EXCEPT !.pc = "unmark"] \/ thread' = Timer
      BY <2>6 DEF FlushFetch, AfterFetch, ThreadGoesTo
    <3>2. thread.pc # ""
      BY <2>6 DEF FlushFetch
    <3> QED BY <2>3, <3>1, <3>2 DEF Pcs
  <2>7. ASSUME FlushEnds PROVE Good(thread')
    BY <2>3, <2>7 DEF FlushEnds
  <2>8. TypeOK'
    <3>1. Good(thread')
      BY <1>4, <2>4, <2>5, <2>6, <2>7
    <3> QED BY <1>1, <2>1, <3>1 DEF TypeOK
  <2>9. LastSaveSurvives' /\ PutIsCovered'
    <3>1. thread'.pc # "put"
      BY <1>4, <2>4, <2>5, <2>6, <2>7
    <3> QED BY <3>1, <1>1, <1>2, <2>1, <2>2 DEF LastSaveSurvives, Survives, PutIsCovered, BeingWritten
  <2> QED BY <1>3, <2>8, <2>9
<1>5. CASE FlushUnmark
  <2>1. /\ dirty' = dirty \ {thread.cur} /\ UNCHANGED disk
        /\ thread' = [thread EXCEPT !.pc = "write"] /\ thread.pc = "unmark"
    BY <1>5 DEF FlushUnmark, AfterFetch, ThreadGoesTo
  <2>2. TypeOK' /\ thread'.cur = thread.cur /\ thread'.pc = "write"
    BY <1>1, <2>1 DEF TypeOK, Pcs
  <2>3. LastSaveSurvives' /\ PutIsCovered'
    BY <1>1, <1>2, <2>1, <2>2 DEF LastSaveSurvives, Survives, PutIsCovered, BeingWritten
  <2> QED BY <1>3, <2>2, <2>3
<1>6. CASE FlushSerialize
  <2>1. /\ UNCHANGED <<dirty, disk>> /\ thread.pc = "write"
        /\ thread' = [thread EXCEPT !.pc = "put", !.val = obj[thread.cur]]
    BY <1>6 DEF FlushSerialize, AfterFetch
  <2>2. TypeOK' /\ thread'.cur = thread.cur /\ thread'.pc = "put" /\ thread'.val = obj[thread.cur]
    BY <1>1, <2>1 DEF TypeOK, Pcs
  <2>3. LastSaveSurvives' /\ PutIsCovered'
    BY <1>1, <1>2, <2>1, <2>2
       DEF LastSaveSurvives, Survives, PutIsCovered, BeingWritten, MemoryIsNewest
  <2> QED BY <1>3, <2>2, <2>3
<1>7. CASE FlushPut
  <2>1. /\ disk' = [disk EXCEPT ![thread.cur] = thread.val] /\ UNCHANGED dirty
        /\ thread' = [thread EXCEPT !.pc = "", !.cur = None, !.val = 0] /\ thread.pc = "put"
    BY <1>7 DEF FlushPut, AfterFetch, ThreadGoesTo
  <2>2. TypeOK' /\ thread'.pc = ""
    BY <1>1, <2>1 DEF TypeOK, Pcs
  <2>3. \A u \in Txs : IF u = thread.cur THEN disk'[u] = thread.val ELSE disk'[u] = disk[u]
    BY <2>1 DEF TypeOK
  <2>4. LastSaveSurvives' /\ PutIsCovered'
    BY <1>1, <1>2, <2>1, <2>2, <2>3 DEF LastSaveSurvives, Survives, PutIsCovered, BeingWritten
  <2> QED BY <1>3, <2>2, <2>4
<1> QED BY <1>4, <1>5, <1>6, <1>7

LEMMA InitIsSafe ==
    ASSUME Init, CacheAssumption
    PROVE  IInv
<1>1. TypeOK
  <2>1. thread \in [st : {"timer", "running"}, left : SUBSET Txs, cur : Txs \cup {None}, pc : Pcs,
                    val : Nat]
    BY DEF Init, Timer, Pcs
  <2>2. thread.pc = "" /\ capacity \in Nat \ {0}
    BY DEF Init, Timer, CacheAssumption
  <2>3. obj \in [Txs -> Nat] /\ disk \in [Txs -> Nat] /\ saved \in [Txs -> Nat]
    BY DEF Init
  <2>4. cache \in Seq(Txs) /\ todo \in Seq(Steps)
    BY DEF Init
  <2> QED BY <2>1, <2>2, <2>3, <2>4 DEF Init, TypeOK
<1>2. Shape /\ MarksHeld /\ MarksCached /\ RemovalsUnsaved /\ TornIsGone
  BY DEF Init, Shape, UnmarkShape, MarkShape, MarksHeld, MarksCached, RemovalsUnsaved,
     TornIsGone, Pending
<1>3. MemoryIsNewest /\ LastSaveSurvives /\ PutIsCovered
  BY DEF Init, MemoryIsNewest, LastSaveSurvives, Survives, PutIsCovered
<1> QED BY <1>1, <1>2, <1>3 DEF IInv

LEMMA NextPreserves ==
    ASSUME IInv, CacheAssumption, [Next]_vars
    PROVE  IInv'
<1>1. CASE Next
  BY <1>1, ReactorPreserves, SetCapacityPreserves, FlushPreserves, CallGoesOnPreserves,
     ThreadPreserves DEF Next
<1>2. CASE UNCHANGED vars
  <2>1. UNCHANGED <<cache, dirty, capacity, obj, held, disk, todo, thread, saved, torn, overtaken>>
    BY <1>2 DEF vars
  <2>2. \A op, t : Pending(op, t)' <=> Pending(op, t)
    BY <2>1 DEF Pending, Step
  <2>3. TypeOK' /\ Shape' /\ MarksCached'
    BY <2>1 DEF IInv, TypeOK, Shape, MarksCached
  <2>4. MarksHeld' /\ RemovalsUnsaved' /\ TornIsGone' /\ MemoryIsNewest'
    BY <2>1, <2>2 DEF IInv, MarksHeld, RemovalsUnsaved, TornIsGone, MemoryIsNewest
  <2>5. LastSaveSurvives'
    BY <2>1, <2>2 DEF IInv, LastSaveSurvives, Survives, BeingWritten
  <2>6. PutIsCovered'
    BY <2>1, <2>2 DEF IInv, PutIsCovered
  <2> QED BY <2>3, <2>4, <2>5, <2>6 DEF IInv
<1> QED BY <1>1, <1>2

----------------------------------------------------------------------------
(* The inductive invariant: the order of the steps of every call of the    *)
(* cache, what a removal leaves, and that memory is never older than the   *)
(* last save.                                                              *)
THEOREM Invariance ==
    ASSUME CacheAssumption
    PROVE  Spec => []IInv
<1>1. Init => IInv
  BY InitIsSafe
<1>2. IInv /\ [Next]_vars => IInv'
  BY NextPreserves
<1> QED BY <1>1, <1>2, PTL DEF Spec

(* The cache, the mark set, the disk, the call and the thread always hold  *)
(* what their types say.                                                   *)
THEOREM TypeCorrect ==
    ASSUME CacheAssumption
    PROVE  Spec => []TypeOK
<1>1. IInv => TypeOK
  BY DEF IInv
<1> QED BY <1>1, Invariance, PTL

(* No saved update is lost between the cache, the flush thread, evictions  *)
(* and removals (_flush_to_storage, _cache_popitem, _update_cache), except *)
(* by a put of the thread that a write of the reactor has overtaken: of    *)
(* all interleavings it is the only one that loses an update.              *)
THEOREM NoSaveIsLost ==
    ASSUME CacheAssumption
    PROVE  Spec => []LastSaveSurvives
<1>1. IInv => LastSaveSurvives
  BY DEF IInv
<1> QED BY <1>1, Invariance, PTL

(* An object nobody references can be dropped: what _get_transaction loads *)
(* from the disk then is at least the last save, unless a put of the flush *)
(* thread was overtaken by a write of the reactor.                         *)
THEOREM ReloadSeesLastSave ==
    ASSUME CacheAssumption
    PROVE  Spec => [](\A t \in Txs \ (torn \cup overtaken) :
                         ~ Referenced(t) /\ saved[t] # 0 => disk[t] >= saved[t])
<1>1. ASSUME IInv, NEW t \in Txs \ (torn \cup overtaken), ~ Referenced(t), saved[t] # 0
      PROVE  disk[t] >= saved[t]
  <2>1. ASSUME NEW op PROVE ~ Pending(op, t)
    BY <1>1 DEF Pending, Referenced, Step
  <2> QED BY <1>1, <2>1 DEF IInv, LastSaveSurvives, Survives, BeingWritten, Referenced
<1>2. IInv => \A t \in Txs \ (torn \cup overtaken) :
                  ~ Referenced(t) /\ saved[t] # 0 => disk[t] >= saved[t]
  BY <1>1
<1> QED BY <1>2, Invariance, PTL
=============================================================================
