---------------------------- MODULE LedgerProofs ----------------------------
(***************************************************************************)
(* Proofs about what a node derives from the ledger.                       *)
(*                                                                         *)
(* The life cycle of features along a chain (FeatureLifecycle), for any    *)
(* interval, any number of signal bits and features, and any validated     *)
(* configuration.                                                          *)
(*                                                                         *)
(* The outputs of the wallet, for any transactions, conflicts and          *)
(* addresses; it is the instance Wallet, with its own variables.           *)
(*                                                                         *)
(* The books of the nano contracts, for any contracts, tokens, actions and *)
(* limits; the runner is the instance Nc.                                  *)
(***************************************************************************)
EXTENDS FeatureLifecycle, Sequences, FiniteSetTheorems, WellFoundedInduction, TLAPS

CONSTANTS Inputs, Mine, MaxQueue
VARIABLES stored, executed, queue, wallet, raised

Wallet == INSTANCE Wallet

\* The property of the wallet.
INSTANCE WalletSafety

CONSTANTS Contracts, Tokens, Htr, ChildToken, Actions, Amounts, RightSets, Unit, MaxDepth,
          MaxCalls, MaxUpdates, MaxExecutions
VARIABLES block, tokens, storages, totals, stack, trackers, recorded, main, calls, updates,
          executions, net

Nc == INSTANCE NcRunner

\* The property of the runner.
INSTANCE NcRunnerSafety

-----------------------------------------------------------------------------
(* The life cycle of features.                                             *)

(* What holds of one feature with criteria c and state s at a block of     *)
(* epoch e and offset o whose bit counts are n: each state lasts only      *)
(* within its part of the configured heights, and while a feature must be  *)
(* signalled its interval can still reach the threshold.                   *)
FeatureInv(c, s, e, o, n) ==
    /\ s = "DEFINED" => e < c.start \/ e = 0
    /\ s = "STARTED" =>
          /\ e >= c.start /\ e >= 1 /\ e < c.timeout
          /\ c.lockInOnTimeout => e + 1 < c.timeout \/ (c.start = 0 /\ e = 1)
    /\ s = "MUST_SIGNAL" =>
          /\ c.lockInOnTimeout
          /\ e >= c.start
          /\ e < c.timeout \/ (c.start = 0 /\ e = c.timeout)
          /\ c.threshold - n[c.bit] <= Interval - o - 1
    /\ (s = "LOCKED_IN" /\ c.start > 0) => e < c.minimumActivation \/ e <= c.timeout
    /\ s = "FAILED" => ~c.lockInOnTimeout

(* The inductive invariant. *)
IInv ==
    /\ TypeOK
    /\ \A f \in Features : FeatureInv(criteria[f], state[f], epoch, offset, counts)

----------------------------------------------------------------------------
(* The criteria of a configured feature are validated ones.                *)
LEMMA CriteriaAreValid ==
    ASSUME criteria \in Configurations, NEW f \in Features
    PROVE  /\ criteria[f] \in Criteria
           /\ criteria[f].bit \in Bits
           /\ criteria[f].timeout >= criteria[f].start + 2
           /\ criteria[f].threshold \in 0 .. Interval
<1>1. ValidatedCriteria(criteria[f])
  BY FeatureAssumption DEF ValidatedSettings
<1>2. QED
  BY <1>1, FeatureAssumption DEF ValidatedCriteria, Criteria, Bits

(* _calculate_new_state returns a state, and never leaves the parts of the *)
(* configured heights that FeatureInv gives to each state.                 *)
LEMMA NewStateKeepsInv ==
    ASSUME NEW c \in Criteria, NEW s \in States, NEW e \in Nat, NEW n, NEW m,
           c.timeout >= c.start + 2,
           FeatureInv(c, s, e, Interval - 1, n),
           IsSignaling(c, NewState(c, s, e + 1, n), m, 0)
    PROVE  /\ NewState(c, s, e + 1, n) \in States
           /\ FeatureInv(c, NewState(c, s, e + 1, n), e + 1, 0, m)
<1> DEFINE t == NewState(c, s, e + 1, n)
<1>0. /\ c.start \in Nat /\ c.timeout \in Nat /\ c.minimumActivation \in Nat
      /\ c.lockInOnTimeout \in BOOLEAN
  BY DEF Criteria
<1>1. CASE s = "DEFINED"
  <2>1. t = IF e + 1 >= c.start THEN "STARTED" ELSE "DEFINED"
    BY <1>1 DEF NewState
  <2>2. QED
    BY <1>0, <1>1, <2>1 DEF FeatureInv, States
<1>2. CASE s = "STARTED"
  <2>1. t = IF e + 1 >= c.timeout /\ ~c.lockInOnTimeout THEN "FAILED"
            ELSE IF e + 1 < c.timeout /\ n[c.bit] >= c.threshold THEN "LOCKED_IN"
            ELSE IF (e + 1) + 1 >= c.timeout /\ c.lockInOnTimeout THEN "MUST_SIGNAL"
            ELSE "STARTED"
    BY <1>2 DEF NewState, FromStarted
  <2>2. CASE e + 1 >= c.timeout /\ ~c.lockInOnTimeout
    BY <2>1, <2>2 DEF FeatureInv, States
  <2>3. CASE e + 1 < c.timeout /\ n[c.bit] >= c.threshold
    BY <1>0, <2>1, <2>3 DEF FeatureInv, States
  <2>4. CASE /\ ~(e + 1 >= c.timeout /\ ~c.lockInOnTimeout)
             /\ ~(e + 1 < c.timeout /\ n[c.bit] >= c.threshold)
             /\ (e + 1) + 1 >= c.timeout /\ c.lockInOnTimeout
    <3>1. t = "MUST_SIGNAL"
      BY <2>1, <2>4
    <3>2. c.threshold - m[c.bit] <= Interval - 0 - 1
      BY <3>1 DEF IsSignaling
    <3>3. e >= c.start /\ (e + 1 < c.timeout \/ (c.start = 0 /\ e = 1))
      BY <1>2, <2>4 DEF FeatureInv
    <3>4. e + 1 < c.timeout \/ (c.start = 0 /\ e + 1 = c.timeout)
      BY <1>0, <1>2, <3>3 DEF FeatureInv
    <3>5. e + 1 >= c.start
      BY <1>0, <3>3
    <3>6. QED
      BY <2>4, <3>1, <3>2, <3>4, <3>5 DEF FeatureInv, States
  <2>5. CASE /\ ~(e + 1 >= c.timeout /\ ~c.lockInOnTimeout)
             /\ ~(e + 1 < c.timeout /\ n[c.bit] >= c.threshold)
             /\ ~((e + 1) + 1 >= c.timeout /\ c.lockInOnTimeout)
    BY <1>0, <1>2, <2>1, <2>5 DEF FeatureInv, States
  <2>6. QED
    BY <2>2, <2>3, <2>4, <2>5
<1>3. CASE s = "MUST_SIGNAL"
  <2>1. t = "LOCKED_IN"
    BY <1>3 DEF NewState
  <2>2. QED
    BY <1>0, <1>3, <2>1 DEF FeatureInv, States
<1>4. CASE s = "LOCKED_IN"
  <2>1. t = IF e + 1 >= c.minimumActivation THEN "ACTIVE" ELSE "LOCKED_IN"
    BY <1>4 DEF NewState, FromLockedIn
  <2>2. QED
    BY <1>0, <1>4, <2>1 DEF FeatureInv, States
<1>5. CASE s \in {"ACTIVE", "FAILED"}
  <2>1. t = s
    BY <1>5 DEF NewState
  <2>2. QED
    BY <1>5, <2>1 DEF FeatureInv, States
<1>6. QED
  BY <1>1, <1>2, <1>3, <1>4, <1>5 DEF States

(* The bit counts of the next block.                                       *)
LEMMA NextCountsType ==
    ASSUME TypeOK, NEW signals \in SUBSET Bits
    PROVE  /\ NextOffset \in 0 .. Interval - 1
           /\ NextCounts(signals) \in [Bits -> 0 .. NextOffset + 1]
<1>1. NextOffset \in 0 .. Interval - 1
  BY FeatureAssumption DEF TypeOK, NextOffset, NextIsBoundary
<1>2. ASSUME NEW b \in Bits
      PROVE  (IF NextIsBoundary THEN 0 ELSE counts[b]) + (IF b \in signals THEN 1 ELSE 0)
                \in 0 .. NextOffset + 1
  <2>1. counts[b] \in 0 .. offset + 1 /\ offset \in Nat
    BY FeatureAssumption DEF TypeOK
  <2>2. QED
    BY <2>1 DEF NextOffset
<1>3. QED
  BY <1>1, <1>2 DEF NextCounts, BitCounts

----------------------------------------------------------------------------
LEMMA InitInv == Init => IInv
<1> SUFFICES ASSUME Init PROVE IInv
  OBVIOUS
<1>1. TypeOK
  BY FeatureAssumption DEF Init, TypeOK, States, Bits
<1>2. ASSUME NEW f \in Features
      PROVE  FeatureInv(criteria[f], state[f], epoch, offset, counts)
  BY DEF Init, FeatureInv
<1>3. QED
  BY <1>1, <1>2 DEF IInv

LEMMA StepInv == IInv /\ [Next]_vars => IInv'
<1> SUFFICES ASSUME IInv, [Next]_vars PROVE IInv'
  OBVIOUS
<1>1. CASE Next
  <2>1. PICK signals \in SUBSET Bits : AddBlock(signals)
    BY <1>1 DEF Next
  <2>2. /\ criteria' = criteria /\ epoch' = NextEpoch /\ offset' = NextOffset
        /\ counts' = NextCounts(signals) /\ state' = NextState
        /\ NextEpoch <= MaxEpoch
    BY <2>1 DEF AddBlock
  <2>3. /\ criteria \in Configurations /\ epoch \in Nat /\ offset \in 0 .. Interval - 1
        /\ counts \in [Bits -> 0 .. offset + 1]
        /\ state \in [Features -> States]
    BY FeatureAssumption DEF IInv, TypeOK
  <2>4. ASSUME NEW f \in Features
        PROVE  /\ NextState[f] \in States
               /\ FeatureInv(criteria[f], NextState[f], NextEpoch, NextOffset,
                             NextCounts(signals))
    <3>1. /\ criteria[f] \in Criteria /\ criteria[f].bit \in Bits
          /\ criteria[f].timeout >= criteria[f].start + 2
          /\ criteria[f].threshold \in 0 .. Interval
      BY <2>3, CriteriaAreValid
    <3>2. FeatureInv(criteria[f], state[f], epoch, offset, counts) /\ state[f] \in States
      BY <2>3 DEF IInv
    <3>3. IsSignaling(criteria[f], NextState[f], NextCounts(signals), NextOffset)
      BY <2>1 DEF AddBlock, Accepted
    <3>4. CASE NextIsBoundary
      <4>1. /\ NextState[f] = NewState(criteria[f], state[f], epoch + 1, counts)
            /\ NextEpoch = epoch + 1 /\ NextOffset = 0 /\ offset = Interval - 1
        BY <3>4, <2>3, FeatureAssumption
           DEF NextState, NextEpoch, NextOffset, NextIsBoundary
      <4>2. QED
        BY <2>3, <3>1, <3>2, <3>3, <4>1, NewStateKeepsInv
    <3>5. CASE ~NextIsBoundary
      <4>1. NextState[f] = state[f] /\ NextEpoch = epoch
        BY <3>5 DEF NextState, NextEpoch
      <4>2. QED
        BY <3>2, <3>3, <4>1 DEF FeatureInv, IsSignaling
    <3>6. QED
      BY <3>4, <3>5
  <2>5. TypeOK'
    <3>1. NextState \in [Features -> States]
      BY <2>4 DEF NextState
    <3>2. NextEpoch \in 0 .. MaxEpoch
      BY <2>2, <2>3, FeatureAssumption DEF NextEpoch
    <3>3. NextOffset \in 0 .. Interval - 1 /\ NextCounts(signals) \in [Bits -> 0 .. NextOffset + 1]
      BY NextCountsType DEF IInv
    <3>4. QED
      BY <2>2, <2>3, <3>1, <3>2, <3>3 DEF TypeOK
  <2>6. QED
    BY <2>2, <2>4, <2>5 DEF IInv
<1>2. CASE UNCHANGED vars
  BY <1>2 DEF vars, IInv, TypeOK, Bits
<1>3. QED
  BY <1>1, <1>2

(* The invariant holds in every reachable state.                           *)
THEOREM Invariance == Spec => []IInv
  BY InitInv, StepInv, PTL DEF Spec

----------------------------------------------------------------------------
(* Type correctness; in particular no bit is counted more often than the   *)
(* interval has blocks so far.                                             *)
THEOREM TypeCorrect == Spec => []TypeOK
<1>1. IInv => TypeOK
  BY DEF IInv
<1>2. QED
  BY <1>1, Invariance, PTL

(* The vote on a feature is over at its timeout.                           *)
THEOREM VoteEndsAtTimeout == Spec => []TimeoutDecides
<1>1. IInv => TimeoutDecides
  <2> SUFFICES ASSUME IInv, NEW f \in Features,
                      criteria[f].start > 0, epoch >= criteria[f].timeout
               PROVE  state[f] \in {"LOCKED_IN", "ACTIVE", "FAILED"}
    BY DEF TimeoutDecides
  <2>1. criteria[f] \in Criteria /\ criteria[f].timeout >= criteria[f].start + 2
    BY CriteriaAreValid DEF IInv, TypeOK
  <2>2. criteria[f].start \in Nat /\ criteria[f].timeout \in Nat
    BY <2>1 DEF Criteria
  <2>3. epoch \in Nat /\ state[f] \in States
    BY DEF IInv, TypeOK
  <2>4. FeatureInv(criteria[f], state[f], epoch, offset, counts)
    BY DEF IInv
  <2>5. state[f] # "DEFINED" /\ state[f] # "STARTED" /\ state[f] # "MUST_SIGNAL"
    BY <2>1, <2>2, <2>3, <2>4 DEF FeatureInv
  <2>6. QED
    BY <2>3, <2>5 DEF States
<1>2. QED
  BY <1>1, Invariance, PTL

(* lock_in_on_timeout does force activation.                               *)
THEOREM ForcedActivation == Spec => []ForcedFeatureIsActive
<1>1. IInv => ForcedFeatureIsActive
  <2> SUFFICES ASSUME IInv, NEW f \in Features,
                      criteria[f].lockInOnTimeout, criteria[f].start > 0,
                      epoch > criteria[f].timeout,
                      epoch >= criteria[f].minimumActivation
               PROVE  state[f] = "ACTIVE"
    BY DEF ForcedFeatureIsActive
  <2>1. criteria[f] \in Criteria /\ criteria[f].timeout >= criteria[f].start + 2
    BY CriteriaAreValid DEF IInv, TypeOK
  <2>2. /\ criteria[f].start \in Nat /\ criteria[f].timeout \in Nat
        /\ criteria[f].minimumActivation \in Nat
    BY <2>1 DEF Criteria
  <2>3. epoch \in Nat /\ state[f] \in States
    BY DEF IInv, TypeOK
  <2>4. FeatureInv(criteria[f], state[f], epoch, offset, counts)
    BY DEF IInv
  <2>5. /\ state[f] # "DEFINED" /\ state[f] # "STARTED" /\ state[f] # "MUST_SIGNAL"
        /\ state[f] # "LOCKED_IN" /\ state[f] # "FAILED"
    BY <2>1, <2>2, <2>3, <2>4 DEF FeatureInv
  <2>6. QED
    BY <2>3, <2>5 DEF States
<1>2. QED
  BY <1>1, Invariance, PTL

(* The validator of conflicting bits is strong enough: a signalled bit is  *)
(* a vote for at most one feature.                                         *)
THEOREM OneFeaturePerVote == Spec => []VotesAreUnambiguous
<1>1. IInv => VotesAreUnambiguous
  <2> SUFFICES ASSUME IInv, NEW f \in Features, NEW g \in Features, f # g,
                      criteria[f].bit = criteria[g].bit,
                      state[f] \in Voting, state[g] \in Voting
               PROVE  FALSE
    BY DEF VotesAreUnambiguous
  <2>1. /\ criteria[f] \in Criteria /\ criteria[g] \in Criteria
        /\ criteria[f].timeout >= criteria[f].start + 2
        /\ criteria[g].timeout >= criteria[g].start + 2
    BY CriteriaAreValid DEF IInv, TypeOK
  <2>2. /\ criteria[f].start \in Nat /\ criteria[f].timeout \in Nat
        /\ criteria[g].start \in Nat /\ criteria[g].timeout \in Nat
    BY <2>1 DEF Criteria
  <2>3. epoch \in Nat
    BY DEF IInv, TypeOK
  <2>4. /\ FeatureInv(criteria[f], state[f], epoch, offset, counts)
        /\ FeatureInv(criteria[g], state[g], epoch, offset, counts)
    BY DEF IInv
  <2>5. /\ epoch >= criteria[f].start /\ epoch <= criteria[f].timeout
        /\ epoch >= criteria[g].start /\ epoch <= criteria[g].timeout
    BY <2>2, <2>3, <2>4 DEF FeatureInv, Voting
  <2>6. \/ criteria[f].start > criteria[g].timeout
        \/ criteria[g].start > criteria[f].timeout
    BY FeatureAssumption DEF IInv, TypeOK, ValidatedSettings, NoConflictingBits
  <2>7. QED
    BY <2>2, <2>3, <2>5, <2>6
<1>2. QED
  BY <1>1, Invariance, PTL

(* Mandatory signalling never makes every possible next block invalid.     *)
THEOREM ChainIsNeverStuck == Spec => []ChainCanGrow
<1>1. IInv => ChainCanGrow
  <2> SUFFICES ASSUME IInv, NEW f \in Features, NextState[f] = "MUST_SIGNAL"
               PROVE  criteria[f].threshold - NextCounts(Bits)[criteria[f].bit]
                         <= Interval - NextOffset - 1
    BY DEF ChainCanGrow, Accepted, IsSignaling
  <2> DEFINE bit == criteria[f].bit
             threshold == criteria[f].threshold
  <2>1. bit \in Bits /\ threshold \in 0 .. Interval
    BY CriteriaAreValid DEF IInv, TypeOK
  <2>2. offset \in 0 .. Interval - 1 /\ counts[bit] \in 0 .. offset + 1
    BY <2>1 DEF IInv, TypeOK
  <2>3. NextCounts(Bits)[bit] = (IF NextIsBoundary THEN 0 ELSE counts[bit]) + 1
    BY <2>1 DEF NextCounts, BitCounts
  <2>4. CASE NextIsBoundary
    BY <2>1, <2>2, <2>3, <2>4, FeatureAssumption DEF NextOffset
  <2>5. CASE ~NextIsBoundary
    <3>1. state[f] = "MUST_SIGNAL"
      BY <2>5 DEF NextState
    <3>2. threshold - counts[bit] <= Interval - offset - 1
      BY <3>1 DEF IInv, FeatureInv
    <3>3. NextOffset = offset + 1
      BY <2>5 DEF NextOffset
    <3>4. QED
      BY <2>1, <2>2, <2>3, <2>5, <3>2, <3>3, FeatureAssumption
  <2>6. QED
    BY <2>4, <2>5
<1>2. QED
  BY <1>1, Invariance, PTL

(* Every lock-in was earned by the signals of one whole interval.          *)
THEOREM LockInNeedsVotes == Spec => LockInIsEarned
<1>1. IInv /\ [Next]_vars =>
        [\A f \in Features :
            (state[f] # "LOCKED_IN" /\ state'[f] = "LOCKED_IN")
                => counts[criteria[f].bit] >= criteria[f].threshold]_vars
  <2> SUFFICES ASSUME IInv, Next, NEW f \in Features,
                      state[f] # "LOCKED_IN", state'[f] = "LOCKED_IN"
               PROVE  counts[criteria[f].bit] >= criteria[f].threshold
    BY DEF vars
  <2>1. state' = NextState
    BY DEF Next, AddBlock
  <2>2. /\ criteria[f] \in Criteria /\ criteria[f].bit \in Bits
        /\ criteria[f].threshold \in 0 .. Interval
    BY CriteriaAreValid DEF IInv, TypeOK
  <2>3. NextIsBoundary /\ NewState(criteria[f], state[f], epoch + 1, counts) = "LOCKED_IN"
    BY <2>1 DEF NextState
  <2>4. /\ offset \in 0 .. Interval - 1 /\ counts[criteria[f].bit] \in 0 .. offset + 1
        /\ state[f] \in States
    BY <2>2 DEF IInv, TypeOK
  <2>5. state[f] \in {"STARTED", "MUST_SIGNAL"}
    BY <2>3, <2>4 DEF NewState, FromStarted, FromLockedIn, States
  <2>6. CASE state[f] = "STARTED"
    BY <2>3, <2>6 DEF NewState, FromStarted
  <2>7. CASE state[f] = "MUST_SIGNAL"
    <3>1. criteria[f].threshold - counts[criteria[f].bit] <= Interval - offset - 1
      BY <2>7 DEF IInv, FeatureInv
    <3>2. QED
      BY <2>2, <2>3, <2>4, <3>1, FeatureAssumption DEF NextIsBoundary
  <2>8. QED
    BY <2>5, <2>6, <2>7
<1>2. QED
  BY <1>1, Invariance, PTL DEF Spec, LockInIsEarned

-----------------------------------------------------------------------------
(* The wallet.                                                             *)

(* Sets of numbers have a least element: the proofs about the whole queue  *)
(* go by a least counterexample.                                           *)
LEMMA Least ==
  ASSUME NEW S, S \subseteq Nat, S # {}
  PROVE  \E x \in S : \A y \in S : x <= y
<1>1. PICK x \in S : \A y \in S : ~ (<<y, x>> \in OpToRel(<, Nat))
  BY WFMin, NatLessThanWellFounded
<1>2. ASSUME NEW y \in S PROVE x <= y
  <2>1. x \in Nat /\ y \in Nat
    OBVIOUS
  <2>2. ~ (<<y, x>> \in {ss \in Nat \X Nat : ss[1] < ss[2]})
    BY <1>1 DEF OpToRel
  <2> QED BY <2>1, <2>2
<1> QED BY <1>2

Txs == DOMAIN Inputs
Books == UNION {[O -> SUBSET Txs] : O \in SUBSET Mine}
Wallets == [unspent : SUBSET Mine, maybe : SUBSET Mine, spent : Books]

(* What is known of an output in the wallet w.                             *)
Takes(w, o) == o \in Wallet!Available(w)
By(w, o) == Wallet!SpendersOf(w, o)

(* The wallet w has caught up with a ledger whose executed transactions    *)
(* are E, but for the transactions P, whose events are still to be         *)
(* handled: of the others exactly the executed ones are recorded as        *)
(* spenders, and their outputs are there to be taken when they are         *)
(* executed and nobody is recorded to spend them.  Of all outputs, those   *)
(* to be taken have no recorded spender.                                   *)
Settled(w, P, E) ==
    /\ w \in Wallets /\ w.unspent \cap w.maybe = {}
    /\ \A o \in Mine : Takes(w, o) => By(w, o) = {}
    /\ \A o \in Mine : \A t \in By(w, o) : o \in Inputs[t]
    /\ \A t \in Txs \ P : \A o \in Inputs[t] \cap Mine : t \in By(w, o) <=> t \in E
    /\ \A o \in Mine \ P : o \in E => (Takes(w, o) <=> By(w, o) = {})
    /\ \A o \in Mine \ P : o \notin E => ~Takes(w, o) /\ By(w, o) = {}

Pending == {queue[i] : i \in DOMAIN queue}

WalletInv ==
    /\ stored \subseteq Txs /\ executed \subseteq stored
    /\ \A t \in executed : Inputs[t] \subseteq executed
    /\ queue \in Seq(Txs) /\ raised \in BOOLEAN
    /\ ~raised => Settled(wallet, Pending, executed)

LEMMA WalletFields ==
  ASSUME NEW w \in Wallets
  PROVE  /\ w.unspent \subseteq Mine /\ w.maybe \subseteq Mine
         /\ DOMAIN w.spent \subseteq Mine
         /\ \A o \in DOMAIN w.spent : w.spent[o] \subseteq Txs
         /\ \A o : By(w, o) \subseteq Txs
         /\ \A o : By(w, o) # {} => o \in DOMAIN w.spent /\ By(w, o) = w.spent[o]
         /\ \A o : Takes(w, o) <=> o \in w.unspent \/ o \in w.maybe
<1>1. w.unspent \subseteq Mine /\ w.maybe \subseteq Mine /\ w.spent \in Books
  BY DEF Wallets
<1>2. PICK O \in SUBSET Mine : w.spent \in [O -> SUBSET Txs]
  BY <1>1 DEF Books
<1>3. DOMAIN w.spent = O /\ \A o \in O : w.spent[o] \subseteq Txs
  BY <1>2
<1>4. \A o : By(w, o) = IF o \in DOMAIN w.spent THEN w.spent[o] ELSE {}
  BY DEF By, Wallet!SpendersOf
<1>5. \A o : Takes(w, o) <=> o \in w.unspent \/ o \in w.maybe
  BY DEF Takes, Wallet!Available
<1> QED BY <1>1, <1>2, <1>3, <1>4, <1>5

(* A wallet put together from its parts.                                   *)
Made(u, m, f) == [unspent |-> u, maybe |-> m, spent |-> f]
IsMade(v, u, m, O, f) ==
    /\ v \in Wallets /\ v.unspent = u /\ v.maybe = m
    /\ \A o : By(v, o) = IF o \in O THEN f[o] ELSE {}
LEMMA MakeWallet ==
  ASSUME NEW u \in SUBSET Mine, NEW m \in SUBSET Mine, NEW O \in SUBSET Mine,
         NEW f \in [O -> SUBSET Txs]
  PROVE  IsMade(Made(u, m, f), u, m, O, f)
<1>1. f \in Books
  BY DEF Books
<1>2. PICK v : v = Made(u, m, f)
  OBVIOUS
<1>3. v.unspent = u /\ v.maybe = m /\ v.spent = f /\ DOMAIN f = O
  BY <1>2 DEF Made
<1>4. v \in Wallets
  BY <1>1, <1>2 DEF Wallets, Made
<1>5. \A o : By(v, o) = IF o \in O THEN f[o] ELSE {}
  BY <1>3 DEF By, Wallet!SpendersOf
<1>6. IsMade(v, u, m, O, f)
  BY <1>3, <1>4, <1>5 DEF IsMade
<1> QED BY <1>2, <1>6

(* The outputs O become spent by t.                                        *)
IsSpent(v, w, O, t) ==
    /\ v \in Wallets /\ v.unspent = w.unspent \ O /\ v.maybe = w.maybe \ O
    /\ \A o : By(v, o) = IF o \in O THEN By(w, o) \cup {t} ELSE By(w, o)
LEMMA SpendFact ==
  ASSUME NEW w \in Wallets, NEW O \in SUBSET Mine, NEW t \in Txs
  PROVE  IsSpent(Wallet!Spend(w, O, t), w, O, t)
<1> DEFINE D == DOMAIN w.spent \cup O
           f == [o \in D |-> IF o \in O THEN By(w, o) \cup {t} ELSE w.spent[o]]
<1>1. D \in SUBSET Mine /\ w.unspent \ O \in SUBSET Mine /\ w.maybe \ O \in SUBSET Mine
  BY WalletFields
<1>2. f \in [D -> SUBSET Txs]
  BY WalletFields
<1>3. Wallet!Spend(w, O, t) = [unspent |-> w.unspent \ O, maybe |-> w.maybe \ O, spent |-> f]
  BY DEF Wallet!Spend, By
<1>4. \A o : (IF o \in D THEN f[o] ELSE {}) = IF o \in O THEN By(w, o) \cup {t} ELSE By(w, o)
  <2>1. \A o : By(w, o) = IF o \in DOMAIN w.spent THEN w.spent[o] ELSE {}
    BY DEF By, Wallet!SpendersOf
  <2> QED BY <2>1
<1> HIDE DEF f, D
<1>5. PICK u \in SUBSET Mine, m \in SUBSET Mine : u = w.unspent \ O /\ m = w.maybe \ O
  BY <1>1
<1>6. IsMade(Made(u, m, f), u, m, D, f)
  BY <1>1, <1>2, MakeWallet
<1>7. PICK v : v = Wallet!Spend(w, O, t)
  OBVIOUS
<1>8. v = Made(u, m, f)
  BY <1>3, <1>5, <1>7 DEF Made
<1>9. IsMade(v, u, m, D, f)
  BY <1>6, <1>8
<1>10. IsSpent(v, w, O, t)
  BY <1>4, <1>5, <1>9 DEF IsMade, IsSpent
<1> QED BY <1>7, <1>10

(* A copy of w with other sets of outputs to be taken.                     *)
With(w, u, m) == [w EXCEPT !.unspent = u, !.maybe = m]
LEMMA OutputsFact ==
  ASSUME NEW w \in Wallets, NEW u \in SUBSET Mine, NEW m \in SUBSET Mine
  PROVE  /\ With(w, u, m) \in Wallets
         /\ With(w, u, m).unspent = u /\ With(w, u, m).maybe = m
         /\ \A o : By(With(w, u, m), o) = By(w, o)
<1>1. PICK v : v = With(w, u, m)
  OBVIOUS
<1>2. v \in Wallets /\ v.unspent = u /\ v.maybe = m /\ v.spent = w.spent
  BY <1>1 DEF Wallets, With
<1> QED BY <1>1, <1>2 DEF By, Wallet!SpendersOf

(* The output of t becomes one to be taken.                                *)
LEMMA AddOutputFact ==
  ASSUME NEW w \in Wallets, NEW t \in Mine, NEW y, y = [w EXCEPT !.unspent = @ \cup {t}]
  PROVE  /\ y \in Wallets /\ y.maybe = w.maybe /\ y.unspent = w.unspent \cup {t}
         /\ \A o : By(y, o) = By(w, o)
<1>1. PICK u \in SUBSET Mine, m \in SUBSET Mine : u = w.unspent \cup {t} /\ m = w.maybe
  BY WalletFields
<1>2. y = With(w, u, m)
  BY <1>1 DEF With, Wallets
<1>3. /\ With(w, u, m) \in Wallets
      /\ With(w, u, m).unspent = u /\ With(w, u, m).maybe = m
      /\ \A o : By(With(w, u, m), o) = By(w, o)
  BY OutputsFact
<1> QED BY <1>1, <1>2, <1>3

(* The output of a voided transaction leaves the wallet.                   *)
LEMMA VoidedOutputFact ==
  ASSUME NEW w \in Wallets, NEW t, NEW v, v = Wallet!VoidedOutput(w, t)
  PROVE  /\ v \in Wallets
         /\ t \in Mine => v.unspent = w.unspent \ {t} /\ v.maybe = w.maybe \ {t}
         /\ t \notin Mine => v = w
         /\ \A o : By(v, o) = IF o = t /\ t \in Mine /\ ~Takes(w, t) THEN {} ELSE By(w, o)
<1>0. w.unspent \ {t} \in SUBSET Mine /\ w.maybe \ {t} \in SUBSET Mine
  BY WalletFields
<1>1. CASE t \notin Mine
  BY <1>1 DEF Wallet!VoidedOutput
<1>2. CASE t \in Mine /\ Takes(w, t)
  <2>1. v = [w EXCEPT !.unspent = w.unspent \ {t}, !.maybe = w.maybe \ {t}]
    BY <1>2 DEF Wallet!VoidedOutput, Takes
  <2>2. PICK u \in SUBSET Mine, m \in SUBSET Mine :
                u = w.unspent \ {t} /\ m = w.maybe \ {t}
    BY <1>0
  <2>3. v = With(w, u, m)
    BY <2>1, <2>2 DEF With
  <2>4. /\ With(w, u, m) \in Wallets
        /\ With(w, u, m).unspent = u /\ With(w, u, m).maybe = m
        /\ \A o : By(With(w, u, m), o) = By(w, o)
    BY OutputsFact
  <2> QED BY <1>2, <2>2, <2>3, <2>4
<1>3. CASE t \in Mine /\ ~Takes(w, t)
  <2> DEFINE D == DOMAIN w.spent \ {t}
             f == [o \in D |-> w.spent[o]]
  <2>1. D \in SUBSET Mine /\ f \in [D -> SUBSET Txs] /\ t \notin w.unspent /\ t \notin w.maybe
    BY <1>3, WalletFields
  <2>2. v = [w EXCEPT !.spent = f]
    BY <1>3 DEF Wallet!VoidedOutput, Takes
  <2>3. \A o : (IF o \in D THEN f[o] ELSE {}) = IF o = t THEN {} ELSE By(w, o)
    BY DEF By, Wallet!SpendersOf
  <2> HIDE DEF f, D
  <2>4. PICK u \in SUBSET Mine, m \in SUBSET Mine : u = w.unspent /\ m = w.maybe
    BY WalletFields
  <2>5. v = Made(u, m, f)
    BY <2>2, <2>4 DEF Wallets, Made
  <2>6. IsMade(v, u, m, D, f)
    BY <2>1, <2>5, MakeWallet
  <2>7. u = w.unspent \ {t} /\ m = w.maybe \ {t}
    BY <2>1, <2>4
  <2> QED BY <1>3, <2>3, <2>6, <2>7 DEF IsMade
<1> QED BY <1>1, <1>2, <1>3

(* The spends of a voided transaction are undone.                          *)
LEMMA VoidedInputsFact ==
  ASSUME NEW w \in Wallets, NEW t \in Txs, Wallet!Found(t) = Inputs[t], NEW v,
         v = Wallet!VoidedInputs(w, t)
  PROVE  /\ v \in Wallets /\ v.maybe = w.maybe
         /\ v.unspent = w.unspent \cup {o \in Inputs[t] \cap Mine : By(w, o) = {t}}
         /\ \A o : By(v, o) = IF o \in Inputs[t] \cap Mine THEN By(w, o) \ {t} ELSE By(w, o)
<1> DEFINE undone == {o \in Inputs[t] \cap Mine : t \in By(w, o)}
           D == DOMAIN w.spent
           u == w.unspent \cup {o \in undone : w.spent[o] = {t}}
           f == [o \in D |-> IF o \in undone THEN w.spent[o] \ {t} ELSE w.spent[o]]
<1>1. v = [w EXCEPT !.unspent = u, !.spent = f]
  BY DEF Wallet!VoidedInputs, By
<1>2. D \in SUBSET Mine /\ f \in [D -> SUBSET Txs] /\ u \in SUBSET Mine /\ w.maybe \in SUBSET Mine
  BY WalletFields
<1>3. \A o : By(w, o) = IF o \in D THEN w.spent[o] ELSE {}
  BY DEF By, Wallet!SpendersOf
<1>4. \A o : (IF o \in D THEN f[o] ELSE {}) =
                IF o \in Inputs[t] \cap Mine THEN By(w, o) \ {t} ELSE By(w, o)
  BY <1>3
<1>5. u = w.unspent \cup {o \in Inputs[t] \cap Mine : By(w, o) = {t}}
  <2>1. \A o \in undone : By(w, o) = w.spent[o]
    BY <1>3
  <2>2. \A o : By(w, o) = {t} => t \in By(w, o)
    OBVIOUS
  <2> QED BY <2>1, <2>2
<1> HIDE DEF u, f, D, undone
<1>6. PICK m \in SUBSET Mine : m = w.maybe
  BY <1>2
<1>7. v = Made(u, m, f)
  BY <1>1, <1>6 DEF Wallets, Made
<1>8. IsMade(v, u, m, D, f)
  BY <1>2, <1>7, MakeWallet
<1> QED BY <1>4, <1>5, <1>6, <1>8 DEF IsMade

-----------------------------------------------------------------------------
(* Handling the event of t settles t.                                      *)

(* on_tx_voided.                                                           *)
LEMMA VoidedSettles ==
  ASSUME Wallet!WalletAssumption, \A x \in executed : Inputs[x] \subseteq executed,
         NEW w, NEW P, Settled(w, P, executed), NEW t \in Txs, t \notin executed,
         Wallet!Found(t) = Inputs[t]
  PROVE  Settled(Wallet!OnTxVoided(w, t), P \ {t}, executed)
<1>1. PICK y : y = Wallet!VoidedOutput(w, t)
  OBVIOUS
<1>2. PICK v : v = Wallet!VoidedInputs(y, t)
  OBVIOUS
<1>3. v = Wallet!OnTxVoided(w, t)
  BY <1>1, <1>2 DEF Wallet!OnTxVoided
<1>4. w \in Wallets
  BY DEF Settled
<1>5. /\ y \in Wallets
      /\ \A o : By(y, o) = IF o = t /\ t \in Mine /\ ~Takes(w, t) THEN {} ELSE By(w, o)
      /\ t \in Mine => y.unspent = w.unspent \ {t} /\ y.maybe = w.maybe \ {t}
      /\ t \notin Mine => y = w
  BY <1>1, <1>4, VoidedOutputFact
<1>6. /\ v \in Wallets /\ v.maybe = y.maybe
      /\ v.unspent = y.unspent \cup {o \in Inputs[t] \cap Mine : By(y, o) = {t}}
      /\ \A o : By(v, o) = IF o \in Inputs[t] \cap Mine THEN By(y, o) \ {t} ELSE By(y, o)
  BY <1>2, <1>5, VoidedInputsFact
<1>7. t \notin Inputs[t]
  BY DEF Wallet!WalletAssumption, Wallet!Txs, Txs
<1>8. /\ \A o : Takes(w, o) <=> o \in w.unspent \/ o \in w.maybe
      /\ \A o : Takes(v, o) <=> o \in v.unspent \/ o \in v.maybe
      /\ w.unspent \subseteq Mine /\ w.maybe \subseteq Mine
  BY <1>4, <1>6, WalletFields
<1>9. \A o \in Mine : Takes(v, o) <=> \/ Takes(w, o) /\ o # t
                                      \/ o \in Inputs[t] /\ By(w, o) = {t}
  BY <1>5, <1>6, <1>7, <1>8
<1>10. \A o \in Mine : By(v, o) = IF o = t /\ ~Takes(w, t) THEN {}
                                  ELSE IF o \in Inputs[t] THEN By(w, o) \ {t} ELSE By(w, o)
  BY <1>5, <1>6, <1>7
<1>11. /\ w.unspent \cap w.maybe = {}
       /\ \A o \in Mine : Takes(w, o) => By(w, o) = {}
       /\ \A o \in Mine : \A x \in By(w, o) : o \in Inputs[x]
       /\ \A x \in Txs \ P : \A o \in Inputs[x] \cap Mine : x \in By(w, o) <=> x \in executed
       /\ \A o \in Mine \ P : o \in executed => (Takes(w, o) <=> By(w, o) = {})
       /\ \A o \in Mine \ P : o \notin executed => ~Takes(w, o) /\ By(w, o) = {}
  BY DEF Settled
<1>12. v.unspent \cap v.maybe = {}
  BY <1>5, <1>6, <1>7, <1>8, <1>11
<1>13. \A o \in Mine : Takes(v, o) => By(v, o) = {}
  BY <1>9, <1>10, <1>11
<1>14. \A o \in Mine : \A x \in By(v, o) : o \in Inputs[x]
  BY <1>10, <1>11
<1>15. ASSUME NEW x \in Txs \ (P \ {t}), NEW o \in Inputs[x] \cap Mine
       PROVE  x \in By(v, o) <=> x \in executed
  BY <1>10, <1>11
<1>16. ASSUME NEW o \in Mine \ (P \ {t}), o \in executed
       PROVE  Takes(v, o) <=> By(v, o) = {}
  BY <1>9, <1>10, <1>11, <1>16
<1>17. ASSUME NEW o \in Mine \ (P \ {t}), o \notin executed
       PROVE  ~Takes(v, o) /\ By(v, o) = {}
  BY <1>7, <1>9, <1>10, <1>11, <1>17
<1> QED BY <1>3, <1>6, <1>12, <1>13, <1>14, <1>15, <1>16, <1>17 DEF Settled

(* on_tx_winner.                                                           *)
LEMMA WinnerSettles ==
  ASSUME Wallet!WalletAssumption, \A x \in executed : Inputs[x] \subseteq executed,
         NEW w, NEW P, Settled(w, P, executed), NEW t \in Txs, t \in executed
  PROVE  Settled(Wallet!OnTxWinner(w, t), P \ {t}, executed)
<1>0. PICK I \in SUBSET Mine : I = Inputs[t] \cap Mine
  OBVIOUS
<1>1. PICK y : y = Wallet!WinnerOutput(w, t)
  OBVIOUS
<1>2. PICK v : v = Wallet!Spend(y, I, t)
  OBVIOUS
<1>3. v = Wallet!OnTxWinner(w, t)
  BY <1>0, <1>1, <1>2 DEF Wallet!OnTxWinner
<1>4. /\ w \in Wallets /\ w.unspent \cap w.maybe = {}
      /\ \A o \in Mine : Takes(w, o) => By(w, o) = {}
      /\ \A o \in Mine : \A x \in By(w, o) : o \in Inputs[x]
      /\ \A x \in Txs \ P : \A o \in Inputs[x] \cap Mine : x \in By(w, o) <=> x \in executed
      /\ \A o \in Mine \ P : o \in executed => (Takes(w, o) <=> By(w, o) = {})
      /\ \A o \in Mine \ P : o \notin executed => ~Takes(w, o) /\ By(w, o) = {}
  BY DEF Settled
<1>5. /\ y \in Wallets /\ y.maybe = w.maybe
      /\ y.unspent = w.unspent
           \/ (/\ t \in Mine /\ ~Takes(w, t) /\ By(w, t) = {}
               /\ y.unspent = w.unspent \cup {t})
      /\ t \in Mine /\ ~Takes(w, t) /\ By(w, t) = {} => t \in y.unspent
      /\ \A o : By(y, o) = By(w, o)
  <2>1. CASE t \in Mine /\ ~Takes(w, t) /\ By(w, t) = {}
    <3>1. y = [w EXCEPT !.unspent = @ \cup {t}]
      BY <1>1, <2>1 DEF Wallet!WinnerOutput, Takes, By
    <3>2. /\ y \in Wallets /\ y.maybe = w.maybe /\ y.unspent = w.unspent \cup {t}
          /\ \A o : By(y, o) = By(w, o)
      BY <1>4, <2>1, <3>1, AddOutputFact
    <3> QED BY <2>1, <3>2
  <2>2. CASE ~(t \in Mine /\ ~Takes(w, t) /\ By(w, t) = {})
    <3>1. y = w
      BY <1>1, <2>2 DEF Wallet!WinnerOutput, Takes, By
    <3> QED BY <1>4, <2>2, <3>1
  <2> QED BY <2>1, <2>2
<1>6. /\ v \in Wallets /\ v.maybe = y.maybe \ I /\ v.unspent = y.unspent \ I
      /\ \A o : By(v, o) = IF o \in I THEN By(y, o) \cup {t} ELSE By(y, o)
  <2>1. y \in Wallets
    BY <1>5
  <2>2. IsSpent(v, y, I, t)
    BY <1>2, <2>1, SpendFact
  <2> QED BY <2>2 DEF IsSpent
<1>7. t \notin Inputs[t] /\ Inputs[t] \subseteq executed
  BY DEF Wallet!WalletAssumption, Wallet!Txs, Txs
<1>8. /\ \A o : Takes(w, o) <=> o \in w.unspent \/ o \in w.maybe
      /\ \A o : Takes(v, o) <=> o \in v.unspent \/ o \in v.maybe
      /\ w.unspent \subseteq Mine /\ w.maybe \subseteq Mine
  BY <1>4, <1>6, WalletFields
<1>9. \A o \in Mine : Takes(v, o) <=> /\ o \notin Inputs[t]
                                      /\ Takes(w, o) \/ (o = t /\ By(w, t) = {})
  BY <1>0, <1>5, <1>6, <1>8
<1>10. \A o \in Mine : By(v, o) = IF o \in Inputs[t] THEN By(w, o) \cup {t} ELSE By(w, o)
  BY <1>0, <1>5, <1>6
<1>11. v.unspent \cap v.maybe = {}
  BY <1>4, <1>5, <1>6, <1>8
<1>12. \A o \in Mine : Takes(v, o) => By(v, o) = {}
  BY <1>4, <1>9, <1>10
<1>13. \A o \in Mine : \A x \in By(v, o) : o \in Inputs[x]
  BY <1>4, <1>10
<1>14. ASSUME NEW x \in Txs \ (P \ {t}), NEW o \in Inputs[x] \cap Mine
       PROVE  x \in By(v, o) <=> x \in executed
  BY <1>4, <1>10
<1>15. ASSUME NEW o \in Mine \ (P \ {t}), o \in executed
       PROVE  Takes(v, o) <=> By(v, o) = {}
  <2>1. CASE o \in Inputs[t]
    BY <1>9, <1>10, <2>1
  <2>2. CASE o \notin Inputs[t]
    BY <1>4, <1>9, <1>10, <1>15, <2>2
  <2> QED BY <2>1, <2>2
<1>16. ASSUME NEW o \in Mine \ (P \ {t}), o \notin executed
       PROVE  ~Takes(v, o) /\ By(v, o) = {}
  BY <1>4, <1>7, <1>9, <1>10, <1>16
<1> QED BY <1>3, <1>6, <1>11, <1>12, <1>13, <1>14, <1>15, <1>16 DEF Settled

(* on_new_tx of an executed transaction that was not in the storage: its   *)
(* event is among those that wait afterwards.                              *)
LEMMA NewTxSettles ==
  ASSUME Wallet!WalletAssumption, NEW w, NEW P, Settled(w, P, executed), NEW t \in Txs,
         t \notin P, t \notin executed, Inputs[t] \ P \subseteq executed
  PROVE  Settled(Wallet!OnNewTx(w, t), P \cup {t}, executed)
<1>1. PICK y : y = Wallet!NewOutput(w, t)
  OBVIOUS
<1>0. PICK I \in SUBSET Mine :
            I = {o \in Inputs[t] \cap Mine : o \in Wallet!Available(y) \cup DOMAIN y.spent}
  OBVIOUS
<1>2. PICK v : v = Wallet!Spend(y, I, t)
  OBVIOUS
<1>3. v = Wallet!OnNewTx(w, t)
  BY <1>0, <1>1, <1>2 DEF Wallet!OnNewTx, Wallet!NewInputs
<1>4. /\ w \in Wallets /\ w.unspent \cap w.maybe = {}
      /\ \A o \in Mine : Takes(w, o) => By(w, o) = {}
      /\ \A o \in Mine : \A x \in By(w, o) : o \in Inputs[x]
      /\ \A x \in Txs \ P : \A o \in Inputs[x] \cap Mine : x \in By(w, o) <=> x \in executed
      /\ \A o \in Mine \ P : o \in executed => (Takes(w, o) <=> By(w, o) = {})
      /\ \A o \in Mine \ P : o \notin executed => ~Takes(w, o) /\ By(w, o) = {}
  BY DEF Settled
<1>5. /\ y \in Wallets /\ y.maybe = w.maybe
      /\ y.unspent = IF t \in Mine THEN w.unspent \cup {t} ELSE w.unspent
      /\ \A o : By(y, o) = By(w, o)
  <2>1. CASE t \in Mine
    <3>1. y = [w EXCEPT !.unspent = @ \cup {t}]
      BY <1>1, <2>1 DEF Wallet!NewOutput
    <3>2. /\ y \in Wallets /\ y.maybe = w.maybe /\ y.unspent = w.unspent \cup {t}
          /\ \A o : By(y, o) = By(w, o)
      BY <1>4, <2>1, <3>1, AddOutputFact
    <3> QED BY <2>1, <3>2
  <2>2. CASE t \notin Mine
    <3>1. y = w
      BY <1>1, <2>2 DEF Wallet!NewOutput
    <3> QED BY <1>4, <2>2, <3>1
  <2> QED BY <2>1, <2>2
<1>6. \A o \in Inputs[t] \cap Mine : Takes(y, o) \/ By(y, o) # {} => o \in I
  BY <1>0, <1>5, WalletFields DEF Takes
<1>7. I \subseteq Inputs[t] \cap Mine
  BY <1>0
<1>8. /\ v \in Wallets /\ v.maybe = y.maybe \ I /\ v.unspent = y.unspent \ I
      /\ \A o : By(v, o) = IF o \in I THEN By(y, o) \cup {t} ELSE By(y, o)
  <2>1. y \in Wallets
    BY <1>5
  <2>2. IsSpent(v, y, I, t)
    BY <1>2, <2>1, SpendFact
  <2> QED BY <2>2 DEF IsSpent
<1>9. t \notin Inputs[t]
  BY DEF Wallet!WalletAssumption, Wallet!Txs, Txs
<1>10. /\ \A o : Takes(w, o) <=> o \in w.unspent \/ o \in w.maybe
       /\ \A o : Takes(y, o) <=> o \in y.unspent \/ o \in y.maybe
       /\ \A o : Takes(v, o) <=> o \in v.unspent \/ o \in v.maybe
  BY <1>4, <1>5, <1>8, WalletFields
<1>11. \A o \in Mine : Takes(v, o) <=> o \notin I /\ (Takes(w, o) \/ o = t)
  BY <1>5, <1>8, <1>10
<1>12. \A o : By(v, o) = IF o \in I THEN By(w, o) \cup {t} ELSE By(w, o)
  BY <1>5, <1>8
<1>13. v.unspent \cap v.maybe = {}
  <2>1. t \in Mine => t \notin w.maybe
    BY <1>4, <1>10
  <2> QED BY <1>4, <1>5, <1>8, <2>1
<1>14. \A o \in Mine : Takes(v, o) => By(v, o) = {}
  BY <1>4, <1>11, <1>12
<1>15. \A o \in Mine : \A x \in By(v, o) : o \in Inputs[x]
  BY <1>4, <1>7, <1>12
<1>16. ASSUME NEW x \in Txs \ (P \cup {t}), NEW o \in Inputs[x] \cap Mine
       PROVE  x \in By(v, o) <=> x \in executed
  BY <1>4, <1>12
<1>17. ASSUME NEW o \in Mine \ (P \cup {t}), o \in executed
       PROVE  Takes(v, o) <=> By(v, o) = {}
  <2>1. Takes(w, o) <=> By(w, o) = {}
    BY <1>4, <1>17
  <2> QED BY <1>11, <1>12, <2>1
<1>18. ASSUME NEW o \in Mine \ (P \cup {t}), o \notin executed
       PROVE  ~Takes(v, o) /\ By(v, o) = {}
  <2>1. ~Takes(w, o) /\ By(w, o) = {}
    BY <1>4, <1>18
  <2>2. o \notin I
    BY <1>7, <1>18
  <2> QED BY <1>11, <1>12, <2>1, <2>2
<1> QED BY <1>3, <1>8, <1>13, <1>14, <1>15, <1>16, <1>17, <1>18 DEF Settled

(* on_tx_update, which looks at the metadata of the moment.                *)
LEMMA UpdateSettles ==
  ASSUME Wallet!WalletAssumption, \A x \in executed : Inputs[x] \subseteq executed,
         NEW w, NEW P, Settled(w, P, executed), NEW t \in Txs,
         t \in executed \/ Wallet!Found(t) = Inputs[t]
  PROVE  Settled(Wallet!OnTxUpdate(w, t), P \ {t}, executed)
<1>1. CASE t \in executed
  <2>1. Settled(Wallet!OnTxWinner(w, t), P \ {t}, executed)
    BY <1>1, WinnerSettles
  <2> QED BY <1>1, <2>1 DEF Wallet!OnTxUpdate
<1>2. CASE t \notin executed
  <2>1. Settled(Wallet!OnTxVoided(w, t), P \ {t}, executed)
    BY <1>2, VoidedSettles
  <2> QED BY <1>2, <2>1 DEF Wallet!OnTxUpdate
<1> QED BY <1>1, <1>2

(* More transactions to come, and another ledger that differs from the     *)
(* first in those transactions only, leave the wallet settled.             *)
LEMMA SettledTransfer ==
  ASSUME NEW w, NEW P, NEW E, Settled(w, P, E), NEW Q, NEW F, P \subseteq Q,
         \A x : x \notin Q => (x \in E <=> x \in F)
  PROVE  Settled(w, Q, F)
<1>1. /\ w \in Wallets /\ w.unspent \cap w.maybe = {}
      /\ \A o \in Mine : Takes(w, o) => By(w, o) = {}
      /\ \A o \in Mine : \A t \in By(w, o) : o \in Inputs[t]
  BY DEF Settled
<1>2. \A t \in Txs \ Q : \A o \in Inputs[t] \cap Mine : t \in By(w, o) <=> t \in F
  BY DEF Settled
<1>3. ASSUME NEW o \in Mine \ Q
      PROVE  /\ o \in F => (Takes(w, o) <=> By(w, o) = {})
             /\ o \notin F => ~Takes(w, o) /\ By(w, o) = {}
  BY DEF Settled
<1> QED BY <1>1, <1>2, <1>3 DEF Settled

-----------------------------------------------------------------------------
(* PubSubManager handles the events one after the other.                   *)

IsHandling(f, n) ==
    f = [i \in 0 .. n |-> IF i = 0 THEN wallet ELSE Wallet!OnTxUpdate(f[i - 1], queue[i])]

LEMMA HandlingExists ==
  ASSUME NEW n \in Nat
  PROVE  \E f : IsHandling(f, n)
<1> DEFINE S == {i \in Nat : ~ \E f : IsHandling(f, i)}
<1>1. SUFFICES ASSUME S # {} PROVE FALSE
  OBVIOUS
<1>2. PICK i \in S : \A j \in S : i <= j
  BY <1>1, Least
<1>3. i \in Nat /\ ~ \E f : IsHandling(f, i)
  OBVIOUS
<1>4. CASE i = 0
  <2>1. IsHandling([k \in 0 .. 0 |-> wallet], 0)
    BY DEF IsHandling
  <2> QED BY <1>3, <1>4, <2>1
<1>5. CASE i # 0
  <2>1. i - 1 \in Nat /\ i - 1 \notin S
    BY <1>2, <1>3, <1>5
  <2>2. PICK f : IsHandling(f, i - 1)
    BY <2>1
  <2> DEFINE R(g, k) == IF k = 0 THEN wallet ELSE Wallet!OnTxUpdate(g[k - 1], queue[k])
             h == [k \in 0 .. i |-> IF k = i THEN R(f, i) ELSE f[k]]
  <2>3. \A k \in 0 .. i - 1 : f[k] = R(f, k)
    BY <1>3, <1>5, <2>2 DEF IsHandling
  <2>4. \A k \in 0 .. i : R(h, k) = R(f, k)
    <3>1. \A k \in 0 .. i : k # 0 => k - 1 \in 0 .. i /\ k - 1 # i
      BY <1>3, <1>5
    <3>2. \A k \in 0 .. i : k # 0 => h[k - 1] = f[k - 1]
      BY <3>1
    <3> HIDE DEF h
    <3> QED BY <3>2
  <2>5. \A k \in 0 .. i : h[k] = R(h, k)
    <3>1. \A k \in 0 .. i : k # i => k \in 0 .. i - 1
      BY <1>3, <1>5
    <3> HIDE DEF R
    <3>2. \A k \in 0 .. i : h[k] = R(f, k)
      BY <2>3, <3>1
    <3> HIDE DEF h
    <3> QED BY <2>4, <3>2
  <2>6. h = [k \in 0 .. i |-> R(h, k)]
    <3>1. h = [k \in 0 .. i |-> h[k]]
      OBVIOUS
    <3> HIDE DEF h, R
    <3> QED BY <2>5, <3>1
  <2>7. PICK g : g = h
    OBVIOUS
  <2> HIDE DEF h
  <2>8. IsHandling(g, i)
    BY <2>6, <2>7 DEF IsHandling
  <2> QED BY <1>3, <2>8
<1> QED BY <1>4, <1>5

(* Each event that is handled settles its transaction, so after the last   *)
(* one the wallet has caught up with the ledger.                           *)
LEMMA HandledSettles ==
  ASSUME Wallet!WalletAssumption, \A x \in executed : Inputs[x] \subseteq executed,
         queue \in Seq(Txs), Settled(wallet, Pending, executed),
         \A t \in Pending : t \in executed \/ Wallet!Found(t) = Inputs[t]
  PROVE  Settled(Wallet!Handled, {}, executed)
<1> DEFINE n == Len(queue)
           after == CHOOSE g : IsHandling(g, n)
           Rest(i) == {queue[j] : j \in {k \in 1 .. n : k > i}}
<1>0. n \in Nat /\ DOMAIN queue = 1 .. n
  OBVIOUS
<1>1. Wallet!Handled = after[n]
  BY DEF Wallet!Handled, IsHandling
<1>2. IsHandling(after, n)
  BY <1>0, HandlingExists
<1>3. PICK f : f = after
  OBVIOUS
<1> HIDE DEF after
<1>4. \A i \in 0 .. n : f[i] = IF i = 0 THEN wallet ELSE Wallet!OnTxUpdate(f[i - 1], queue[i])
  BY <1>2, <1>3 DEF IsHandling
<1> DEFINE S == {i \in 0 .. n : ~ Settled(f[i], Rest(i), executed)}
<1>5. Rest(0) = Pending /\ Rest(n) = {}
  BY <1>0 DEF Pending
<1>6. ASSUME S # {} PROVE FALSE
  <2>1. S \subseteq Nat
    OBVIOUS
  <2>2. PICK i \in S : \A j \in S : i <= j
    BY <1>6, <2>1, Least
  <2>3. i \in 0 .. n /\ ~ Settled(f[i], Rest(i), executed)
    OBVIOUS
  <2>4. i # 0
    <3>1. f[0] = wallet
      BY <1>0, <1>4
    <3> HIDE DEF Rest
    <3> QED BY <1>5, <2>3, <3>1
  <2>5. i - 1 \in 0 .. n /\ i \in 1 .. n /\ i - 1 \notin S
    <3> HIDE DEF S
    <3> QED BY <1>0, <2>2, <2>3, <2>4
  <2>6. Settled(f[i - 1], Rest(i - 1), executed)
    <3> HIDE DEF Rest
    <3> QED BY <2>5
  <2>7. PICK t \in Txs : t = queue[i]
    BY <2>5
  <2>8. t \in executed \/ Wallet!Found(t) = Inputs[t]
    BY <1>0, <2>5, <2>7 DEF Pending
  <2>9. PICK w : w = f[i - 1]
    OBVIOUS
  <2>10. PICK P : P = Rest(i - 1)
    OBVIOUS
  <2>11. P \ {t} \subseteq Rest(i)
    BY <2>3, <2>4, <2>5, <2>7, <2>10
  <2> HIDE DEF Rest, n
  <2>12. Settled(w, P, executed)
    BY <2>6, <2>9, <2>10
  <2>13. Settled(Wallet!OnTxUpdate(w, t), P \ {t}, executed)
    BY <2>8, <2>12, UpdateSettles
  <2>14. f[i] = Wallet!OnTxUpdate(w, t)
    BY <1>4, <2>3, <2>4, <2>7, <2>9
  <2>15. PICK v : v = f[i]
    OBVIOUS
  <2>16. PICK Q, R : Q = P \ {t} /\ R = Rest(i)
    OBVIOUS
  <2>17. Settled(v, Q, executed)
    BY <2>13, <2>14, <2>15, <2>16
  <2>18. Settled(v, R, executed)
    BY <2>11, <2>16, <2>17, SettledTransfer
  <2> QED BY <2>3, <2>15, <2>16, <2>18
<1>7. S = {} /\ n \in 0 .. n
  <2> HIDE DEF S
  <2> QED BY <1>0, <1>6
<1> HIDE DEF Rest, n
<1>8. Settled(f[n], Rest(n), executed)
  BY <1>7
<1> QED BY <1>1, <1>3, <1>5, <1>8

-----------------------------------------------------------------------------
(* Steps of the wallet.                                                    *)

(* An order of the transactions S is a sequence of exactly these.          *)
LEMMA OrderFact ==
  ASSUME Wallet!WalletAssumption, NEW S, S \subseteq Txs, NEW order \in Wallet!SetToSeqs(S)
  PROVE  order \in Seq(Txs) /\ {order[i] : i \in DOMAIN order} = S
<1>1. IsFiniteSet(S)
  <2>1. IsFiniteSet(Txs)
    BY DEF Wallet!WalletAssumption, Wallet!IsFiniteSet, IsFiniteSet, Wallet!Txs, Txs
  <2> QED BY <2>1, FS_Subset
<1>2. Wallet!Cardinality(S) = Cardinality(S)
  BY DEF Wallet!Cardinality, Cardinality
<1>3. PICK n \in Nat : n = Cardinality(S)
  BY <1>1, FS_CardinalityType
<1>4. order \in [1 .. n -> S] /\ \A i, j \in 1 .. n : i # j => order[i] # order[j]
  BY <1>2, <1>3 DEF Wallet!SetToSeqs
<1>5. order \in Injection(1 .. n, S)
  BY <1>4 DEF Injection, IsInjective
<1>6. Cardinality(1 .. n) = n
  BY <1>3, FS_Interval
<1>7. order \in Surjection(1 .. n, S)
  BY <1>1, <1>3, <1>5, <1>6, FS_Injection
<1>8. \A x \in S : \E i \in 1 .. n : order[i] = x
  BY <1>7 DEF Surjection
<1>9. DOMAIN order = 1 .. n /\ order \in Seq(Txs)
  BY <1>4
<1> QED BY <1>4, <1>8, <1>9

(* Events are published at the end of the queue.                           *)
LEMMA PendingFact ==
  ASSUME queue \in Seq(Txs), NEW order \in Seq(Txs), queue' = queue \o order
  PROVE  queue' \in Seq(Txs) /\ Pending' = Pending \cup {order[i] : i \in DOMAIN order}
<1>1. queue' \in Seq(Txs)
  OBVIOUS
<1>2. PICK n \in Nat, m \in Nat : n = Len(queue) /\ m = Len(order)
  OBVIOUS
<1>3. /\ DOMAIN queue = 1 .. n /\ DOMAIN order = 1 .. m /\ DOMAIN queue' = 1 .. (n + m)
      /\ \A i \in 1 .. (n + m) : queue'[i] = IF i <= n THEN queue[i] ELSE order[i - n]
  BY <1>2
<1>4. ASSUME NEW x \in Pending' PROVE x \in Pending \cup {order[i] : i \in DOMAIN order}
  <2>1. PICK i \in 1 .. (n + m) : x = queue'[i]
    BY <1>3 DEF Pending
  <2>2. CASE i <= n
    BY <1>3, <2>1, <2>2 DEF Pending
  <2>3. CASE i > n
    <3>1. i - n \in 1 .. m /\ x = order[i - n]
      BY <1>3, <2>1, <2>3
    <3> QED BY <1>3, <3>1
  <2> QED BY <2>2, <2>3
<1>5. ASSUME NEW x \in Pending PROVE x \in Pending'
  <2>1. PICK i \in 1 .. n : x = queue[i]
    BY <1>3 DEF Pending
  <2>2. i \in 1 .. (n + m) /\ x = queue'[i]
    BY <1>3, <2>1
  <2> QED BY <1>3, <2>2 DEF Pending
<1>6. ASSUME NEW i \in DOMAIN order PROVE order[i] \in Pending'
  <2>1. i \in 1 .. m /\ i + n \in 1 .. (n + m) /\ (i + n) - n = i /\ ~(i + n <= n)
    BY <1>3
  <2>2. queue'[i + n] = order[i]
    BY <1>3, <2>1
  <2> QED BY <1>3, <2>1, <2>2 DEF Pending
<1> QED BY <1>1, <1>4, <1>5, <1>6

LEMMA AcceptStep ==
  ASSUME Wallet!WalletAssumption, WalletInv, NEW t \in Txs, NEW E \in SUBSET Txs,
         Wallet!Accept(t, E)
  PROVE  WalletInv'
<1> DEFINE changed == (executed \ E) \cup (E \ executed) \cup {t}
<1>0. /\ t \notin stored /\ \A k \in DOMAIN queue : queue[k] # t
      /\ E \subseteq stored \cup {t} /\ \A x \in E : Inputs[x] \subseteq E
      /\ stored' = stored \cup {t} /\ executed' = E /\ raised' = raised
      /\ wallet' = IF t \in E THEN Wallet!OnNewTx(wallet, t) ELSE wallet
  BY DEF Wallet!Accept, Wallet!Consistent
<1>1. PICK order \in Wallet!SetToSeqs(changed) : queue' = queue \o order
  BY DEF Wallet!Accept, Wallet!SortedAffected
<1>2. changed \subseteq Txs
  BY DEF WalletInv
<1>3. order \in Seq(Txs) /\ {order[i] : i \in DOMAIN order} = changed
  <2> HIDE DEF changed
  <2> QED BY <1>1, <1>2, OrderFact
<1>4. queue' \in Seq(Txs) /\ Pending' = Pending \cup changed
  <2> HIDE DEF changed
  <2> QED BY <1>1, <1>3, PendingFact DEF WalletInv
<1>5. t \notin Pending /\ t \notin executed
  BY <1>0 DEF Pending, WalletInv
<1>6. PICK P : P = Pending \cup (changed \ {t})
  OBVIOUS
<1>7. PICK w, D, Q : w = wallet /\ D = executed /\ Q = Pending'
  OBVIOUS
<1>8. P \cup {t} = Q /\ t \notin P /\ Pending \subseteq P
  BY <1>4, <1>5, <1>6, <1>7
<1>9. \A x : x \notin Q => (x \in D <=> x \in E)
  BY <1>4, <1>7
<1>10. ASSUME ~raised PROVE Settled(wallet', Pending', executed')
  <2>1. Settled(w, Pending, D)
    BY <1>7, <1>10 DEF WalletInv
  <2>2. Settled(w, P, D)
    BY <1>8, <2>1, SettledTransfer
  <2>3. CASE t \in E
    <3>1. Inputs[t] \ P \subseteq executed
      <4>1. t \notin Inputs[t] /\ Inputs[t] \subseteq E
        BY <1>0, <2>3 DEF Wallet!WalletAssumption, Wallet!Txs, Txs
      <4> QED BY <1>6, <4>1
    <3>2. Settled(w, P, executed)
      BY <1>7, <2>2
    <3>3. Settled(Wallet!OnNewTx(w, t), P \cup {t}, executed)
      BY <1>5, <1>8, <3>1, <3>2, NewTxSettles
    <3>4. PICK v : v = Wallet!OnNewTx(w, t)
      OBVIOUS
    <3>5. Settled(v, Q, D)
      BY <1>7, <1>8, <3>3, <3>4
    <3>6. Settled(v, Q, E)
      BY <1>9, <3>5, SettledTransfer
    <3>7. v = wallet'
      BY <1>0, <1>7, <2>3, <3>4
    <3> QED BY <1>0, <1>7, <3>6, <3>7
  <2>4. CASE t \notin E
    <3>1. Settled(w, Q, E)
      BY <1>8, <1>9, <2>2, SettledTransfer
    <3> QED BY <1>0, <1>7, <2>4, <3>1
  <2> QED BY <2>3, <2>4
<1>11. stored' \subseteq Txs /\ executed' \subseteq stored' /\ raised' \in BOOLEAN
       /\ \A x \in executed' : Inputs[x] \subseteq executed'
  BY <1>0 DEF WalletInv
<1> QED BY <1>0, <1>4, <1>10, <1>11 DEF WalletInv

LEMMA RemoveStep ==
  ASSUME Wallet!WalletAssumption, WalletInv, NEW R \in SUBSET Txs,
         Wallet!RemoveTransactions(R)
  PROVE  WalletInv'
<1>0. /\ \A x \in R : Wallet!Spenders(x) \cap stored \subseteq R
      /\ stored' = stored \ R /\ executed' = executed \ R
      /\ wallet' = wallet /\ raised' = raised
  BY DEF Wallet!RemoveTransactions
<1>1. PICK order \in Wallet!SetToSeqs(R) : queue' = queue \o order
  BY DEF Wallet!RemoveTransactions
<1>2. order \in Seq(Txs) /\ {order[i] : i \in DOMAIN order} = R
  BY <1>1, OrderFact
<1>3. queue' \in Seq(Txs) /\ Pending' = Pending \cup R
  BY <1>1, <1>2, PendingFact DEF WalletInv
<1>4. ASSUME NEW x \in executed' PROVE Inputs[x] \subseteq executed'
  <2>1. x \in executed /\ x \in stored /\ x \in Txs /\ x \notin R /\ Inputs[x] \subseteq executed
    BY <1>0 DEF WalletInv
  <2>2. ASSUME NEW o \in Inputs[x], o \in R PROVE FALSE
    <3>1. x \in Wallet!Spenders(o)
      BY <2>1 DEF Wallet!Spenders, Txs
    <3> QED BY <1>0, <2>1, <2>2, <3>1
  <2> QED BY <1>0, <2>1, <2>2
<1>5. PICK w, P, D, Q, F : /\ w = wallet /\ P = Pending /\ D = executed
                          /\ Q = Pending' /\ F = executed'
  OBVIOUS
<1>6. P \subseteq Q /\ \A x : x \notin Q => (x \in D <=> x \in F)
  BY <1>0, <1>3, <1>5
<1>7. ASSUME ~raised PROVE Settled(wallet', Pending', executed')
  <2>1. Settled(w, P, D)
    BY <1>5, <1>7 DEF WalletInv
  <2>2. Settled(w, Q, F)
    BY <1>6, <2>1, SettledTransfer
  <2> QED BY <1>0, <1>5, <2>2
<1>8. stored' \subseteq Txs /\ executed' \subseteq stored' /\ raised' \in BOOLEAN
  BY <1>0 DEF WalletInv
<1> QED BY <1>0, <1>3, <1>4, <1>7, <1>8 DEF WalletInv

LEMMA CallNextStep ==
  ASSUME Wallet!WalletAssumption, WalletInv, Wallet!CallNext
  PROVE  WalletInv'
<1>0. /\ queue' = <<>> /\ wallet' = Wallet!Handled /\ stored' = stored /\ executed' = executed
      /\ raised' = (raised \/ \E t \in Wallet!ToSet(queue) \ executed : Wallet!Found(t) # Inputs[t])
  BY DEF Wallet!CallNext
<1>1. queue' \in Seq(Txs) /\ Pending' = {}
  BY <1>0 DEF Pending
<1>2. ASSUME ~raised' PROVE Settled(wallet', Pending', executed')
  <2>1. ~raised /\ \A t \in Pending : t \in executed \/ Wallet!Found(t) = Inputs[t]
    BY <1>0, <1>2 DEF Pending, Wallet!ToSet
  <2>2. Settled(Wallet!Handled, {}, executed)
    BY <2>1, HandledSettles DEF WalletInv
  <2> QED BY <1>0, <1>1, <2>2
<1>3. raised' \in BOOLEAN
  BY <1>0
<1> QED BY <1>0, <1>1, <1>2, <1>3 DEF WalletInv

(* Outputs that move between unspent and maybe spent can still be taken.   *)
LEMMA MoveSettles ==
  ASSUME NEW w, NEW P, NEW E, Settled(w, P, E), NEW v \in Wallets,
         v.unspent \cup v.maybe = w.unspent \cup w.maybe, v.unspent \cap v.maybe = {},
         \A o : By(v, o) = By(w, o)
  PROVE  Settled(v, P, E)
<1>1. \A o : Takes(v, o) <=> Takes(w, o)
  BY DEF Takes, Wallet!Available
<1>2. /\ \A o \in Mine : Takes(v, o) => By(v, o) = {}
      /\ \A o \in Mine : \A t \in By(v, o) : o \in Inputs[t]
      /\ \A t \in Txs \ P : \A o \in Inputs[t] \cap Mine : t \in By(v, o) <=> t \in E
      /\ \A o \in Mine \ P : o \in E => (Takes(v, o) <=> By(v, o) = {})
      /\ \A o \in Mine \ P : o \notin E => ~Takes(v, o) /\ By(v, o) = {}
  BY <1>1 DEF Settled
<1> QED BY <1>2 DEF Settled

LEMMA UserStep ==
  ASSUME WalletInv, NEW S \in SUBSET Mine,
         Wallet!GetInputsFromAmount(S) \/ Wallet!CheckUtxos(S)
  PROVE  WalletInv'
<1>0. stored' = stored /\ executed' = executed /\ queue' = queue /\ raised' = raised
  BY DEF Wallet!GetInputsFromAmount, Wallet!CheckUtxos
<1>1. ASSUME ~raised PROVE Settled(wallet', Pending, executed)
  <2>1. PICK w, P, D : w = wallet /\ P = Pending /\ D = executed
    OBVIOUS
  <2>2. Settled(w, P, D) /\ w \in Wallets /\ w.unspent \cap w.maybe = {}
    BY <1>1, <2>1 DEF WalletInv, Settled
  <2>3. w.unspent \subseteq Mine /\ w.maybe \subseteq Mine
    BY <2>2, WalletFields
  <2>4. PICK u \in SUBSET Mine, m \in SUBSET Mine :
            /\ wallet' = With(w, u, m)
            /\ u \cup m = w.unspent \cup w.maybe /\ u \cap m = {}
    <3>1. CASE Wallet!GetInputsFromAmount(S)
      <4>1. PICK u \in SUBSET Mine, m \in SUBSET Mine : u = w.unspent \ S /\ m = w.maybe \cup S
        BY <2>3
      <4>2. S \subseteq w.unspent /\ wallet' = [w EXCEPT !.unspent = u, !.maybe = m]
        BY <2>1, <3>1, <4>1 DEF Wallet!GetInputsFromAmount
      <4>3. u \cup m = w.unspent \cup w.maybe /\ u \cap m = {}
        BY <2>2, <4>1, <4>2
      <4>4. wallet' = With(w, u, m)
        BY <4>2 DEF With
      <4> QED BY <4>3, <4>4
    <3>2. CASE Wallet!CheckUtxos(S)
      <4>1. PICK u \in SUBSET Mine, m \in SUBSET Mine : u = w.unspent \cup S /\ m = w.maybe \ S
        BY <2>3
      <4>2. S \subseteq w.maybe /\ wallet' = [w EXCEPT !.unspent = u, !.maybe = m]
        BY <2>1, <3>2, <4>1 DEF Wallet!CheckUtxos
      <4>3. u \cup m = w.unspent \cup w.maybe /\ u \cap m = {}
        BY <2>2, <4>1, <4>2
      <4>4. wallet' = With(w, u, m)
        BY <4>2 DEF With
      <4> QED BY <4>3, <4>4
    <3> QED BY <3>1, <3>2
  <2>5. PICK v : v = With(w, u, m)
    OBVIOUS
  <2>6. v \in Wallets /\ v.unspent = u /\ v.maybe = m /\ \A o : By(v, o) = By(w, o)
    <3>1. w \in Wallets
      BY <2>2
    <3>2. /\ With(w, u, m) \in Wallets
          /\ With(w, u, m).unspent = u /\ With(w, u, m).maybe = m
          /\ \A o : By(With(w, u, m), o) = By(w, o)
      BY <3>1, OutputsFact
    <3> QED BY <2>5, <3>2
  <2>7. Settled(v, P, D)
    <3>1. v.unspent \cup v.maybe = w.unspent \cup w.maybe /\ v.unspent \cap v.maybe = {}
      BY <2>4, <2>6
    <3> QED BY <2>2, <2>6, <3>1, MoveSettles
  <2> QED BY <2>1, <2>4, <2>5, <2>7
<1>2. Pending' = Pending
  BY <1>0 DEF Pending
<1> QED BY <1>0, <1>1, <1>2 DEF WalletInv

LEMMA WalletInitHolds ==
  ASSUME Wallet!WalletAssumption, Wallet!Init
  PROVE  WalletInv
<1>0. stored = {} /\ executed = {} /\ queue = <<>> /\ raised = FALSE
  BY DEF Wallet!Init
<1>1. PICK u \in SUBSET Mine, f \in {<<>>} : u = {} /\ f \in [u -> SUBSET Txs]
  <2>1. <<>> \in Seq(SUBSET Txs) /\ Len(<<>>) = 0
    OBVIOUS
  <2>2. <<>> \in [1 .. 0 -> SUBSET Txs]
    BY <2>1
  <2>3. 1 .. 0 = {}
    OBVIOUS
  <2> QED BY <2>2, <2>3
<1>2. wallet = Made(u, u, f)
  BY <1>1 DEF Wallet!Init, Made
<1>3. IsMade(wallet, u, u, u, f)
  BY <1>1, <1>2, MakeWallet
<1>4. wallet \in Wallets /\ wallet.unspent = {} /\ wallet.maybe = {} /\ \A o : By(wallet, o) = {}
  BY <1>1, <1>3 DEF IsMade
<1>5. \A o : ~Takes(wallet, o)
  BY <1>4 DEF Takes, Wallet!Available
<1>6. Pending = {}
  BY <1>0 DEF Pending
<1>7. Settled(wallet, Pending, executed)
  BY <1>0, <1>4, <1>5, <1>6 DEF Settled
<1>8. queue \in Seq(Txs) /\ raised \in BOOLEAN
  <2>1. <<>> \in Seq(Txs)
    OBVIOUS
  <2>2. FALSE \in BOOLEAN
    OBVIOUS
  <2> QED BY <1>0, <2>1, <2>2
<1>9. stored \subseteq Txs /\ executed \subseteq stored
  BY <1>0
<1>10. \A t \in executed : Inputs[t] \subseteq executed
  BY <1>0
<1> QED BY <1>7, <1>8, <1>9, <1>10 DEF WalletInv

LEMMA WalletNextHolds ==
  ASSUME Wallet!WalletAssumption, WalletInv, [Wallet!Next]_(Wallet!vars)
  PROVE  WalletInv'
<1>1. CASE UNCHANGED Wallet!vars
  <2>1. /\ stored' = stored /\ executed' = executed /\ queue' = queue
        /\ wallet' = wallet /\ raised' = raised
    BY <1>1 DEF Wallet!vars
  <2>2. Pending' = Pending
    BY <2>1 DEF Pending
  <2> QED BY <2>1, <2>2 DEF WalletInv
<1>2. CASE Wallet!Next
  BY <1>2, AcceptStep, RemoveStep, CallNextStep, UserStep DEF Wallet!Next, Wallet!Txs, Txs
<1> QED BY <1>1, <1>2

(* With nothing left to handle, what the wallet can spend is what the      *)
(* ledger says.                                                            *)
LEMMA SettledMatches ==
  ASSUME WalletInv
  PROVE  WalletMatchesLedger
<1>1. SUFFICES ASSUME queue = <<>>, ~raised
               PROVE  Available(wallet) = Utxos /\ wallet.unspent \cap wallet.maybe = {}
  BY DEF WalletMatchesLedger
<1>2. Pending = {}
  BY <1>1 DEF Pending
<1>3. Settled(wallet, {}, executed)
  BY <1>1, <1>2 DEF WalletInv
<1>4. \A o : o \in Available(wallet) <=> Takes(wallet, o)
  BY DEF Available, Takes, Wallet!Available
<1>5. wallet \in Wallets /\ Available(wallet) \subseteq Mine
  BY <1>3 DEF Settled, Wallets, Available
<1>6. \A o : By(wallet, o) \subseteq Txs
  BY <1>5, WalletFields
<1>7. ASSUME NEW o \in Mine
      PROVE  /\ o \in executed => (Takes(wallet, o) <=> By(wallet, o) = {})
             /\ o \notin executed => ~Takes(wallet, o)
             /\ \A t \in By(wallet, o) : o \in Inputs[t]
             /\ \A t \in Txs : o \in Inputs[t] => (t \in By(wallet, o) <=> t \in executed)
  BY <1>3 DEF Settled
<1>8. ASSUME NEW o \in Mine
      PROVE  By(wallet, o) = {} <=> Spenders(o) \cap executed = {}
  <2>1. By(wallet, o) = Spenders(o) \cap executed
    BY <1>6, <1>7 DEF Spenders, Txs
  <2> QED BY <2>1
<1>9. ASSUME NEW o PROVE o \in Available(wallet) <=> o \in Utxos
  BY <1>4, <1>5, <1>7, <1>8 DEF Utxos
<1>10. wallet.unspent \cap wallet.maybe = {}
  BY <1>3 DEF Settled
<1> QED BY <1>9, <1>10

(* The wallet follows the ledger (WalletMatchesLedger): whatever is        *)
(* accepted, voided, restored and removed, and however many events wait    *)
(* meanwhile, once PubSubManager has handled them BaseWallet has exactly   *)
(* the unspent outputs of the ledger, each once, provided no handler       *)
(* raised.                                                                 *)
THEOREM WalletFollowsLedger ==
  ASSUME Wallet!WalletAssumption
  PROVE  Wallet!Spec => []WalletMatchesLedger
<1>1. Wallet!Init => WalletInv
  BY WalletInitHolds
<1>2. WalletInv /\ [Wallet!Next]_(Wallet!vars) => WalletInv'
  BY WalletNextHolds
<1>3. WalletInv => WalletMatchesLedger
  BY SettledMatches
<1> QED BY <1>1, <1>2, <1>3, PTL DEF Wallet!Spec

-----------------------------------------------------------------------------
(* Sums over finite sets.                                                  *)

Elem(T) == CHOOSE x \in T : TRUE

(* The fold behind SumOf, on a family D of sets.                           *)
Folded(g, f, T) == IF T = {} THEN 0 ELSE f[Elem(T)] + g[T \ {Elem(T)}]
IsFold(g, f, D) == g = [T \in D |-> Folded(g, f, T)]

LEMMA SumIsFold ==
  ASSUME NEW f
  PROVE  SumOf(f) = (CHOOSE g : IsFold(g, f, SUBSET DOMAIN f))[DOMAIN f]
BY DEF SumOf, MapThenSumSet, MapThenFoldSet, IsFold, Folded, Elem

UpTo(S, n) == {T \in SUBSET S : Cardinality(T) <= n}

LEMMA SmallerSet ==
  ASSUME NEW S, IsFiniteSet(S), NEW T \in SUBSET S
  PROVE  /\ IsFiniteSet(T) /\ Cardinality(T) \in Nat
         /\ Cardinality(T) <= Cardinality(S) /\ (T = {} <=> Cardinality(T) = 0)
         /\ \A x \in T : Cardinality(T \ {x}) = Cardinality(T) - 1
<1>1. IsFiniteSet(T) /\ Cardinality(T) <= Cardinality(S)
  BY FS_Subset
<1> QED BY <1>1, FS_CardinalityType, FS_EmptySet, FS_RemoveElement

LEMMA FoldExists ==
  ASSUME NEW S, IsFiniteSet(S), NEW f
  PROVE  \E g : IsFold(g, f, SUBSET S)
<1> DEFINE Bad == {n \in Nat : ~ \E g : IsFold(g, f, UpTo(S, n))}
<1>1. ASSUME Bad # {} PROVE FALSE
  <2>1. PICK n \in Bad : \A m \in Bad : n <= m
    BY <1>1, Least
  <2>2. n \in Nat /\ ~ \E g : IsFold(g, f, UpTo(S, n))
    OBVIOUS
  <2>3. CASE n = 0
    <3>1. \A T \in UpTo(S, n) : T = {}
      BY <2>3, SmallerSet DEF UpTo
    <3>2. PICK g : g = [T \in UpTo(S, n) |-> 0]
      OBVIOUS
    <3>3. IsFold(g, f, UpTo(S, n))
      BY <3>1, <3>2 DEF IsFold, Folded
    <3> QED BY <2>2, <3>3
  <2>4. CASE n # 0
    <3>1. n - 1 \in Nat /\ n - 1 \notin Bad
      <4> HIDE DEF Bad
      <4> QED BY <2>1, <2>2, <2>4
    <3>2. PICK g : IsFold(g, f, UpTo(S, n - 1))
      BY <3>1
    <3>3. \A T \in UpTo(S, n - 1) : g[T] = Folded(g, f, T)
      BY <3>2 DEF IsFold
    <3>4. PICK h : h = [T \in UpTo(S, n) |-> Folded(g, f, T)]
      OBVIOUS
    <3>5. ASSUME NEW T \in UpTo(S, n) PROVE Folded(h, f, T) = Folded(g, f, T)
      <4>1. CASE T = {}
        BY <4>1 DEF Folded
      <4>2. CASE T # {}
        <5>1. Elem(T) \in T
          BY <4>2 DEF Elem
        <5>2. PICK U : U = T \ {Elem(T)}
          OBVIOUS
        <5>3. U \in UpTo(S, n - 1) /\ U \in UpTo(S, n)
          BY <2>2, <5>1, <5>2, SmallerSet DEF UpTo
        <5>4. h[U] = g[U]
          BY <3>3, <3>4, <5>3
        <5> QED BY <4>2, <5>2, <5>4 DEF Folded
      <4> QED BY <4>1, <4>2
    <3>6. IsFold(h, f, UpTo(S, n))
      BY <3>4, <3>5 DEF IsFold
    <3> QED BY <2>2, <3>6
  <2> QED BY <2>3, <2>4
<1>2. PICK n \in Nat : n = Cardinality(S)
  BY FS_CardinalityType
<1>3. UpTo(S, n) = SUBSET S
  BY <1>2, SmallerSet DEF UpTo
<1>4. \E g : IsFold(g, f, UpTo(S, n))
  BY <1>1, <1>2
<1> QED BY <1>3, <1>4

(* Among sets of subsets of a finite set that are not empty there is one   *)
(* that no longer has a member when anything is taken from it.             *)
LEMMA Smallest ==
  ASSUME NEW S, IsFiniteSet(S), NEW Bad, Bad \subseteq SUBSET S, Bad # {}
  PROVE  \E T \in Bad : \A x \in T : T \ {x} \notin Bad
<1>1. PICK N : N = {Cardinality(T) : T \in Bad}
  OBVIOUS
<1>2. N \subseteq Nat /\ N # {}
  BY <1>1, SmallerSet
<1>3. PICK n \in N : \A m \in N : n <= m
  BY <1>2, Least
<1>4. PICK T \in Bad : n = Cardinality(T)
  BY <1>1
<1>5. ASSUME NEW x \in T, T \ {x} \in Bad PROVE FALSE
  <2>1. Cardinality(T \ {x}) \in N
    BY <1>1, <1>5
  <2>2. Cardinality(T \ {x}) = n - 1
    BY <1>4, SmallerSet
  <2> QED BY <1>2, <1>3, <2>1, <2>2
<1> QED BY <1>5

(* g has the sums of f over all subsets of S.                              *)
IsSum(g, f, S) ==
    /\ \A T \in SUBSET S : g[T] \in Int
    /\ g[{}] = 0
    /\ \A T \in SUBSET S : \A x \in T : g[T] = f[x] + g[T \ {x}]

LEMMA FoldIsSum ==
  ASSUME NEW S, IsFiniteSet(S), NEW f \in [S -> Int], NEW g, IsFold(g, f, SUBSET S)
  PROVE  IsSum(g, f, S)
<1>1. \A T \in SUBSET S : g[T] = Folded(g, f, T)
  BY DEF IsFold
<1>2. \A T \in SUBSET S : T # {} => Elem(T) \in T /\ g[T] = f[Elem(T)] + g[T \ {Elem(T)}]
  BY <1>1 DEF Folded, Elem
<1>3. g[{}] = 0
  BY <1>1 DEF Folded
<1> DEFINE Odd == {T \in SUBSET S : g[T] \notin Int}
           Bad == {T \in SUBSET S : \E x \in T : g[T] # f[x] + g[T \ {x}]}
<1>4. ASSUME Odd # {} PROVE FALSE
  <2>1. PICK T \in Odd : \A x \in T : T \ {x} \notin Odd
    <3>1. Odd \subseteq SUBSET S
      OBVIOUS
    <3> HIDE DEF Odd
    <3> QED BY <1>4, <3>1, Smallest
  <2>2. T # {}
    <3>1. g[T] \notin Int
      OBVIOUS
    <3>2. 0 \in Int
      OBVIOUS
    <3> QED BY <1>3, <3>1, <3>2, Zenon
  <2>3. Elem(T) \in T /\ g[T] = f[Elem(T)] + g[T \ {Elem(T)}]
    BY <1>2, <2>2
  <2>4. g[T \ {Elem(T)}] \in Int /\ f[Elem(T)] \in Int
    BY <2>1, <2>3
  <2> QED BY <2>3, <2>4
<1>5. \A T \in SUBSET S : g[T] \in Int
  BY <1>4
<1>6. ASSUME Bad # {} PROVE FALSE
  <2>1. PICK T \in Bad : \A x \in T : T \ {x} \notin Bad
    <3>1. Bad \subseteq SUBSET S
      OBVIOUS
    <3> HIDE DEF Bad
    <3> QED BY <1>6, <3>1, Smallest
  <2>2. PICK x \in T : g[T] # f[x] + g[T \ {x}]
    OBVIOUS
  <2>3. PICK y : y = Elem(T)
    OBVIOUS
  <2>4. y \in T /\ g[T] = f[y] + g[T \ {y}] /\ x # y
    BY <1>2, <2>2, <2>3
  <2>5. PICK U : U = (T \ {x}) \ {y}
    OBVIOUS
  <2>6. U = (T \ {y}) \ {x}
    BY <2>5
  <2>7. g[T \ {y}] = f[x] + g[U]
    BY <2>1, <2>4, <2>6
  <2>8. g[T \ {x}] = f[y] + g[U]
    BY <2>1, <2>4, <2>5
  <2>9. f[x] \in Int /\ f[y] \in Int /\ g[U] \in Int
    BY <1>5, <2>4, <2>5
  <2> QED BY <2>2, <2>4, <2>7, <2>8, <2>9
<1>7. \A T \in SUBSET S : \A x \in T : g[T] = f[x] + g[T \ {x}]
  BY <1>6
<1> QED BY <1>3, <1>5, <1>7 DEF IsSum

LEMMA SumFact ==
  ASSUME NEW S, IsFiniteSet(S), NEW f \in [S -> Int]
  PROVE  \E g : IsSum(g, f, S) /\ SumOf(f) = g[S]
<1>1. PICK g : g = CHOOSE h : IsFold(h, f, SUBSET S)
  OBVIOUS
<1>2. IsFold(g, f, SUBSET S)
  BY <1>1, FoldExists
<1>3. DOMAIN f = S
  OBVIOUS
<1>4. SumOf(f) = g[S]
  BY <1>1, <1>3, SumIsFold
<1> QED BY <1>2, <1>4, FoldIsSum

(* So whatever adds up like a sum of f is the sum of f.                    *)
LEMMA SumIs ==
  ASSUME NEW S, IsFiniteSet(S), NEW f \in [S -> Int], NEW h, IsSum(h, f, S)
  PROVE  SumOf(f) = h[S]
<1>1. PICK g : IsSum(g, f, S) /\ SumOf(f) = g[S]
  BY SumFact
<1> DEFINE Bad == {T \in SUBSET S : g[T] # h[T]}
<1>2. ASSUME Bad # {} PROVE FALSE
  <2>1. PICK T \in Bad : \A x \in T : T \ {x} \notin Bad
    <3>1. Bad \subseteq SUBSET S
      OBVIOUS
    <3> HIDE DEF Bad
    <3> QED BY <1>2, <3>1, Smallest
  <2>2. T # {}
    BY <1>1 DEF IsSum
  <2>3. PICK x \in T : TRUE
    BY <2>2
  <2>4. g[T \ {x}] = h[T \ {x}]
    BY <2>1
  <2> QED BY <1>1, <2>3, <2>4 DEF IsSum
<1> QED BY <1>1, <1>2

LEMMA SumType ==
  ASSUME NEW S, IsFiniteSet(S), NEW f \in [S -> Int]
  PROVE  SumOf(f) \in Int
<1>1. PICK g : IsSum(g, f, S) /\ SumOf(f) = g[S]
  BY SumFact
<1> QED BY <1>1 DEF IsSum

LEMMA SumPoint ==
  ASSUME NEW S, IsFiniteSet(S), NEW y \in S, NEW n \in Int
  PROVE  SumOf([x \in S |-> IF x = y THEN n ELSE 0]) = n
<1>0. [x \in S |-> IF x = y THEN n ELSE 0] \in [S -> Int]
  OBVIOUS
<1>1. PICK f \in [S -> Int] : f = [x \in S |-> IF x = y THEN n ELSE 0]
  BY <1>0
<1>2. PICK h : h = [T \in SUBSET S |-> IF y \in T THEN n ELSE 0]
  OBVIOUS
<1>3. IsSum(h, f, S)
  <2>1. ASSUME NEW T \in SUBSET S, NEW x \in T PROVE h[T] = f[x] + h[T \ {x}]
    BY <1>1, <1>2
  <2>2. \A T \in SUBSET S : h[T] \in Int
    BY <1>2
  <2>3. h[{}] = 0
    BY <1>2
  <2> QED BY <2>1, <2>2, <2>3 DEF IsSum
<1>4. SumOf(f) = h[S]
  BY <1>3, SumIs
<1> QED BY <1>1, <1>2, <1>4

LEMMA SumZero ==
  ASSUME NEW S, IsFiniteSet(S)
  PROVE  SumOf([x \in S |-> 0]) = 0
<1>0. [x \in S |-> 0] \in [S -> Int]
  OBVIOUS
<1>1. PICK f \in [S -> Int] : f = [x \in S |-> 0]
  BY <1>0
<1>2. PICK h : h = [T \in SUBSET S |-> 0]
  OBVIOUS
<1>3. IsSum(h, f, S)
  BY <1>1, <1>2 DEF IsSum
<1>4. SumOf(f) = h[S]
  BY <1>3, SumIs
<1> QED BY <1>1, <1>2, <1>4

LEMMA SumAdd ==
  ASSUME NEW S, IsFiniteSet(S), NEW f \in [S -> Int], NEW e \in [S -> Int], NEW d \in [S -> Int],
         \A x \in S : d[x] = f[x] + e[x]
  PROVE  SumOf(d) = SumOf(f) + SumOf(e)
<1>1. PICK g : IsSum(g, f, S) /\ SumOf(f) = g[S]
  BY SumFact
<1>2. PICK k : IsSum(k, e, S) /\ SumOf(e) = k[S]
  BY SumFact
<1>3. PICK h : h = [T \in SUBSET S |-> g[T] + k[T]]
  OBVIOUS
<1>4. IsSum(h, d, S)
  <2>1. /\ \A T \in SUBSET S : g[T] \in Int /\ k[T] \in Int
        /\ g[{}] = 0 /\ k[{}] = 0
    BY <1>1, <1>2 DEF IsSum
  <2>2. ASSUME NEW T \in SUBSET S, NEW x \in T PROVE h[T] = d[x] + h[T \ {x}]
    <3>1. g[T] = f[x] + g[T \ {x}] /\ k[T] = e[x] + k[T \ {x}]
      BY <1>1, <1>2 DEF IsSum
    <3>2. g[T \ {x}] \in Int /\ k[T \ {x}] \in Int /\ f[x] \in Int /\ e[x] \in Int
      BY <2>1
    <3>3. h[T] = g[T] + k[T] /\ h[T \ {x}] = g[T \ {x}] + k[T \ {x}] /\ d[x] = f[x] + e[x]
      BY <1>3
    <3> QED BY <3>1, <3>2, <3>3
  <2>3. \A T \in SUBSET S : h[T] = g[T] + k[T]
    BY <1>3
  <2>4. (\A T \in SUBSET S : h[T] \in Int) /\ h[{}] = 0
    BY <2>1, <2>3
  <2> QED BY <2>2, <2>4 DEF IsSum
<1>5. SumOf(d) = h[S]
  BY <1>4, SumIs
<1>6. h[S] = g[S] + k[S]
  BY <1>3
<1> QED BY <1>1, <1>2, <1>5, <1>6

(* Terms that are 0 may be left out.                                       *)
LEMMA SumExtend ==
  ASSUME NEW C, IsFiniteSet(C), NEW S \in SUBSET C, NEW f \in [S -> Int], NEW d \in [C -> Int],
         \A x \in C : d[x] = IF x \in S THEN f[x] ELSE 0
  PROVE  SumOf(d) = SumOf(f)
<1>1. IsFiniteSet(S)
  BY FS_Subset
<1>2. PICK g : IsSum(g, f, S) /\ SumOf(f) = g[S]
  BY <1>1, SumFact
<1>3. PICK h : h = [T \in SUBSET C |-> g[T \cap S]]
  OBVIOUS
<1>4. IsSum(h, d, C)
  <2>1. (\A T \in SUBSET S : g[T] \in Int) /\ g[{}] = 0
    BY <1>2 DEF IsSum
  <2>2. ASSUME NEW T \in SUBSET C, NEW x \in T PROVE h[T] = d[x] + h[T \ {x}]
    <3>1. PICK U \in SUBSET S : U = T \cap S
      OBVIOUS
    <3>2. (T \ {x}) \cap S = U \ {x}
      BY <3>1
    <3>3. h[T] = g[U] /\ h[T \ {x}] = g[U \ {x}] /\ g[U] \in Int
      BY <1>3, <2>1, <3>1, <3>2
    <3>4. CASE x \in S
      <4>1. g[U] = f[x] + g[U \ {x}]
        BY <1>2, <3>1, <3>4 DEF IsSum
      <4> QED BY <3>3, <3>4, <4>1
    <3>5. CASE x \notin S
      <4>1. d[x] = 0
        BY <3>5
      <4>2. U \ {x} = U
        BY <3>1, <3>5
      <4>3. h[T \ {x}] = h[T] /\ h[T] \in Int
        BY <3>3, <4>2
      <4> QED BY <4>1, <4>3
    <3> QED BY <3>4, <3>5
  <2>3. \A T \in SUBSET C : h[T] = g[T \cap S] /\ T \cap S \in SUBSET S
    BY <1>3
  <2>4. \A T \in SUBSET C : h[T] \in Int
    BY <2>1, <2>3
  <2>5. h[{}] = 0
    <3>1. {} \cap S = {}
      OBVIOUS
    <3> QED BY <2>1, <2>3, <3>1
  <2> QED BY <2>2, <2>4, <2>5 DEF IsSum
<1>5. SumOf(d) = h[C]
  BY <1>4, SumIs
<1>6. C \cap S = S
  OBVIOUS
<1>7. h[C] = g[S]
  BY <1>3, <1>6
<1> QED BY <1>2, <1>5, <1>7

(* One term of a sum changes by n.                                         *)
LEMMA SumChange ==
  ASSUME NEW S, IsFiniteSet(S), NEW f \in [S -> Int], NEW d \in [S -> Int], NEW y \in S,
         NEW n \in Int, \A x \in S : d[x] = IF x = y THEN f[x] + n ELSE f[x]
  PROVE  SumOf(d) = SumOf(f) + n
<1>1. [x \in S |-> IF x = y THEN n ELSE 0] \in [S -> Int]
  OBVIOUS
<1>2. PICK e \in [S -> Int] : e = [x \in S |-> IF x = y THEN n ELSE 0]
  BY <1>1
<1>3. \A x \in S : d[x] = f[x] + e[x]
  BY <1>2
<1>4. SumOf(e) = n
  BY <1>2, SumPoint
<1>5. SumOf(d) = SumOf(f) + SumOf(e)
  BY <1>3, SumAdd
<1> QED BY <1>4, <1>5

-----------------------------------------------------------------------------
(* The books of the nano contracts.                                        *)

(* What the action a of a first call brings in of the token t.             *)
Brings(a, t) ==
    IF a.type = "deposit" /\ a.token = t THEN a.amount
    ELSE IF a.type = "withdrawal" /\ a.token = t THEN -a.amount ELSE 0

(* What a tracker changes and a storage holds of the token t.              *)
DiffOf(tr, t) == IF tr # Untracked THEN tr.diff[t] ELSE 0
BalOf(s, t) == IF s # NoStorage THEN s.bal[t] ELSE 0
DiffSum(tk, t) == SumOf([c \in Contracts |-> DiffOf(tk[c], t)])
BalSum(b, t) == SumOf([c \in Contracts |-> BalOf(b[c], t)])

IsStorage(s) == s \in [bal : [AllTokens -> Int], auth : {s.auth}]
IsTracker(tr) ==
    tr \in [diff : [AllTokens -> Int], granted : {tr.granted}, revoked : {tr.revoked},
            created : {tr.created}]

(***************************************************************************)
(* A contract, its storage s of the runner, its state b in the block and   *)
(* its tracker tr: the runner has the balances of the block, or nothing    *)
(* yet, and a contract that has been called is known to it.                *)
(***************************************************************************)
SoundContract(s, b, tr) ==
    /\ b # NoStorage => IsStorage(b) /\ \A t \in AllTokens : b.bal[t] >= 0
    /\ s # NoStorage => IsStorage(s) /\ \A t \in AllTokens : s.bal[t] = BalOf(b, t)
    /\ tr # Untracked => IsTracker(tr) /\ s # NoStorage
Sound(ss, b, tk) ==
    /\ ss = [c \in Contracts |-> ss[c]] /\ tk = [c \in Contracts |-> tk[c]]
    /\ \A c \in Contracts : SoundContract(ss[c], b[c], tk[c])

(* The calls under way are those of tracked contracts.                     *)
Framed(st, tk, rec, mn) ==
    /\ st \in Seq([contract : Contracts, view : BOOLEAN])
    /\ \A i \in DOMAIN st : tk[st[i].contract] # Untracked
    /\ mn \in Actions \cup {Nc!NoAction}
    /\ st = <<>> => /\ \A c \in Contracts : tk[c] = Untracked
                    /\ rec = <<>> /\ mn = Nc!NoAction

(* The trackers add up to the index updates and the action of the first    *)
(* call.                                                                   *)
IsBook(d) == \A t \in AllTokens : At(d, t) \in Int
Diffed(tk, rec, mn) ==
    IsBook(rec) /\ \A t \in AllTokens : DiffSum(tk, t) = At(rec, t) + Brings(mn, t)

(* Tokens are created for HTR only, also when the call fails later.        *)
Covered(d) ==
    IsBook(d) /\ SumOf([t \in Tokens |-> At(d, t)]) <= -(Unit * At(d, Htr))

(* So are those of the block.                                              *)
Balanced(b, nt) ==
    /\ nt \in [AllTokens -> Int]
    /\ SumOf([t \in Tokens |-> BalSum(b, t) - nt[t]]) <= Unit * (nt[Htr] - BalSum(b, Htr))

NcInv ==
    /\ Sound(storages, block, trackers)
    /\ Framed(stack, trackers, recorded, main)
    /\ Diffed(trackers, recorded, main)
    /\ Covered(totals)
    /\ Balanced(block, net)

LEMMA NcConstants ==
  ASSUME Nc!NcAssumption
  PROVE  /\ IsFiniteSet(Contracts) /\ IsFiniteSet(Tokens)
         /\ Htr \notin Tokens /\ Unit \in Nat \ {0} /\ Amounts \subseteq Nat
         /\ \A c \in DOMAIN ChildToken : ChildToken[c] \in Tokens
         /\ \A a \in Actions : a.type \in {"deposit", "withdrawal"} =>
               a.token \in AllTokens /\ a.amount \in Nat
         /\ Nc!AllTokens = AllTokens
BY DEF Nc!NcAssumption, Nc!AllTokens, AllTokens, Nc!IsFiniteSet, IsFiniteSet

LEMMA NcNames ==
  /\ Nc!NoStorage = NoStorage /\ Nc!Untracked = Untracked
  /\ \A d, t : Nc!At(d, t) = At(d, t)
BY DEF Nc!NoStorage, NoStorage, Nc!Untracked, Untracked, Nc!At, At

LEMMA Distinct ==
  /\ \A tr : IsTracker(tr) => tr # Untracked
  /\ \A s : IsStorage(s) => s # NoStorage
<1>1. DOMAIN Untracked = {"diff"} /\ DOMAIN NoStorage = {"bal"}
  BY DEF Untracked, NoStorage
<1>2. ASSUME NEW tr, IsTracker(tr) PROVE tr # Untracked
  <2>1. "granted" \in DOMAIN tr
    BY <1>2 DEF IsTracker
  <2> QED BY <1>1, <2>1
<1>3. ASSUME NEW s, IsStorage(s) PROVE s # NoStorage
  <2>1. "auth" \in DOMAIN s
    BY <1>3 DEF IsStorage
  <2> QED BY <1>1, <2>1
<1> QED BY <1>2, <1>3

LEMMA BringsType ==
  ASSUME Nc!NcAssumption, NEW a \in Actions \cup {Nc!NoAction}, NEW t
  PROVE  Brings(a, t) \in Int
<1>1. CASE a \in Actions
  BY <1>1, NcConstants DEF Brings
<1>2. CASE a = Nc!NoAction
  <2>1. a.type = "none"
    BY <1>2 DEF Nc!NoAction
  <2> QED BY <2>1 DEF Brings
<1> QED BY <1>1, <1>2

LEMMA NoActionBrings ==
  ASSUME NEW t PROVE Brings(Nc!NoAction, t) = 0
<1>1. PICK a : a = Nc!NoAction
  OBVIOUS
<1>2. a.type = "none"
  BY <1>1 DEF Nc!NoAction
<1> QED BY <1>1, <1>2 DEF Brings

LEMMA OutsideFact ==
  ASSUME NEW t
  PROVE  FromOutside(t) = Brings(main, t) /\ Nc!FromOutside(t) = Brings(main, t)
BY DEF FromOutside, Nc!FromOutside, Brings

-----------------------------------------------------------------------------
(* The operations on a tracker.                                            *)

LEMMA EmptyTrackerFact ==
  ASSUME Nc!NcAssumption
  PROVE  IsTracker(Nc!EmptyTracker) /\ \A t \in AllTokens : Nc!EmptyTracker.diff[t] = 0
<1>1. PICK z : z = [t \in AllTokens |-> 0]
  OBVIOUS
<1>2. z \in [AllTokens -> Int]
  BY <1>1
<1>3. PICK tr : tr = [diff |-> z, granted |-> {}, revoked |-> {}, created |-> {}]
  OBVIOUS
<1>4. tr.diff = z /\ tr.granted = {} /\ tr.revoked = {} /\ tr.created = {}
  BY <1>3
<1>5. IsTracker(tr)
  BY <1>2, <1>3, <1>4 DEF IsTracker
<1>6. Nc!EmptyTracker = tr
  BY <1>1, <1>3, NcConstants DEF Nc!EmptyTracker, Nc!Zero
<1> QED BY <1>1, <1>4, <1>5, <1>6

LEMMA EmptyStorageFact ==
  ASSUME Nc!NcAssumption
  PROVE  IsStorage(Nc!EmptyStorage) /\ \A t \in AllTokens : Nc!EmptyStorage.bal[t] = 0
<1>1. PICK z : z = [t \in AllTokens |-> 0]
  OBVIOUS
<1>2. z \in [AllTokens -> Int]
  BY <1>1
<1>3. PICK s : s = [bal |-> z, auth |-> {}]
  OBVIOUS
<1>4. s.bal = z /\ s.auth = {}
  BY <1>3
<1>5. IsStorage(s)
  BY <1>2, <1>3, <1>4 DEF IsStorage
<1>6. Nc!EmptyStorage = s
  BY <1>1, <1>3, NcConstants DEF Nc!EmptyStorage, Nc!Zero
<1> QED BY <1>1, <1>4, <1>5, <1>6

(* v is the tracker tr with n more of the token t.                         *)
HasMore(v, tr, t, n) ==
    /\ IsTracker(v)
    /\ \A u \in AllTokens : v.diff[u] = IF u = t THEN tr.diff[u] + n ELSE tr.diff[u]

LEMMA AddBalanceFact ==
  ASSUME NEW tr, IsTracker(tr), NEW t \in AllTokens, NEW n \in Int
  PROVE  HasMore(Nc!AddBalance(tr, t, n), tr, t, n)
<1>1. PICK G, R, C : G = tr.granted /\ R = tr.revoked /\ C = tr.created
  OBVIOUS
<1>2. tr \in [diff : [AllTokens -> Int], granted : {G}, revoked : {R}, created : {C}]
  BY <1>1 DEF IsTracker
<1>3. tr.diff \in [AllTokens -> Int]
  BY <1>2
<1>4. PICK d : d = [tr.diff EXCEPT ![t] = tr.diff[t] + n]
  OBVIOUS
<1>5. d \in [AllTokens -> Int]
  BY <1>3, <1>4
<1>6. PICK v : v = [tr EXCEPT !.diff = d]
  OBVIOUS
<1>7. v \in [diff : [AllTokens -> Int], granted : {G}, revoked : {R}, created : {C}]
  BY <1>2, <1>5, <1>6
<1>8. v.diff = d /\ v.granted = G /\ v.revoked = R /\ v.created = C
  BY <1>2, <1>6, <1>7
<1>9. IsTracker(v)
  BY <1>7, <1>8 DEF IsTracker
<1>10. Nc!AddBalance(tr, t, n) = v
  BY <1>4, <1>6 DEF Nc!AddBalance
<1>11. \A u \in AllTokens : d[u] = IF u = t THEN tr.diff[u] + n ELSE tr.diff[u]
  BY <1>3, <1>4
<1> QED BY <1>8, <1>9, <1>10, <1>11 DEF HasMore

(* The other fields do not matter to the balances.                         *)
WithRights(tr, G, R, C) == [tr EXCEPT !.granted = G, !.revoked = R, !.created = C]
SameDiff(v, tr) == IsTracker(v) /\ v.diff = tr.diff

LEMMA WithRightsFact ==
  ASSUME NEW tr, IsTracker(tr), NEW G, NEW R, NEW C
  PROVE  SameDiff(WithRights(tr, G, R, C), tr)
<1>1. PICK D, G1, R1, C1 : D = tr.diff /\ G1 = tr.granted /\ R1 = tr.revoked /\ C1 = tr.created
  OBVIOUS
<1>2. tr \in [diff : [AllTokens -> Int], granted : {G1}, revoked : {R1}, created : {C1}]
  BY <1>1 DEF IsTracker
<1>3. PICK v : v = WithRights(tr, G, R, C)
  OBVIOUS
<1>4. v \in [diff : [AllTokens -> Int], granted : {G}, revoked : {R}, created : {C}]
  BY <1>2, <1>3 DEF WithRights
<1>5. v.granted = G /\ v.revoked = R /\ v.created = C /\ v.diff = tr.diff
  BY <1>2, <1>3, <1>4 DEF WithRights
<1> QED BY <1>3, <1>4, <1>5 DEF IsTracker, SameDiff

LEMMA GrantFact ==
  ASSUME NEW tr, IsTracker(tr), NEW t, NEW rights
  PROVE  SameDiff(Nc!GrantAuthorities(tr, t, rights), tr)
<1>1. PICK G, R, C : /\ G = tr.granted \cup ({t} \X rights) /\ R = tr.revoked \ ({t} \X rights)
                     /\ C = tr.created
  OBVIOUS
<1>2. WithRights(tr, G, R, C) = [tr EXCEPT !.granted = G, !.revoked = R]
  BY <1>1 DEF IsTracker, WithRights
<1>3. WithRights(tr, G, R, C) = Nc!GrantAuthorities(tr, t, rights)
  BY <1>1, <1>2 DEF Nc!GrantAuthorities
<1>4. SameDiff(WithRights(tr, G, R, C), tr)
  BY WithRightsFact
<1> QED BY <1>3, <1>4

LEMMA RevokeFact ==
  ASSUME NEW tr, IsTracker(tr), NEW t, NEW rights
  PROVE  SameDiff(Nc!RevokeAuthorities(tr, t, rights), tr)
<1>1. PICK G, R, C : /\ G = tr.granted \ ({t} \X rights) /\ R = tr.revoked \cup ({t} \X rights)
                     /\ C = tr.created
  OBVIOUS
<1>2. WithRights(tr, G, R, C) = [tr EXCEPT !.granted = G, !.revoked = R]
  BY <1>1 DEF IsTracker, WithRights
<1>3. WithRights(tr, G, R, C) = Nc!RevokeAuthorities(tr, t, rights)
  BY <1>1, <1>2 DEF Nc!RevokeAuthorities
<1>4. SameDiff(WithRights(tr, G, R, C), tr)
  BY WithRightsFact
<1> QED BY <1>3, <1>4

(* A child token is created with all its rights.                           *)
LEMMA CreatedFact ==
  ASSUME NEW tr, IsTracker(tr), NEW t, NEW rights
  PROVE  SameDiff(Nc!GrantAuthorities([tr EXCEPT !.created = @ \cup {t}], t, rights), tr)
<1>1. PICK G, R, C : G = tr.granted /\ R = tr.revoked /\ C = tr.created \cup {t}
  OBVIOUS
<1>2. WithRights(tr, G, R, C) = [tr EXCEPT !.created = C]
  BY <1>1 DEF IsTracker, WithRights
<1>3. PICK v : v = WithRights(tr, G, R, C)
  OBVIOUS
<1>4. SameDiff(v, tr)
  BY <1>3, WithRightsFact
<1>5. SameDiff(Nc!GrantAuthorities(v, t, rights), v)
  BY <1>4, GrantFact DEF SameDiff
<1>6. v = [tr EXCEPT !.created = @ \cup {t}]
  BY <1>1, <1>2, <1>3
<1> QED BY <1>4, <1>5, <1>6 DEF SameDiff

(* An action moves what it brings from the caller to the callee.           *)
Deposits(v, tr, a) ==
    IsTracker(v) /\ \A t \in AllTokens : v.diff[t] = tr.diff[t] + Brings(a, t)
Pays(v, tr, a) ==
    IsTracker(v) /\ \A t \in AllTokens : v.diff[t] = tr.diff[t] - Brings(a, t)

LEMMA ActionAmounts ==
  ASSUME Nc!NcAssumption, NEW a \in Actions
  PROVE  \/ /\ a.type \notin {"deposit", "withdrawal"}
            /\ \A t : Brings(a, t) = 0
         \/ \E k \in AllTokens, n \in Int :
               /\ a.token = k /\ a.amount = n
               /\ \/ a.type = "deposit" /\ \A t : Brings(a, t) = IF t = k THEN n ELSE 0
                  \/ a.type = "withdrawal" /\ \A t : Brings(a, t) = IF t = k THEN -n ELSE 0
<1>1. CASE a.type \notin {"deposit", "withdrawal"}
  BY <1>1 DEF Brings
<1>2. CASE a.type \in {"deposit", "withdrawal"}
  <2>1. a.token \in AllTokens /\ a.amount \in Int
    BY <1>2, NcConstants
  <2>2. PICK k \in AllTokens, n \in Int : a.token = k /\ a.amount = n
    BY <2>1
  <2> QED BY <1>2, <2>2 DEF Brings
<1> QED BY <1>1, <1>2

LEMMA CalleeFact ==
  ASSUME Nc!NcAssumption, NEW a \in Actions, NEW tr, IsTracker(tr)
  PROVE  Deposits(Nc!CalleeRule(tr, a), tr, a)
<1>1. \A t \in AllTokens : tr.diff[t] \in Int
  BY DEF IsTracker
<1>2. PICK v : v = Nc!CalleeRule(tr, a)
  OBVIOUS
<1>3. CASE a.type \notin {"deposit", "withdrawal"} /\ \A t : Brings(a, t) = 0
  <2>1. v = tr \/ v = Nc!GrantAuthorities(tr, a.token, a.rights)
    BY <1>2, <1>3 DEF Nc!CalleeRule
  <2>2. SameDiff(v, tr)
    BY <2>1, GrantFact DEF SameDiff
  <2> QED BY <1>1, <1>2, <1>3, <2>2 DEF SameDiff, Deposits
<1>4. ASSUME NEW k \in AllTokens, NEW n \in Int, a.token = k, a.amount = n,
             a.type = "deposit", \A t : Brings(a, t) = IF t = k THEN n ELSE 0
      PROVE  Deposits(v, tr, a)
  <2>1. v = Nc!AddBalance(tr, k, n)
    BY <1>2, <1>4 DEF Nc!CalleeRule
  <2>2. HasMore(v, tr, k, n)
    BY <2>1, AddBalanceFact
  <2> QED BY <1>1, <1>4, <2>2 DEF HasMore, Deposits
<1>5. ASSUME NEW k \in AllTokens, NEW n \in Int, a.token = k, a.amount = n,
             a.type = "withdrawal", \A t : Brings(a, t) = IF t = k THEN -n ELSE 0
      PROVE  Deposits(v, tr, a)
  <2>1. PICK m \in Int : m = -n
    OBVIOUS
  <2>2. v = Nc!AddBalance(tr, k, m)
    BY <1>2, <1>5, <2>1 DEF Nc!CalleeRule
  <2>3. HasMore(v, tr, k, m)
    BY <2>2, AddBalanceFact
  <2> QED BY <1>1, <1>5, <2>1, <2>3 DEF HasMore, Deposits
<1> QED BY <1>2, <1>3, <1>4, <1>5, ActionAmounts

LEMMA CallerFact ==
  ASSUME Nc!NcAssumption, NEW a \in Actions, NEW tr, IsTracker(tr)
  PROVE  Pays(Nc!CallerRule(tr, a), tr, a)
<1>1. \A t \in AllTokens : tr.diff[t] \in Int
  BY DEF IsTracker
<1>2. PICK v : v = Nc!CallerRule(tr, a)
  OBVIOUS
<1>3. CASE a.type \notin {"deposit", "withdrawal"} /\ \A t : Brings(a, t) = 0
  <2>1. v = tr \/ v = Nc!GrantAuthorities(tr, a.token, a.rights)
    BY <1>2, <1>3 DEF Nc!CallerRule
  <2>2. SameDiff(v, tr)
    BY <2>1, GrantFact DEF SameDiff
  <2> QED BY <1>1, <1>2, <1>3, <2>2 DEF SameDiff, Pays
<1>4. ASSUME NEW k \in AllTokens, NEW n \in Int, a.token = k, a.amount = n,
             a.type = "deposit", \A t : Brings(a, t) = IF t = k THEN n ELSE 0
      PROVE  Pays(v, tr, a)
  <2>1. PICK m \in Int : m = -n
    OBVIOUS
  <2>2. v = Nc!AddBalance(tr, k, m)
    BY <1>2, <1>4, <2>1 DEF Nc!CallerRule
  <2>3. HasMore(v, tr, k, m)
    BY <2>2, AddBalanceFact
  <2> QED BY <1>1, <1>4, <2>1, <2>3 DEF HasMore, Pays
<1>5. ASSUME NEW k \in AllTokens, NEW n \in Int, a.token = k, a.amount = n,
             a.type = "withdrawal", \A t : Brings(a, t) = IF t = k THEN -n ELSE 0
      PROVE  Pays(v, tr, a)
  <2>1. v = Nc!AddBalance(tr, k, n)
    BY <1>2, <1>5 DEF Nc!CallerRule
  <2>2. HasMore(v, tr, k, n)
    BY <2>1, AddBalanceFact
  <2> QED BY <1>1, <1>5, <2>2 DEF HasMore, Pays
<1> QED BY <1>2, <1>3, <1>4, <1>5, ActionAmounts

-----------------------------------------------------------------------------
(* The totals.                                                             *)

(* The book e is d with n more of the token t.                             *)
BookMore(e, d, t, n) ==
    IsBook(e) /\ \A u \in AllTokens : At(e, u) = IF u = t THEN At(d, u) + n ELSE At(d, u)

LEMMA PlusFact ==
  ASSUME NEW d, IsBook(d), NEW t \in AllTokens, NEW n \in Int
  PROVE  BookMore(Nc!Plus(d, t, n), d, t, n)
<1>1. PICK e : e = Nc!Plus(d, t, n)
  OBVIOUS
<1>2. e = [u \in DOMAIN d \cup {t} |->
              (IF u \in DOMAIN d THEN d[u] ELSE 0) + (IF u = t THEN n ELSE 0)]
  BY <1>1 DEF Nc!Plus
<1>3. ASSUME NEW u \in AllTokens
      PROVE  At(e, u) = (IF u = t THEN At(d, u) + n ELSE At(d, u)) /\ At(e, u) \in Int
  <2>1. At(d, u) \in Int
    BY DEF IsBook
  <2>2. CASE u \in DOMAIN d \cup {t}
    <3>1. At(e, u) = At(d, u) + (IF u = t THEN n ELSE 0)
      BY <1>2, <2>2 DEF At
    <3> QED BY <2>1, <3>1
  <2>3. CASE u \notin DOMAIN d \cup {t}
    <3>1. At(e, u) = 0 /\ At(d, u) = 0 /\ u # t
      BY <1>2, <2>3 DEF At
    <3> QED BY <3>1
  <2> QED BY <2>2, <2>3
<1> QED BY <1>1, <1>3 DEF BookMore, IsBook

(* The changes of a token t and of HTR are booked together.                *)
Updated(d, t, n, h) == Nc!Plus(Nc!Plus(d, t, n), Htr, h)
BookedBoth(e, d, t, n, h) ==
    /\ IsBook(e)
    /\ \A u \in Tokens : At(e, u) = IF u = t THEN At(d, u) + n ELSE At(d, u)
    /\ At(e, Htr) = At(d, Htr) + h

LEMMA UpdatedFact ==
  ASSUME Nc!NcAssumption, NEW d, IsBook(d), NEW t \in Tokens, NEW n \in Int, NEW h \in Int
  PROVE  BookedBoth(Updated(d, t, n, h), d, t, n, h)
<1>1. t \in AllTokens /\ Htr \in AllTokens /\ t # Htr /\ Tokens \subseteq AllTokens /\ Htr \notin Tokens
  BY NcConstants DEF AllTokens
<1>2. PICK e : e = Nc!Plus(d, t, n)
  OBVIOUS
<1>3. BookMore(e, d, t, n)
  BY <1>1, <1>2, PlusFact
<1>4. PICK k : k = Nc!Plus(e, Htr, h)
  OBVIOUS
<1>5. BookMore(k, e, Htr, h)
  <2>1. IsBook(e)
    BY <1>3 DEF BookMore
  <2> QED BY <1>1, <1>4, <2>1, PlusFact
<1>6. At(k, Htr) = At(d, Htr) + h
  BY <1>1, <1>3, <1>5 DEF BookMore
<1>7. ASSUME NEW u \in Tokens PROVE At(k, u) = IF u = t THEN At(d, u) + n ELSE At(d, u)
  BY <1>1, <1>3, <1>5 DEF BookMore
<1>8. k = Updated(d, t, n, h)
  BY <1>2, <1>4 DEF Updated
<1>9. IsBook(k)
  BY <1>5 DEF BookMore
<1> QED BY <1>6, <1>7, <1>8, <1>9 DEF BookedBoth

(* What is booked is paid for: the deposit is rounded up, what melting     *)
(* returns is rounded down.                                                *)
LEMMA DepositCovers ==
  ASSUME Nc!NcAssumption, NEW n \in Nat
  PROVE  Nc!GetDepositAmount(n) \in Int /\ n <= Unit * Nc!GetDepositAmount(n)
<1>1. Unit \in Nat \ {0}
  BY NcConstants
<1>2. PICK q : q = (n + Unit - 1) \div Unit
  OBVIOUS
<1>3. q \in Int
  BY <1>1, <1>2
<1>4. n <= Unit * q
  BY <1>1, <1>2
<1> QED BY <1>2, <1>3, <1>4 DEF Nc!GetDepositAmount

LEMMA WithdrawIsCovered ==
  ASSUME Nc!NcAssumption, NEW n \in Nat
  PROVE  Nc!GetWithdrawAmount(n) \in Int /\ Unit * Nc!GetWithdrawAmount(n) <= n
<1>1. Unit \in Nat \ {0}
  BY NcConstants
<1>2. PICK q : q = n \div Unit
  OBVIOUS
<1>3. q \in Int
  BY <1>1, <1>2
<1>4. Unit * q <= n
  BY <1>1, <1>2
<1> QED BY <1>2, <1>3, <1>4 DEF Nc!GetWithdrawAmount

LEMMA PaidArithmetic ==
  ASSUME NEW u \in Int, NEW x \in Int, NEW h \in Int, NEW s \in Int, NEW n \in Int,
         s <= -(u * x), n <= -(u * h)
  PROVE  s + n <= -(u * (x + h))
OBVIOUS

LEMMA CoveredStep ==
  ASSUME Nc!NcAssumption, NEW d, Covered(d), NEW t \in Tokens, NEW n \in Int, NEW h \in Int,
         n <= -(Unit * h), NEW e, BookedBoth(e, d, t, n, h)
  PROVE  Covered(e)
<1>1. IsFiniteSet(Tokens) /\ Unit \in Int
  BY NcConstants
<1>2. IsBook(d) /\ IsBook(e) /\ Tokens \subseteq AllTokens /\ Htr \in AllTokens
  BY DEF Covered, BookedBoth, AllTokens
<1>3. /\ [u \in Tokens |-> At(d, u)] \in [Tokens -> Int]
      /\ [u \in Tokens |-> At(e, u)] \in [Tokens -> Int]
      /\ At(d, Htr) \in Int
  BY <1>2 DEF IsBook
<1>4. PICK f \in [Tokens -> Int] : f = [u \in Tokens |-> At(d, u)]
  BY <1>3
<1>5. PICK g \in [Tokens -> Int] : g = [u \in Tokens |-> At(e, u)]
  BY <1>3
<1>6. \A u \in Tokens : g[u] = IF u = t THEN f[u] + n ELSE f[u]
  BY <1>4, <1>5 DEF BookedBoth
<1>7. SumOf(g) = SumOf(f) + n
  BY <1>1, <1>6, SumChange
<1>8. SumOf(f) \in Int /\ SumOf(f) <= -(Unit * At(d, Htr))
  BY <1>1, <1>4, SumType DEF Covered
<1>9. PICK s \in Int : s = SumOf(f)
  BY <1>8
<1>10. PICK x \in Int : x = At(d, Htr)
  BY <1>3
<1>11. s + n <= -(Unit * (x + h))
  BY <1>1, <1>8, <1>9, <1>10, PaidArithmetic
<1>12. SumOf(g) <= -(Unit * At(e, Htr))
  BY <1>7, <1>9, <1>10, <1>11 DEF BookedBoth
<1> QED BY <1>2, <1>5, <1>12 DEF Covered

LEMMA EmptyBook ==
  ASSUME Nc!NcAssumption
  PROVE  Covered(<<>>) /\ IsBook(<<>>) /\ \A t : At(<<>>, t) = 0
<1>1. \A t : At(<<>>, t) = 0
  BY DEF At
<1>2. IsBook(<<>>)
  BY <1>1 DEF IsBook
<1>3. PICK f : f = [t \in Tokens |-> At(<<>>, t)]
  OBVIOUS
<1>4. f = [t \in Tokens |-> 0]
  BY <1>1, <1>3
<1>5. SumOf(f) = 0
  BY <1>4, SumZero, NcConstants
<1>6. Unit * At(<<>>, Htr) = 0
  BY <1>1, NcConstants
<1> QED BY <1>1, <1>2, <1>3, <1>5, <1>6 DEF Covered

-----------------------------------------------------------------------------
(* The trackers of all contracts.                                          *)

LEMMA DiffOfType ==
  ASSUME NEW ss, NEW b, NEW tk, Sound(ss, b, tk), NEW t \in AllTokens
  PROVE  \A c \in Contracts : DiffOf(tk[c], t) \in Int /\ BalOf(b[c], t) \in Int
<1>1. ASSUME NEW c \in Contracts PROVE DiffOf(tk[c], t) \in Int /\ BalOf(b[c], t) \in Int
  <2>1. SoundContract(ss[c], b[c], tk[c])
    BY DEF Sound
  <2>2. DiffOf(tk[c], t) \in Int
    BY <2>1 DEF SoundContract, IsTracker, DiffOf
  <2>3. BalOf(b[c], t) \in Int
    BY <2>1 DEF SoundContract, IsStorage, BalOf
  <2> QED BY <2>2, <2>3
<1> QED BY <1>1

(* Two sets of trackers: tk2 is tk with another tracker of c.              *)
Replaced(tk2, tk, c) ==
    /\ tk2 = [x \in Contracts |-> tk2[x]]
    /\ IsTracker(tk2[c]) /\ \A x \in Contracts \ {c} : tk2[x] = tk[x]

LEMMA ReplacedFact ==
  ASSUME NEW tk, tk = [x \in Contracts |-> tk[x]], NEW c \in Contracts, NEW v, IsTracker(v)
  PROVE  /\ Replaced([tk EXCEPT ![c] = v], tk, c)
         /\ [tk EXCEPT ![c] = v][c] = v
BY DEF Replaced

(* In tk2 the contract c has n more of the token t than in tk.             *)
Gains(tk2, tk, c, t, n) == n \in Int /\ DiffOf(tk2[c], t) = DiffOf(tk[c], t) + n

LEMMA DiffSumChange ==
  ASSUME Nc!NcAssumption, NEW ss, NEW b, NEW tk, Sound(ss, b, tk), NEW c \in Contracts,
         NEW tk2, Replaced(tk2, tk, c), NEW t \in AllTokens, NEW n,
         Gains(tk2, tk, c, t, n)
  PROVE  DiffSum(tk2, t) = DiffSum(tk, t) + n /\ DiffSum(tk, t) \in Int
<1>1. IsFiniteSet(Contracts)
  BY NcConstants
<1>2. n \in Int /\ \A x \in Contracts : DiffOf(tk[x], t) \in Int
  BY DiffOfType DEF Gains
<1>3. \A x \in Contracts :
        DiffOf(tk2[x], t) = IF x = c THEN DiffOf(tk[x], t) + n ELSE DiffOf(tk[x], t)
  BY DEF Replaced, Gains
<1>4. \A x \in Contracts : DiffOf(tk2[x], t) \in Int
  BY <1>2, <1>3
<1>5. /\ [x \in Contracts |-> DiffOf(tk[x], t)] \in [Contracts -> Int]
      /\ [x \in Contracts |-> DiffOf(tk2[x], t)] \in [Contracts -> Int]
  BY <1>2, <1>4
<1>6. PICK f \in [Contracts -> Int] : f = [x \in Contracts |-> DiffOf(tk[x], t)]
  BY <1>5
<1>7. PICK d \in [Contracts -> Int] : d = [x \in Contracts |-> DiffOf(tk2[x], t)]
  BY <1>5
<1>8. \A x \in Contracts : d[x] = IF x = c THEN f[x] + n ELSE f[x]
  BY <1>3, <1>6, <1>7
<1>9. SumOf(d) = SumOf(f) + n
  BY <1>1, <1>2, <1>8, SumChange
<1>10. SumOf(f) \in Int
  BY <1>1, SumType
<1> QED BY <1>6, <1>7, <1>9, <1>10 DEF DiffSum

(* A storage of the runner for a contract that is b in the block.          *)
GoodStorage(s, b) == IsStorage(s) /\ \A t \in AllTokens : s.bal[t] = BalOf(b, t)

LEMMA SoundStep ==
  ASSUME NEW ss, NEW b, NEW tk, Sound(ss, b, tk), NEW c \in Contracts,
         NEW tk2, Replaced(tk2, tk, c), NEW s, GoodStorage(s, b[c])
  PROVE  Sound([ss EXCEPT ![c] = s], b, tk2)
<1>1. PICK s2 : s2 = [ss EXCEPT ![c] = s]
  OBVIOUS
<1>2. s2 = [x \in Contracts |-> s2[x]] /\ s2[c] = s /\ \A x \in Contracts \ {c} : s2[x] = ss[x]
  BY <1>1 DEF Sound
<1>3. s # NoStorage
  BY Distinct DEF GoodStorage
<1>4. ASSUME NEW x \in Contracts PROVE SoundContract(s2[x], b[x], tk2[x])
  <2>1. SoundContract(ss[x], b[x], tk[x])
    BY DEF Sound
  <2>2. CASE x = c
    BY <1>2, <1>3, <2>1, <2>2 DEF SoundContract, Replaced, GoodStorage
  <2>3. CASE x # c
    BY <1>2, <2>1, <2>3 DEF Replaced
  <2> QED BY <2>2, <2>3
<1> QED BY <1>1, <1>2, <1>4 DEF Sound, Replaced

(* A tracker of a contract that has one is replaced.                       *)
LEMMA SoundTracker ==
  ASSUME NEW ss, NEW b, NEW tk, Sound(ss, b, tk), NEW c \in Contracts, tk[c] # Untracked,
         NEW tk2, Replaced(tk2, tk, c)
  PROVE  Sound(ss, b, tk2)
<1>1. ASSUME NEW x \in Contracts PROVE SoundContract(ss[x], b[x], tk2[x])
  <2>1. SoundContract(ss[x], b[x], tk[x])
    BY DEF Sound
  <2>2. CASE x = c
    BY <2>1, <2>2 DEF SoundContract, Replaced
  <2>3. CASE x # c
    BY <2>1, <2>3 DEF Replaced
  <2> QED BY <2>2, <2>3
<1> QED BY <1>1 DEF Sound, Replaced

LEMMA StorageFact ==
  ASSUME Sound(storages, block, trackers), NEW c \in Contracts,
         Nc!HasContractBeenInitialized(c)
  PROVE  GoodStorage(Nc!GetStorage(c), block[c])
<1>1. SoundContract(storages[c], block[c], trackers[c])
  BY DEF Sound
<1>2. CASE storages[c] # NoStorage
  BY <1>1, <1>2, NcNames DEF Nc!GetStorage, SoundContract, GoodStorage
<1>3. CASE storages[c] = NoStorage
  <2>1. block[c] # NoStorage /\ Nc!GetStorage(c) = block[c]
    BY <1>3, NcNames DEF Nc!GetStorage, Nc!HasContractBeenInitialized
  <2> QED BY <1>1, <2>1 DEF SoundContract, GoodStorage, BalOf
<1> QED BY <1>2, <1>3

LEMMA NewStorageFact ==
  ASSUME Nc!NcAssumption, Sound(storages, block, trackers), NEW c \in Contracts,
         ~Nc!HasContractBeenInitialized(c)
  PROVE  GoodStorage(Nc!EmptyStorage, block[c]) /\ trackers[c] = Untracked
<1>1. storages[c] = NoStorage /\ block[c] = NoStorage
  BY NcNames DEF Nc!HasContractBeenInitialized
<1>2. SoundContract(storages[c], block[c], trackers[c])
  BY DEF Sound
<1>3. \A t \in AllTokens : BalOf(block[c], t) = 0
  BY <1>1 DEF BalOf
<1> QED BY <1>1, <1>2, <1>3, EmptyStorageFact DEF GoodStorage, SoundContract

(* A call is pushed on the stack.                                          *)
Frame(c, isView) == [contract |-> c, view |-> isView]

LEMMA FramedPush ==
  ASSUME NEW st, NEW tk, NEW rec, NEW mn, Framed(st, tk, rec, mn), NEW c \in Contracts,
         NEW isView \in BOOLEAN, NEW tk2, tk2[c] # Untracked,
         \A x \in Contracts : tk[x] # Untracked => tk2[x] # Untracked,
         NEW mn2 \in Actions \cup {Nc!NoAction}
  PROVE  Framed(Append(st, Frame(c, isView)), tk2, rec, mn2)
<1>1. PICK S : S = [contract : Contracts, view : BOOLEAN]
  OBVIOUS
<1>2. PICK r : r = Frame(c, isView)
  OBVIOUS
<1>3. r \in S /\ r.contract = c
  BY <1>1, <1>2 DEF Frame
<1>4. st \in Seq(S) /\ \A i \in DOMAIN st : tk[st[i].contract] # Untracked
  BY <1>1 DEF Framed
<1>5. \A q \in S : q.contract \in Contracts
  BY <1>1
<1>6. PICK s2 : s2 = Append(st, r)
  OBVIOUS
<1>7. s2 \in Seq(S) /\ s2 # <<>>
  BY <1>3, <1>4, <1>6
<1>8. ASSUME NEW i \in DOMAIN s2 PROVE tk2[s2[i].contract] # Untracked
  <2>1. i \in 1 .. Len(st) + 1 /\ (i \in DOMAIN st => s2[i] = st[i] /\ st[i] \in S) /\ (i = Len(st) + 1 => s2[i] = r)
    BY <1>3, <1>4, <1>6
  <2>2. CASE i \in DOMAIN st
    BY <1>4, <1>5, <2>1, <2>2
  <2>3. CASE i = Len(st) + 1
    BY <1>3, <2>1, <2>3
  <2> QED BY <1>4, <2>1, <2>2, <2>3
<1> QED BY <1>1, <1>2, <1>6, <1>7, <1>8 DEF Framed

LEMMA FramedSame ==
  ASSUME NEW st, NEW tk, NEW rec, NEW mn, Framed(st, tk, rec, mn), st # <<>>,
         NEW tk2, \A x \in Contracts : tk[x] # Untracked => tk2[x] # Untracked, NEW rec2
  PROVE  Framed(st, tk2, rec2, mn)
<1>1. PICK S : S = [contract : Contracts, view : BOOLEAN]
  OBVIOUS
<1>2. st \in Seq(S) /\ \A i \in DOMAIN st : tk[st[i].contract] # Untracked
  BY <1>1 DEF Framed
<1>3. \A q \in S : q.contract \in Contracts
  BY <1>1
<1>4. \A i \in DOMAIN st : st[i] \in S
  BY <1>2
<1>5. \A i \in DOMAIN st : tk2[st[i].contract] # Untracked
  BY <1>2, <1>3, <1>4
<1> QED BY <1>1, <1>2, <1>5 DEF Framed

LEMMA CurrentFact ==
  ASSUME Framed(stack, trackers, recorded, main), stack # <<>>
  PROVE  Nc!Current.contract \in Contracts /\ trackers[Nc!Current.contract] # Untracked
<1>1. PICK S : S = [contract : Contracts, view : BOOLEAN]
  OBVIOUS
<1>2. stack \in Seq(S) /\ \A i \in DOMAIN stack : trackers[stack[i].contract] # Untracked
  BY <1>1 DEF Framed
<1>3. Len(stack) \in DOMAIN stack /\ stack[Len(stack)] \in S
  BY <1>2
<1> QED BY <1>1, <1>2, <1>3 DEF Nc!Current

-----------------------------------------------------------------------------
(* One step of the runner.                                                 *)

LEMMA ResetHolds ==
  ASSUME Nc!NcAssumption, NEW ss, NEW b, NEW tk, Sound(ss, b, tk)
  PROVE  /\ Sound(ss, b, [c \in Contracts |-> Untracked])
         /\ Framed(<<>>, [c \in Contracts |-> Untracked], <<>>, Nc!NoAction)
         /\ Diffed([c \in Contracts |-> Untracked], <<>>, Nc!NoAction)
<1>1. PICK z : z = [c \in Contracts |-> Untracked]
  OBVIOUS
<1>2. z = [c \in Contracts |-> z[c]] /\ \A c \in Contracts : z[c] = Untracked
  BY <1>1
<1>3. Sound(ss, b, z)
  BY <1>2 DEF Sound, SoundContract
<1>4. Framed(<<>>, z, <<>>, Nc!NoAction)
  BY <1>2 DEF Framed
<1>5. ASSUME NEW t \in AllTokens PROVE DiffSum(z, t) = At(<<>>, t) + Brings(Nc!NoAction, t)
  <2>1. PICK f : f = [c \in Contracts |-> DiffOf(z[c], t)]
    OBVIOUS
  <2>2. f = [c \in Contracts |-> 0]
    BY <1>2, <2>1 DEF DiffOf
  <2>3. SumOf(f) = 0
    BY <2>2, SumZero, NcConstants
  <2> QED BY <2>1, <2>3, EmptyBook, NoActionBrings DEF DiffSum
<1> QED BY <1>1, <1>3, <1>4, <1>5, EmptyBook DEF Diffed

LEMMA ResetStep ==
  ASSUME Nc!NcAssumption, Nc!ResetAllChangeTrackers,
         Sound(storages', block', trackers), Covered(totals'), Balanced(block', net')
  PROVE  NcInv'
<1>1. /\ stack' = <<>> /\ trackers' = [c \in Contracts |-> Untracked]
      /\ recorded' = <<>> /\ main' = Nc!NoAction
  BY NcNames DEF Nc!ResetAllChangeTrackers
<1>2. /\ Sound(storages', block', trackers') /\ Framed(stack', trackers', recorded', main')
      /\ Diffed(trackers', recorded', main')
  BY <1>1, ResetHolds
<1> QED BY <1>2 DEF NcInv

(* A first call.                                                           *)
LEMMA FirstCallStep ==
  ASSUME Nc!NcAssumption, NcInv, NEW c \in Contracts, NEW s, GoodStorage(s, block[c]),
         NEW isView \in BOOLEAN, NEW mn \in Actions \cup {Nc!NoAction}, NEW v, IsTracker(v),
         \A t \in AllTokens : v.diff[t] = Brings(mn, t),
         stack = <<>>, storages' = [storages EXCEPT ![c] = s],
         trackers' = [trackers EXCEPT ![c] = v], stack' = Append(stack, Frame(c, isView)),
         main' = mn, UNCHANGED <<block, totals, recorded, net>>
  PROVE  NcInv'
<1>1. /\ Sound(storages, block, trackers) /\ Framed(stack, trackers, recorded, main)
      /\ Diffed(trackers, recorded, main)
  BY DEF NcInv
<1>2. Replaced(trackers', trackers, c) /\ trackers'[c] = v
  BY <1>1, ReplacedFact DEF Sound
<1>3. v # Untracked
  BY Distinct
<1>4. Sound(storages', block', trackers')
  BY <1>1, <1>2, SoundStep
<1>5. Framed(stack', trackers', recorded', main')
  <2>1. \A x \in Contracts : trackers[x] # Untracked => trackers'[x] # Untracked
    BY <1>2, <1>3 DEF Replaced
  <2> QED BY <1>1, <1>2, <1>3, <2>1, FramedPush
<1>6. ASSUME NEW t \in AllTokens PROVE DiffSum(trackers', t) = At(recorded, t) + Brings(mn, t)
  <2>1. DiffOf(trackers[c], t) = 0 /\ main = Nc!NoAction
    BY <1>1 DEF Framed, DiffOf
  <2>2. Brings(mn, t) \in Int
    BY BringsType
  <2>3. DiffOf(trackers'[c], t) = DiffOf(trackers[c], t) + Brings(mn, t)
    BY <1>2, <1>3, <2>1, <2>2 DEF DiffOf
  <2>4. PICK n \in Int : n = Brings(mn, t)
    BY <2>2
  <2>5. DiffSum(trackers', t) = DiffSum(trackers, t) + n
    <3>1. Gains(trackers', trackers, c, t, n)
      BY <2>3, <2>4 DEF Gains
    <3> QED BY <1>1, <1>2, <3>1, DiffSumChange
  <2>6. DiffSum(trackers, t) = At(recorded, t) + 0 /\ At(recorded, t) \in Int
    BY <1>1, <2>1, NoActionBrings DEF Diffed, IsBook
  <2> QED BY <2>4, <2>5, <2>6
<1>7. Diffed(trackers', recorded', main')
  BY <1>1, <1>6 DEF Diffed
<1> QED BY <1>4, <1>5, <1>7 DEF NcInv

LEMMA EmptyFirst ==
  ASSUME Nc!NcAssumption
  PROVE  \A t \in AllTokens : Nc!EmptyTracker.diff[t] = Brings(Nc!NoAction, t)
BY EmptyTrackerFact, NoActionBrings

LEMMA CalleeFirst ==
  ASSUME Nc!NcAssumption, NEW a \in Actions
  PROVE  /\ IsTracker(Nc!CalleeRule(Nc!EmptyTracker, a))
         /\ \A t \in AllTokens : Nc!CalleeRule(Nc!EmptyTracker, a).diff[t] = Brings(a, t)
<1>1. PICK tr : tr = Nc!EmptyTracker
  OBVIOUS
<1>2. IsTracker(tr) /\ \A t \in AllTokens : tr.diff[t] = 0
  BY <1>1, EmptyTrackerFact
<1>3. Deposits(Nc!CalleeRule(tr, a), tr, a)
  BY <1>2, CalleeFact
<1>4. \A t \in AllTokens : Brings(a, t) \in Int
  BY BringsType
<1> QED BY <1>1, <1>2, <1>3, <1>4 DEF Deposits

LEMMA PublicCallStep ==
  ASSUME Nc!NcAssumption, NcInv, NEW c \in Contracts, NEW a \in Actions,
         Nc!CallPublicMethod(c, a) \/ Nc!CreateContract(c, a)
  PROVE  NcInv'
<1>1. Sound(storages, block, trackers)
  BY DEF NcInv
<1>2. PICK s : /\ GoodStorage(s, block[c]) /\ storages' = [storages EXCEPT ![c] = s]
               /\ \E auth : Nc!ExecutePublicMethodCall(c, a, auth)
  BY <1>1, StorageFact, NewStorageFact DEF Nc!CallPublicMethod, Nc!CreateContract
<1>3. PICK v : v = Nc!CalleeRule(Nc!EmptyTracker, a)
  OBVIOUS
<1>4. IsTracker(v) /\ \A t \in AllTokens : v.diff[t] = Brings(a, t)
  BY <1>3, CalleeFirst
<1>5. /\ stack = <<>> /\ trackers' = [trackers EXCEPT ![c] = v]
      /\ stack' = Append(stack, Frame(c, FALSE)) /\ main' = a
      /\ UNCHANGED <<block, totals, recorded, net>>
  BY <1>2, <1>3 DEF Nc!ExecutePublicMethodCall, Nc!PreCall, Nc!CallPublicMethod,
                    Nc!CreateContract, Frame
<1>6. FALSE \in BOOLEAN
  BY Zenon
<1>7. a \in Actions \cup {Nc!NoAction}
  OBVIOUS
<1> QED BY <1>2, <1>4, <1>5, <1>6, <1>7, FirstCallStep

LEMMA FirstViewStep ==
  ASSUME Nc!NcAssumption, NcInv, NEW c \in Contracts, Nc!CallViewMethod(c)
  PROVE  NcInv'
<1>1. Sound(storages, block, trackers) /\ Framed(stack, trackers, recorded, main)
  BY DEF NcInv
<1>2. PICK s : s = Nc!GetStorage(c)
  OBVIOUS
<1>3. GoodStorage(s, block[c]) /\ storages' = [storages EXCEPT ![c] = s]
  BY <1>1, <1>2, StorageFact DEF Nc!CallViewMethod
<1>4. PICK v : v = Nc!EmptyTracker
  OBVIOUS
<1>5. PICK mn \in Actions \cup {Nc!NoAction} : mn = Nc!NoAction
  OBVIOUS
<1>6. IsTracker(v) /\ \A t \in AllTokens : v.diff[t] = Brings(mn, t)
  BY <1>4, <1>5, EmptyTrackerFact, EmptyFirst
<1>7. stack = <<>> /\ UNCHANGED <<block, totals, recorded, net, main>>
  BY DEF Nc!CallViewMethod
<1>8. main' = mn
  BY <1>1, <1>5, <1>7 DEF Framed
<1>9. trackers' = [trackers EXCEPT ![c] = v] /\ stack' = Append(stack, Frame(c, TRUE))
  BY <1>4 DEF Nc!PreCall, Nc!CallViewMethod, Frame
<1>10. TRUE \in BOOLEAN
  BY Zenon
<1> QED BY <1>3, <1>6, <1>7, <1>8, <1>9, <1>10, FirstCallStep

(* A contract calls another one.                                           *)
LEMMA CalledStep ==
  ASSUME Nc!NcAssumption, NcInv, NEW c \in Contracts, NEW s, GoodStorage(s, block[c]),
         NEW a \in Actions, stack # <<>>, trackers[c] = Untracked,
         NEW cur, cur = Nc!Current.contract,
         storages' = [storages EXCEPT ![c] = s],
         trackers' = [trackers EXCEPT ![cur] = Nc!CallerRule(trackers[cur], a),
                                      ![c] = Nc!CalleeRule(Nc!EmptyTracker, a)],
         stack' = Append(stack, Frame(c, FALSE)),
         UNCHANGED <<block, totals, recorded, net, main>>
  PROVE  NcInv'
<1>1. /\ Sound(storages, block, trackers) /\ Framed(stack, trackers, recorded, main)
      /\ Diffed(trackers, recorded, main)
  BY DEF NcInv
<1>2. cur \in Contracts /\ trackers[cur] # Untracked /\ cur # c
  BY <1>1, CurrentFact
<1>3. IsTracker(trackers[cur])
  BY <1>1, <1>2 DEF Sound, SoundContract
<1>4. PICK u : u = Nc!CallerRule(trackers[cur], a)
  OBVIOUS
<1>5. Pays(u, trackers[cur], a)
  BY <1>3, <1>4, CallerFact
<1>6. PICK v : v = Nc!CalleeRule(Nc!EmptyTracker, a)
  OBVIOUS
<1>7. IsTracker(v) /\ \A t \in AllTokens : v.diff[t] = Brings(a, t)
  BY <1>6, CalleeFirst
<1>8. IsTracker(u) /\ u # Untracked /\ v # Untracked
  BY <1>5, <1>7, Distinct DEF Pays
<1>9. PICK tk : tk = [trackers EXCEPT ![cur] = u]
  OBVIOUS
<1>10. Replaced(tk, trackers, cur) /\ tk[cur] = u
  BY <1>1, <1>2, <1>8, <1>9, ReplacedFact DEF Sound
<1>11. tk = [x \in Contracts |-> tk[x]] /\ tk[c] = Untracked
  BY <1>2, <1>10 DEF Replaced
<1>12. trackers' = [tk EXCEPT ![c] = v]
  BY <1>4, <1>6, <1>9
<1>13. Replaced(trackers', tk, c) /\ trackers'[c] = v
  <2>1. PICK tk2 : tk2 = [tk EXCEPT ![c] = v]
    OBVIOUS
  <2>2. tk2 = [x \in Contracts |-> tk2[x]] /\ tk2[c] = v /\ \A x \in Contracts \ {c} : tk2[x] = tk[x]
    BY <1>11, <2>1
  <2>3. Replaced(tk2, tk, c)
    BY <1>7, <2>2 DEF Replaced
  <2> QED BY <1>12, <2>1, <2>2, <2>3
<1>14. Sound(storages, block, tk)
  BY <1>1, <1>2, <1>10, SoundTracker
<1>15. Sound(storages', block', trackers')
  BY <1>13, <1>14, SoundStep
<1>16. \A x \in Contracts : trackers[x] # Untracked => trackers'[x] # Untracked
  BY <1>8, <1>10, <1>13 DEF Replaced
<1>17. Framed(stack', trackers', recorded', main')
  <2>1. FALSE \in BOOLEAN
    BY Zenon
  <2>2. main \in Actions \cup {Nc!NoAction}
    BY <1>1 DEF Framed
  <2>3. trackers'[c] # Untracked
    BY <1>8, <1>13
  <2> QED BY <1>1, <1>16, <2>1, <2>2, <2>3, FramedPush
<1>18. ASSUME NEW t \in AllTokens PROVE DiffSum(trackers', t) = DiffSum(trackers, t)
  <2>1. PICK n \in Int : n = Brings(a, t)
    BY BringsType
  <2>2. PICK m \in Int : m = -n
    OBVIOUS
  <2>3. trackers[cur].diff[t] \in Int
    BY <1>3 DEF IsTracker
  <2>4. u.diff[t] = trackers[cur].diff[t] - n
    BY <1>5, <2>1 DEF Pays
  <2>5. Gains(tk, trackers, cur, t, m)
    BY <1>2, <1>8, <1>10, <2>2, <2>3, <2>4 DEF Gains, DiffOf
  <2>6. DiffSum(tk, t) = DiffSum(trackers, t) + m /\ DiffSum(trackers, t) \in Int
    BY <1>1, <1>2, <1>10, <2>5, DiffSumChange
  <2>7. DiffOf(tk[c], t) = 0 /\ DiffOf(trackers'[c], t) = n
    BY <1>7, <1>8, <1>11, <1>13, <2>1 DEF DiffOf
  <2>8. Gains(trackers', tk, c, t, n)
    BY <2>7 DEF Gains
  <2>9. DiffSum(trackers', t) = DiffSum(tk, t) + n
    BY <1>13, <1>14, <2>8, DiffSumChange
  <2> QED BY <2>2, <2>6, <2>9
<1>19. Diffed(trackers', recorded', main')
  BY <1>1, <1>18 DEF Diffed
<1> QED BY <1>15, <1>17, <1>19 DEF NcInv

LEMMA CallAnotherStep ==
  ASSUME Nc!NcAssumption, NcInv, NEW c \in Contracts, NEW a \in Actions,
         \/ Nc!SyscallCallAnotherContractPublicMethod(c, a)
         \/ Nc!SyscallCreateAnotherContract(c, a)
  PROVE  NcInv'
<1>1. Sound(storages, block, trackers)
  BY DEF NcInv
<1>2. PICK s : /\ GoodStorage(s, block[c]) /\ storages' = [storages EXCEPT ![c] = s]
               /\ trackers[c] = Untracked /\ \E auth : Nc!CallAnother(c, a, auth)
  <2>1. CASE Nc!SyscallCallAnotherContractPublicMethod(c, a)
    <3>1. trackers[c] = Untracked
      BY <2>1, NcNames DEF Nc!SyscallCallAnotherContractPublicMethod, Nc!HasBlueprintId, Nc!Tracked
    <3> QED BY <1>1, <2>1, <3>1, StorageFact DEF Nc!SyscallCallAnotherContractPublicMethod
  <2>2. CASE Nc!SyscallCreateAnotherContract(c, a)
    BY <1>1, <2>2, NewStorageFact DEF Nc!SyscallCreateAnotherContract
  <2> QED BY <2>1, <2>2
<1>3. PICK cur : cur = Nc!Current.contract
  OBVIOUS
<1>4. stack # <<>>
  BY DEF Nc!SyscallCallAnotherContractPublicMethod, Nc!SyscallCreateAnotherContract, Nc!InPublic
<1>5. cur \in Contracts /\ cur # c
  BY <1>2, <1>3, <1>4, CurrentFact DEF NcInv
<1>6. trackers' = [trackers EXCEPT ![cur] = Nc!CallerRule(trackers[cur], a),
                                   ![c] = Nc!CalleeRule(Nc!EmptyTracker, a)]
  BY <1>1, <1>2, <1>3, <1>5 DEF Nc!CallAnother, Sound
<1>7. stack' = Append(stack, Frame(c, FALSE)) /\ UNCHANGED <<block, totals, recorded, net, main>>
  BY <1>2 DEF Nc!CallAnother, Nc!PreCall, Frame
<1> QED BY <1>2, <1>3, <1>4, <1>6, <1>7, CalledStep

LEMMA ViewCallStep ==
  ASSUME Nc!NcAssumption, NcInv, NEW c \in Contracts, Nc!SyscallCallAnotherContractViewMethod(c)
  PROVE  NcInv'
<1>1. /\ Sound(storages, block, trackers) /\ Framed(stack, trackers, recorded, main)
      /\ Diffed(trackers, recorded, main)
  BY DEF NcInv
<1>2. PICK s : s = Nc!GetStorage(c)
  OBVIOUS
<1>3. GoodStorage(s, block[c]) /\ storages' = [storages EXCEPT ![c] = s]
  BY <1>1, <1>2, StorageFact DEF Nc!SyscallCallAnotherContractViewMethod
<1>4. PICK v : v = Nc!EmptyTracker
  OBVIOUS
<1>5. IsTracker(v) /\ v # Untracked /\ \A t \in AllTokens : v.diff[t] = 0
  BY <1>4, EmptyTrackerFact, Distinct
<1>6. UNCHANGED <<block, totals, recorded, net, main>> /\ trackers[c] = Untracked
  BY NcNames DEF Nc!SyscallCallAnotherContractViewMethod, Nc!HasBlueprintId, Nc!Tracked
<1>7. trackers' = [trackers EXCEPT ![c] = v] /\ stack' = Append(stack, Frame(c, TRUE))
  BY <1>4 DEF Nc!PreCall, Nc!SyscallCallAnotherContractViewMethod, Frame
<1>8. Replaced(trackers', trackers, c) /\ trackers'[c] = v
  BY <1>1, <1>5, <1>7, ReplacedFact DEF Sound
<1>9. Sound(storages', block', trackers')
  BY <1>1, <1>3, <1>6, <1>8, SoundStep
<1>10. Framed(stack', trackers', recorded', main')
  <2>1. TRUE \in BOOLEAN
    BY Zenon
  <2>2. main \in Actions \cup {Nc!NoAction}
    BY <1>1 DEF Framed
  <2>3. \A x \in Contracts : trackers[x] # Untracked => trackers'[x] # Untracked
    BY <1>5, <1>8 DEF Replaced
  <2>4. trackers'[c] # Untracked
    BY <1>5, <1>8
  <2> QED BY <1>1, <1>6, <1>7, <2>1, <2>2, <2>3, <2>4, FramedPush
<1>11. ASSUME NEW t \in AllTokens PROVE DiffSum(trackers', t) = DiffSum(trackers, t)
  <2>1. Gains(trackers', trackers, c, t, 0)
    BY <1>5, <1>6, <1>8 DEF Gains, DiffOf
  <2>2. DiffSum(trackers', t) = DiffSum(trackers, t) + 0 /\ DiffSum(trackers, t) \in Int
    BY <1>1, <1>8, <2>1, DiffSumChange
  <2> QED BY <2>2
<1>12. Diffed(trackers', recorded', main')
  BY <1>1, <1>6, <1>11 DEF Diffed
<1> QED BY <1>6, <1>9, <1>10, <1>12 DEF NcInv

(* A contract creates or destroys tokens.                                  *)
LEMMA TrackedUpdate ==
  ASSUME Nc!NcAssumption, NcInv, stack # <<>>, NEW cur, cur = Nc!Current.contract,
         NEW tr, SameDiff(tr, trackers[cur]), NEW t \in Tokens, NEW n \in Int, NEW h \in Int,
         recorded' = Updated(recorded, t, n, h),
         trackers' = [trackers EXCEPT ![cur] = Nc!AddBalance(Nc!AddBalance(tr, t, n), Htr, h)],
         Covered(totals'), UNCHANGED <<block, storages, stack, main, net>>
  PROVE  NcInv'
<1>1. /\ Sound(storages, block, trackers) /\ Framed(stack, trackers, recorded, main)
      /\ Diffed(trackers, recorded, main)
  BY DEF NcInv
<1>2. cur \in Contracts /\ trackers[cur] # Untracked
  BY <1>1, CurrentFact
<1>3. t \in AllTokens /\ Htr \in AllTokens /\ t # Htr /\ AllTokens = Tokens \cup {Htr}
  BY NcConstants DEF AllTokens
<1>4. PICK v : v = Nc!AddBalance(tr, t, n)
  OBVIOUS
<1>5. HasMore(v, tr, t, n)
  BY <1>3, <1>4, AddBalanceFact DEF SameDiff
<1>6. PICK w : w = Nc!AddBalance(v, Htr, h)
  OBVIOUS
<1>7. HasMore(w, v, Htr, h)
  <2>1. IsTracker(v)
    BY <1>5 DEF HasMore
  <2> QED BY <1>3, <1>6, <2>1, AddBalanceFact
<1>8. IsTracker(w) /\ w # Untracked
  BY <1>7, Distinct DEF HasMore
<1>9. Replaced(trackers', trackers, cur) /\ trackers'[cur] = w
  <2>1. trackers' = [trackers EXCEPT ![cur] = w]
    BY <1>4, <1>6
  <2>2. PICK tk2 : tk2 = [trackers EXCEPT ![cur] = w]
    OBVIOUS
  <2>3. Replaced(tk2, trackers, cur) /\ tk2[cur] = w
    BY <1>1, <1>2, <1>8, <2>2, ReplacedFact DEF Sound
  <2> QED BY <2>1, <2>2, <2>3
<1>10. Sound(storages', block', trackers')
  BY <1>1, <1>2, <1>9, SoundTracker
<1>11. Framed(stack', trackers', recorded', main')
  <2>1. \A x \in Contracts : trackers[x] # Untracked => trackers'[x] # Untracked
    BY <1>8, <1>9 DEF Replaced
  <2> QED BY <1>1, <2>1, FramedSame
<1>12. BookedBoth(recorded', recorded, t, n, h)
  BY <1>1, UpdatedFact DEF Diffed
<1>13. \A u \in AllTokens : trackers[cur].diff[u] \in Int /\ tr.diff[u] = trackers[cur].diff[u]
  <2>1. IsTracker(tr) /\ tr.diff = trackers[cur].diff
    BY DEF SameDiff
  <2> QED BY <2>1 DEF IsTracker
<1>14. ASSUME NEW u \in AllTokens, NEW k \in Int, w.diff[u] = tr.diff[u] + k,
              At(recorded', u) = At(recorded, u) + k
       PROVE  DiffSum(trackers', u) = At(recorded', u) + Brings(main, u)
  <2>1. Gains(trackers', trackers, cur, u, k)
    BY <1>2, <1>8, <1>9, <1>13, <1>14 DEF Gains, DiffOf
  <2>2. DiffSum(trackers', u) = DiffSum(trackers, u) + k /\ DiffSum(trackers, u) \in Int
    BY <1>1, <1>2, <1>9, <2>1, DiffSumChange
  <2>3. DiffSum(trackers, u) = At(recorded, u) + Brings(main, u) /\ At(recorded, u) \in Int
    BY <1>1 DEF Diffed, IsBook
  <2>4. Brings(main, u) \in Int
    BY <1>1, BringsType DEF Framed
  <2> QED BY <1>14, <2>2, <2>3, <2>4
<1>15. ASSUME NEW u \in AllTokens PROVE DiffSum(trackers', u) = At(recorded', u) + Brings(main, u)
  <2>1. /\ w.diff[u] = IF u = Htr THEN v.diff[u] + h ELSE v.diff[u]
        /\ v.diff[u] = IF u = t THEN tr.diff[u] + n ELSE tr.diff[u]
        /\ tr.diff[u] \in Int /\ At(recorded, u) \in Int
    BY <1>1, <1>5, <1>7, <1>13 DEF HasMore, Diffed, IsBook
  <2>2. CASE u = t
    <3>1. w.diff[u] = tr.diff[u] + n /\ At(recorded', u) = At(recorded, u) + n
      BY <1>3, <1>12, <2>1, <2>2 DEF BookedBoth
    <3> QED BY <1>14, <3>1
  <2>3. CASE u = Htr
    <3>1. w.diff[u] = tr.diff[u] + h /\ At(recorded', u) = At(recorded, u) + h
      BY <1>3, <1>12, <2>1, <2>3 DEF BookedBoth
    <3> QED BY <1>14, <3>1
  <2>4. CASE u \notin {t, Htr}
    <3>1. PICK z \in Int : z = 0
      OBVIOUS
    <3>2. w.diff[u] = tr.diff[u] + z /\ At(recorded', u) = At(recorded, u) + z
      BY <1>3, <1>12, <2>1, <2>4, <3>1 DEF BookedBoth
    <3> QED BY <1>14, <3>2
  <2> QED BY <2>2, <2>3, <2>4
<1>16. Diffed(trackers', recorded', main')
  BY <1>12, <1>15 DEF Diffed, BookedBoth
<1> QED BY <1>10, <1>11, <1>16 DEF NcInv

LEMMA UpdateTokensStep ==
  ASSUME Nc!NcAssumption, NcInv, Nc!InPublic, NEW tr, SameDiff(tr, trackers[Nc!Current.contract]),
         NEW t \in Tokens, NEW n \in Int, NEW h \in Int, n <= -(Unit * h), Nc!UpdateTokens(tr, t, n, h)
  PROVE  NcInv'
<1>1. PICK cur : cur = Nc!Current.contract
  OBVIOUS
<1>2. stack # <<>>
  BY DEF Nc!InPublic
<1>3. /\ totals' = Updated(totals, t, n, h)
      /\ UNCHANGED <<block, storages, net>>
      /\ \/ /\ recorded' = Updated(recorded, t, n, h)
            /\ trackers' = [trackers EXCEPT ![cur] = Nc!AddBalance(Nc!AddBalance(tr, t, n), Htr, h)]
            /\ UNCHANGED <<stack, main>>
         \/ Nc!ResetAllChangeTrackers
  BY <1>1 DEF Nc!UpdateTokens, Updated
<1>4. Covered(totals')
  <2>1. Covered(totals) /\ IsBook(totals)
    BY DEF NcInv, Covered
  <2>2. BookedBoth(totals', totals, t, n, h)
    BY <1>3, <2>1, UpdatedFact
  <2> QED BY <2>1, <2>2, CoveredStep
<1>5. CASE Nc!ResetAllChangeTrackers
  <2>1. Sound(storages', block', trackers) /\ Balanced(block', net')
    BY <1>3 DEF NcInv
  <2> QED BY <1>4, <1>5, <2>1, ResetStep
<1>6. CASE ~Nc!ResetAllChangeTrackers
  <2>1. SameDiff(tr, trackers[cur])
    BY <1>1
  <2> QED BY <1>1, <1>2, <1>3, <1>4, <1>6, <2>1, TrackedUpdate
<1> QED BY <1>5, <1>6

LEMMA CurrentTracker ==
  ASSUME NcInv, stack # <<>>
  PROVE  IsTracker(trackers[Nc!Current.contract])
<1>1. Sound(storages, block, trackers) /\ Framed(stack, trackers, recorded, main)
  BY DEF NcInv
<1> QED BY <1>1, CurrentFact DEF Sound, SoundContract

LEMMA MintStep ==
  ASSUME Nc!NcAssumption, NcInv, NEW t \in Tokens, NEW n \in Amounts, Nc!SyscallMintTokens(t, n)
  PROVE  NcInv'
<1>1. n \in Nat /\ Unit \in Nat
  BY NcConstants
<1>2. PICK q \in Int : q = Nc!GetDepositAmount(n) /\ n <= Unit * q
  BY <1>1, DepositCovers
<1>3. PICK h \in Int : h = -q
  OBVIOUS
<1>4. n \in Int /\ n <= -(Unit * h)
  BY <1>1, <1>2, <1>3
<1>5. PICK tr : tr = trackers[Nc!Current.contract]
  OBVIOUS
<1>6. Nc!InPublic /\ Nc!UpdateTokens(tr, t, n, h)
  BY <1>2, <1>3, <1>5 DEF Nc!SyscallMintTokens
<1>7. SameDiff(tr, trackers[Nc!Current.contract])
  BY <1>5, <1>6, CurrentTracker DEF SameDiff, Nc!InPublic
<1> QED BY <1>4, <1>6, <1>7, UpdateTokensStep

LEMMA MeltStep ==
  ASSUME Nc!NcAssumption, NcInv, NEW t \in Tokens, NEW n \in Amounts, Nc!SyscallMeltTokens(t, n)
  PROVE  NcInv'
<1>1. n \in Nat /\ Unit \in Nat
  BY NcConstants
<1>2. PICK h \in Int : h = Nc!GetWithdrawAmount(n) /\ Unit * h <= n
  BY <1>1, WithdrawIsCovered
<1>3. PICK m \in Int : m = -n
  BY <1>1
<1>4. m <= -(Unit * h)
  BY <1>1, <1>2, <1>3
<1>5. PICK tr : tr = trackers[Nc!Current.contract]
  OBVIOUS
<1>6. Nc!InPublic /\ Nc!UpdateTokens(tr, t, m, h)
  BY <1>2, <1>3, <1>5 DEF Nc!SyscallMeltTokens
<1>7. SameDiff(tr, trackers[Nc!Current.contract])
  BY <1>5, <1>6, CurrentTracker DEF SameDiff, Nc!InPublic
<1> QED BY <1>4, <1>6, <1>7, UpdateTokensStep

LEMMA CreateTokenStep ==
  ASSUME Nc!NcAssumption, NcInv, NEW n \in Amounts, NEW rights,
         Nc!SyscallCreateChildToken(n, rights)
  PROVE  NcInv'
<1>1. n \in Nat /\ Unit \in Nat
  BY NcConstants
<1>2. PICK q \in Int : q = Nc!GetDepositAmount(n) /\ n <= Unit * q
  BY <1>1, DepositCovers
<1>3. PICK h \in Int : h = -q
  OBVIOUS
<1>4. n \in Int /\ n <= -(Unit * h)
  BY <1>1, <1>2, <1>3
<1>5. ChildToken[Nc!Current.contract] \in Tokens
  BY NcConstants DEF Nc!SyscallCreateChildToken
<1>6. PICK t \in Tokens : t = ChildToken[Nc!Current.contract]
  BY <1>5
<1>7. PICK old : old = trackers[Nc!Current.contract]
  OBVIOUS
<1>8. PICK tr : tr = Nc!GrantAuthorities([old EXCEPT !.created = @ \cup {t}], t, rights)
  OBVIOUS
<1>9. Nc!InPublic /\ Nc!UpdateTokens(tr, t, n, h)
  BY <1>2, <1>3, <1>6, <1>7, <1>8 DEF Nc!SyscallCreateChildToken
<1>10. SameDiff(tr, old)
  BY <1>7, <1>8, <1>9, CurrentTracker, CreatedFact DEF Nc!InPublic
<1> QED BY <1>4, <1>7, <1>9, <1>10, UpdateTokensStep

LEMMA RevokeStep ==
  ASSUME Nc!NcAssumption, NcInv, NEW t, NEW rights, Nc!SyscallRevokeAuthorities(t, rights)
  PROVE  NcInv'
<1>1. /\ Sound(storages, block, trackers) /\ Framed(stack, trackers, recorded, main)
      /\ Diffed(trackers, recorded, main)
  BY DEF NcInv
<1>2. /\ stack # <<>>
      /\ UNCHANGED <<block, storages, totals, stack, recorded, main, net>>
  BY DEF Nc!SyscallRevokeAuthorities, Nc!InPublic
<1>3. PICK cur : cur = Nc!Current.contract
  OBVIOUS
<1>4. cur \in Contracts /\ trackers[cur] # Untracked /\ IsTracker(trackers[cur])
  BY <1>1, <1>2, <1>3, CurrentFact, CurrentTracker
<1>5. PICK w : w = Nc!RevokeAuthorities(trackers[cur], t, rights)
  OBVIOUS
<1>6. SameDiff(w, trackers[cur]) /\ IsTracker(w) /\ w # Untracked
  BY <1>4, <1>5, RevokeFact, Distinct DEF SameDiff
<1>7. trackers' = [trackers EXCEPT ![cur] = w]
  BY <1>1, <1>3, <1>4, <1>5 DEF Nc!SyscallRevokeAuthorities, Sound
<1>8. Replaced(trackers', trackers, cur) /\ trackers'[cur] = w
  <2>1. PICK tk2 : tk2 = [trackers EXCEPT ![cur] = w]
    OBVIOUS
  <2>2. Replaced(tk2, trackers, cur) /\ tk2[cur] = w
    BY <1>1, <1>4, <1>6, <2>1, ReplacedFact DEF Sound
  <2> QED BY <1>7, <2>1, <2>2
<1>9. Sound(storages', block', trackers')
  BY <1>1, <1>2, <1>4, <1>8, SoundTracker
<1>10. Framed(stack', trackers', recorded', main')
  <2>1. \A x \in Contracts : trackers[x] # Untracked => trackers'[x] # Untracked
    BY <1>6, <1>8 DEF Replaced
  <2> QED BY <1>1, <1>2, <2>1, FramedSame
<1>11. ASSUME NEW u \in AllTokens PROVE DiffSum(trackers', u) = DiffSum(trackers, u)
  <2>1. trackers[cur].diff[u] \in Int /\ w.diff[u] = trackers[cur].diff[u]
    BY <1>4, <1>6 DEF SameDiff, IsTracker
  <2>2. Gains(trackers', trackers, cur, u, 0)
    BY <1>4, <1>6, <1>8, <2>1 DEF Gains, DiffOf
  <2>3. DiffSum(trackers', u) = DiffSum(trackers, u) + 0 /\ DiffSum(trackers, u) \in Int
    BY <1>1, <1>4, <1>8, <2>2, DiffSumChange
  <2> QED BY <2>3
<1>12. Diffed(trackers', recorded', main')
  BY <1>1, <1>2, <1>11 DEF Diffed
<1> QED BY <1>2, <1>9, <1>10, <1>12 DEF NcInv

(* The end of a call.                                                      *)
LEMMA PostCallStep ==
  ASSUME NcInv, Nc!PostCall
  PROVE  NcInv'
<1>1. Framed(stack, trackers, recorded, main)
  BY DEF NcInv
<1>2. /\ stack' = SubSeq(stack, 1, Len(stack) - 1) /\ Len(stack) > 1
      /\ UNCHANGED <<block, storages, totals, trackers, recorded, main, net>>
  BY DEF Nc!PostCall
<1>3. PICK S : S = [contract : Contracts, view : BOOLEAN]
  OBVIOUS
<1>4. stack \in Seq(S)
  BY <1>1, <1>3 DEF Framed
<1>5. PICK k \in Nat : k = Len(stack) - 1 /\ k > 0 /\ DOMAIN stack = 1 .. k + 1
  BY <1>2, <1>4
<1>6. PICK s2 : s2 = SubSeq(stack, 1, k)
  OBVIOUS
<1>7. s2 \in Seq(S) /\ Len(s2) = k /\ \A i \in 1 .. k : s2[i] = stack[i]
  BY <1>4, <1>5, <1>6
<1>8. s2 # <<>> /\ DOMAIN s2 = 1 .. k /\ 1 .. k \subseteq DOMAIN stack
  BY <1>5, <1>7
<1>9. \A i \in DOMAIN s2 : trackers[s2[i].contract] # Untracked
  BY <1>1, <1>7, <1>8 DEF Framed
<1>10. Framed(s2, trackers, recorded, main)
  BY <1>1, <1>3, <1>7, <1>8, <1>9 DEF Framed
<1>11. s2 = stack'
  BY <1>2, <1>5, <1>6
<1> QED BY <1>2, <1>10, <1>11 DEF NcInv

(* A call succeeds: the checks of ValidateBalances and the commit.         *)
LEMMA CommittedFact ==
  ASSUME Nc!NcAssumption, NcInv, NEW c \in Contracts, trackers[c] # Untracked,
         Nc!ValidateBalances
  PROVE  /\ IsStorage(Nc!Committed(c))
         /\ \A t \in AllTokens :
              /\ Nc!Committed(c).bal[t] = BalOf(block[c], t) + DiffOf(trackers[c], t)
              /\ Nc!Committed(c).bal[t] >= 0
<1>1. Sound(storages, block, trackers)
  BY DEF NcInv
<1>2. SoundContract(storages[c], block[c], trackers[c])
  BY <1>1 DEF Sound
<1>3. storages[c] # NoStorage /\ Nc!GetStorage(c) = storages[c]
  BY <1>2, NcNames DEF SoundContract, Nc!GetStorage
<1>4. ASSUME NEW t \in AllTokens
      PROVE  /\ Nc!Balance(c, t) = BalOf(block[c], t) + DiffOf(trackers[c], t)
             /\ Nc!Balance(c, t) \in Int /\ Nc!Balance(c, t) >= 0
  <2>1. Nc!Balance(c, t) = storages[c].bal[t] + trackers[c].diff[t]
    BY <1>3 DEF Nc!Balance
  <2>2. storages[c].bal[t] = BalOf(block[c], t)
    BY <1>2, <1>3 DEF SoundContract
  <2>3. trackers[c].diff[t] = DiffOf(trackers[c], t)
    BY DEF DiffOf
  <2>4. BalOf(block[c], t) \in Int /\ DiffOf(trackers[c], t) \in Int
    BY <1>1, DiffOfType
  <2>5. Nc!Balance(c, t) >= 0
    BY NcNames, NcConstants DEF Nc!ValidateBalances, Nc!InTrackers, Nc!Tracked
  <2> QED BY <2>1, <2>2, <2>3, <2>4, <2>5
<1>5. PICK s : s = Nc!Committed(c)
  OBVIOUS
<1>6. PICK f : f = [t \in AllTokens |-> Nc!Balance(c, t)]
  OBVIOUS
<1>7. f \in [AllTokens -> Int]
  BY <1>4, <1>6
<1>8. PICK rights : rights = Nc!Authorities(c)
  OBVIOUS
<1>9. s = [bal |-> f, auth |-> rights]
  BY <1>5, <1>6, <1>8, NcConstants DEF Nc!Committed
<1>10. s.bal = f /\ s.auth = rights
  BY <1>9
<1>11. IsStorage(s)
  BY <1>7, <1>9, <1>10 DEF IsStorage
<1>12. \A t \in AllTokens : s.bal[t] = Nc!Balance(c, t)
  BY <1>6, <1>10
<1> QED BY <1>4, <1>5, <1>11, <1>12

LEMMA BalancedArithmetic ==
  ASSUME NEW u \in Int, NEW x \in Int, NEW y \in Int, NEW z \in Int, NEW o \in Int,
         NEW s \in Int, NEW r \in Int, s <= u * (x - y), r <= -(u * z)
  PROVE  s + r <= u * ((x + o) - (y + (z + o)))
OBVIOUS

(* What the block holds after the commit, and that it is balanced.         *)
LEMMA BalancedStep ==
  ASSUME Nc!NcAssumption, NEW b, NEW b2, NEW nt, NEW nt2 \in [AllTokens -> Int], NEW d, NEW mn \in Actions \cup {Nc!NoAction},
         Balanced(b, nt), Covered(d),
         \A t \in AllTokens : /\ BalSum(b, t) \in Int
                              /\ BalSum(b2, t) = BalSum(b, t) + (At(d, t) + Brings(mn, t))
                              /\ nt2[t] = nt[t] + Brings(mn, t)
  PROVE  Balanced(b2, nt2)
<1>1. IsFiniteSet(Tokens) /\ Unit \in Int /\ Tokens \subseteq AllTokens /\ Htr \in AllTokens
  BY NcConstants DEF AllTokens
<1>2. \A t \in AllTokens : /\ nt[t] \in Int /\ BalSum(b, t) \in Int /\ At(d, t) \in Int
                           /\ Brings(mn, t) \in Int /\ BalSum(b2, t) \in Int /\ nt2[t] \in Int
  BY BringsType DEF Balanced, Covered, IsBook
<1>3. /\ [t \in Tokens |-> BalSum(b, t) - nt[t]] \in [Tokens -> Int]
      /\ [t \in Tokens |-> BalSum(b2, t) - nt2[t]] \in [Tokens -> Int]
      /\ [t \in Tokens |-> At(d, t)] \in [Tokens -> Int]
  BY <1>1, <1>2
<1>4. PICK f \in [Tokens -> Int] : f = [t \in Tokens |-> BalSum(b, t) - nt[t]]
  BY <1>3
<1>5. PICK e \in [Tokens -> Int] : e = [t \in Tokens |-> At(d, t)]
  BY <1>3
<1>6. PICK g \in [Tokens -> Int] : g = [t \in Tokens |-> BalSum(b2, t) - nt2[t]]
  BY <1>3
<1>7. ASSUME NEW t \in Tokens PROVE g[t] = f[t] + e[t]
  <2>1. g[t] = BalSum(b2, t) - nt2[t] /\ f[t] = BalSum(b, t) - nt[t] /\ e[t] = At(d, t)
    BY <1>4, <1>5, <1>6
  <2> QED BY <1>1, <1>2, <2>1
<1>8. SumOf(g) = SumOf(f) + SumOf(e)
  BY <1>1, <1>7, SumAdd
<1>9. SumOf(f) \in Int /\ SumOf(e) \in Int
  BY <1>1, SumType
<1>10. PICK x \in Int, y \in Int, z \in Int, o \in Int, s \in Int, r \in Int :
         /\ x = nt[Htr] /\ y = BalSum(b, Htr) /\ z = At(d, Htr) /\ o = Brings(mn, Htr)
         /\ s = SumOf(f) /\ r = SumOf(e)
  BY <1>1, <1>2, <1>9
<1>11. s <= Unit * (x - y)
  BY <1>4, <1>10 DEF Balanced
<1>12. r <= -(Unit * z)
  BY <1>5, <1>10 DEF Covered
<1>13. s + r <= Unit * ((x + o) - (y + (z + o)))
  BY <1>1, <1>11, <1>12, BalancedArithmetic
<1>14. nt2[Htr] = x + o /\ BalSum(b2, Htr) = y + (z + o)
  BY <1>1, <1>10
<1>15. SumOf(g) <= Unit * (nt2[Htr] - BalSum(b2, Htr))
  BY <1>8, <1>10, <1>13, <1>14
<1> QED BY <1>6, <1>15 DEF Balanced

LEMMA BalSumType ==
  ASSUME Nc!NcAssumption, NEW ss, NEW b, NEW tk, Sound(ss, b, tk), NEW t \in AllTokens
  PROVE  BalSum(b, t) \in Int
<1>1. [c \in Contracts |-> BalOf(b[c], t)] \in [Contracts -> Int]
  BY DiffOfType
<1> QED BY <1>1, SumType, NcConstants DEF BalSum

LEMMA FinishStep ==
  ASSUME Nc!NcAssumption, NcInv, Nc!FinishPublicCall
  PROVE  NcInv'
<1>1. /\ Sound(storages, block, trackers) /\ Framed(stack, trackers, recorded, main)
      /\ Diffed(trackers, recorded, main) /\ Covered(totals) /\ Balanced(block, net)
  BY DEF NcInv
<1>2. /\ Nc!ValidateBalances /\ Nc!CommitAllChangesToStorage /\ Nc!ResetAllChangeTrackers
      /\ totals' = <<>> /\ recorded = totals
  BY DEF Nc!FinishPublicCall, Nc!ValidateBalances
<1>3. /\ storages' = [c \in Contracts |-> IF trackers[c] # Untracked THEN Nc!Committed(c) ELSE storages[c]]
      /\ block' = [c \in Contracts |-> IF trackers[c] # Untracked THEN Nc!Committed(c) ELSE block[c]]
      /\ net' = [t \in AllTokens |-> net[t] + Brings(main, t)]
  BY <1>2, NcNames, NcConstants, OutsideFact DEF Nc!CommitAllChangesToStorage, Nc!Tracked
<1>4. ASSUME NEW c \in Contracts
      PROVE  /\ SoundContract(storages'[c], block'[c], trackers[c])
             /\ \A t \in AllTokens : BalOf(block'[c], t) = BalOf(block[c], t) + DiffOf(trackers[c], t)
  <2>1. SoundContract(storages[c], block[c], trackers[c])
    BY <1>1 DEF Sound
  <2>2. CASE trackers[c] = Untracked
    <3>1. storages'[c] = storages[c] /\ block'[c] = block[c]
      BY <1>3, <2>2
    <3>2. \A t \in AllTokens : DiffOf(trackers[c], t) = 0 /\ BalOf(block[c], t) \in Int
      BY <1>1, <2>2, DiffOfType DEF DiffOf
    <3> QED BY <2>1, <3>1, <3>2
  <2>3. CASE trackers[c] # Untracked
    <3>1. PICK s : s = Nc!Committed(c)
      OBVIOUS
    <3>2. /\ IsStorage(s) /\ s # NoStorage
          /\ \A t \in AllTokens : s.bal[t] >= 0 /\ s.bal[t] = BalOf(block[c], t) + DiffOf(trackers[c], t)
      BY <1>2, <2>3, <3>1, CommittedFact, Distinct
    <3>3. storages'[c] = s /\ block'[c] = s
      BY <1>3, <2>3, <3>1
    <3>4. \A t \in AllTokens : BalOf(s, t) = s.bal[t]
      BY <3>2 DEF BalOf
    <3>5. SoundContract(s, s, trackers[c])
      BY <2>1, <3>2, <3>4 DEF SoundContract
    <3> QED BY <3>2, <3>3, <3>4, <3>5
  <2> QED BY <2>2, <2>3
<1>5. Sound(storages', block', trackers)
  BY <1>1, <1>3, <1>4 DEF Sound
<1>6. ASSUME NEW t \in AllTokens
      PROVE  BalSum(block', t) = BalSum(block, t) + (At(totals, t) + Brings(main, t))
  <2>1. \A c \in Contracts : /\ DiffOf(trackers[c], t) \in Int /\ BalOf(block[c], t) \in Int
                             /\ BalOf(block'[c], t) \in Int
    BY <1>1, <1>5, DiffOfType
  <2>2. /\ [c \in Contracts |-> BalOf(block[c], t)] \in [Contracts -> Int]
        /\ [c \in Contracts |-> BalOf(block'[c], t)] \in [Contracts -> Int]
        /\ [c \in Contracts |-> DiffOf(trackers[c], t)] \in [Contracts -> Int]
    BY <2>1
  <2>3. PICK f \in [Contracts -> Int] : f = [c \in Contracts |-> BalOf(block[c], t)]
    BY <2>2
  <2>4. PICK e \in [Contracts -> Int] : e = [c \in Contracts |-> DiffOf(trackers[c], t)]
    BY <2>2
  <2>5. PICK g \in [Contracts -> Int] : g = [c \in Contracts |-> BalOf(block'[c], t)]
    BY <2>2
  <2>6. \A c \in Contracts : g[c] = f[c] + e[c]
    BY <1>4, <2>3, <2>4, <2>5
  <2>7. SumOf(g) = SumOf(f) + SumOf(e)
    BY <2>6, SumAdd, NcConstants
  <2>8. SumOf(e) = At(totals, t) + Brings(main, t)
    BY <1>1, <1>2, <2>4 DEF Diffed, DiffSum
  <2> QED BY <2>3, <2>5, <2>7, <2>8 DEF BalSum
<1>7. \A t \in AllTokens : BalSum(block, t) \in Int
  BY <1>1, BalSumType
<1>8. main \in Actions \cup {Nc!NoAction}
  BY <1>1 DEF Framed
<1>9. net' \in [AllTokens -> Int] /\ \A t \in AllTokens : net'[t] = net[t] + Brings(main, t)
  BY <1>1, <1>3, <1>8, BringsType DEF Balanced
<1>10. Balanced(block', net')
  <2>1. PICK b2, nt2 : b2 = block' /\ nt2 = net'
    OBVIOUS
  <2>2. /\ nt2 \in [AllTokens -> Int]
        /\ \A t \in AllTokens : /\ BalSum(block, t) \in Int
                                /\ BalSum(b2, t) = BalSum(block, t) + (At(totals, t) + Brings(main, t))
                                /\ nt2[t] = net[t] + Brings(main, t)
    BY <1>6, <1>7, <1>9, <2>1
  <2>3. Balanced(b2, nt2)
    BY <1>1, <1>8, <2>2, BalancedStep
  <2> QED BY <2>1, <2>3
<1>11. Covered(totals')
  BY <1>2, EmptyBook
<1> QED BY <1>2, <1>5, <1>10, <1>11, ResetStep

(* An exception, and the end of a view.                                    *)
LEMMA RaiseStep ==
  ASSUME Nc!NcAssumption, NcInv, Nc!ResetAllChangeTrackers,
         UNCHANGED <<block, storages, totals, net>>
  PROVE  NcInv'
<1>1. Sound(storages', block', trackers) /\ Covered(totals') /\ Balanced(block', net')
  BY DEF NcInv
<1> QED BY <1>1, ResetStep

(* The storage of a contract that could not be created stays.              *)
LEMMA RefusedStep ==
  ASSUME Nc!NcAssumption, NcInv, NEW c \in Contracts, NEW a, Nc!SyscallCreateRefused(c, a)
  PROVE  NcInv'
<1>1. Sound(storages, block, trackers)
  BY DEF NcInv
<1>2. /\ storages' = [storages EXCEPT ![c] = Nc!EmptyStorage] /\ Nc!ResetAllChangeTrackers
      /\ UNCHANGED <<block, totals, net>>
  BY DEF Nc!SyscallCreateRefused
<1>3. PICK s : s = Nc!EmptyStorage
  OBVIOUS
<1>4. GoodStorage(s, block[c]) /\ trackers[c] = Untracked
  BY <1>1, <1>3, NewStorageFact DEF Nc!SyscallCreateRefused
<1>5. ASSUME NEW x \in Contracts PROVE SoundContract(storages'[x], block[x], trackers[x])
  <2>1. SoundContract(storages[x], block[x], trackers[x])
    BY <1>1 DEF Sound
  <2>2. CASE x = c
    <3>1. storages'[x] = s
      BY <1>1, <1>2, <1>3, <2>2 DEF Sound
    <3> QED BY <1>4, <2>1, <2>2, <3>1 DEF SoundContract, GoodStorage
  <2>3. CASE x # c
    <3>1. storages'[x] = storages[x]
      BY <1>1, <1>2, <2>3 DEF Sound
    <3> QED BY <2>1, <3>1
  <2> QED BY <2>2, <2>3
<1>6. storages' = [x \in Contracts |-> storages'[x]]
  BY <1>1, <1>2 DEF Sound
<1>7. Sound(storages', block', trackers)
  BY <1>1, <1>2, <1>5, <1>6 DEF Sound
<1>8. Covered(totals') /\ Balanced(block', net')
  BY <1>2 DEF NcInv
<1> QED BY <1>2, <1>7, <1>8, ResetStep

LEMMA NewRunnerStep ==
  ASSUME Nc!NcAssumption, NcInv, Nc!NewRunner
  PROVE  NcInv'
<1>1. Sound(storages, block, trackers) /\ Framed(stack, trackers, recorded, main)
  BY DEF NcInv
<1>2. /\ stack = <<>> /\ storages' = [c \in Contracts |-> NoStorage] /\ totals' = <<>>
      /\ UNCHANGED <<block, stack, trackers, recorded, main, net>>
  BY NcNames DEF Nc!NewRunner
<1>3. \A c \in Contracts : trackers[c] = Untracked
  BY <1>1, <1>2 DEF Framed
<1>4. Sound(storages', block, trackers)
  BY <1>1, <1>2, <1>3 DEF Sound, SoundContract
<1>5. Covered(totals')
  BY <1>2, EmptyBook
<1> QED BY <1>2, <1>4, <1>5 DEF NcInv

LEMMA NcInitHolds ==
  ASSUME Nc!NcAssumption, Nc!Init
  PROVE  NcInv
<1>1. /\ block = [c \in Contracts |-> NoStorage] /\ storages = block
      /\ totals = <<>> /\ recorded = <<>> /\ stack = <<>>
      /\ trackers = [c \in Contracts |-> Untracked] /\ main = Nc!NoAction
      /\ net = [t \in AllTokens |-> 0]
  BY NcNames, NcConstants DEF Nc!Init, Nc!Zero
<1>2. Sound(storages, block, trackers)
  BY <1>1 DEF Sound, SoundContract
<1>3. Framed(stack, trackers, recorded, main) /\ Diffed(trackers, recorded, main)
  BY <1>1, <1>2, ResetHolds
<1>4. Covered(totals)
  BY <1>1, EmptyBook
<1>5. ASSUME NEW t \in AllTokens PROVE BalSum(block, t) = 0
  <2>1. PICK f : f = [c \in Contracts |-> BalOf(block[c], t)]
    OBVIOUS
  <2>2. f = [c \in Contracts |-> 0]
    BY <1>1, <2>1 DEF BalOf
  <2> QED BY <2>1, <2>2, SumZero, NcConstants DEF BalSum
<1>6. Balanced(block, net)
  <2>1. Tokens \subseteq AllTokens /\ Htr \in AllTokens /\ Unit \in Int
    BY NcConstants DEF AllTokens
  <2>2. PICK f : f = [t \in Tokens |-> BalSum(block, t) - net[t]]
    OBVIOUS
  <2>3. f = [t \in Tokens |-> 0]
    BY <1>1, <1>5, <2>1, <2>2
  <2>4. SumOf(f) = 0
    BY <2>3, SumZero, NcConstants
  <2>5. net[Htr] - BalSum(block, Htr) = 0
    BY <1>1, <1>5, <2>1
  <2>6. SumOf(f) <= Unit * (net[Htr] - BalSum(block, Htr))
    BY <2>1, <2>4, <2>5
  <2>7. net \in [AllTokens -> Int]
    BY <1>1
  <2> QED BY <2>2, <2>6, <2>7 DEF Balanced
<1> QED BY <1>2, <1>3, <1>4, <1>6 DEF NcInv

LEMMA NcNextHolds ==
  ASSUME Nc!NcAssumption
  PROVE  NcInv /\ [Nc!Next]_(Nc!vars) => NcInv'
<1> SUFFICES ASSUME NcInv, [Nc!Next]_(Nc!vars) PROVE NcInv'
  OBVIOUS
<1>1. ASSUME NEW c \in Contracts, Nc!CallViewMethod(c) PROVE NcInv'
  BY <1>1, FirstViewStep
<1>2. ASSUME NEW c \in Contracts, Nc!SyscallCallAnotherContractViewMethod(c) PROVE NcInv'
  BY <1>2, ViewCallStep
<1>3. ASSUME NEW c \in Contracts, NEW a \in Actions,
             Nc!CallPublicMethod(c, a) \/ Nc!CreateContract(c, a)
      PROVE  NcInv'
  BY <1>3, PublicCallStep
<1>4. ASSUME NEW c \in Contracts, NEW a \in Actions,
             \/ Nc!SyscallCallAnotherContractPublicMethod(c, a)
             \/ Nc!SyscallCreateAnotherContract(c, a)
      PROVE  NcInv'
  BY <1>4, CallAnotherStep
<1>5. ASSUME NEW c \in Contracts, NEW a \in Actions, Nc!SyscallCreateRefused(c, a) PROVE NcInv'
  BY <1>5, RefusedStep
<1>6. ASSUME NEW t \in Tokens, NEW n \in Amounts, Nc!SyscallMintTokens(t, n) PROVE NcInv'
  BY <1>6, MintStep
<1>7. ASSUME NEW t \in Tokens, NEW n \in Amounts, Nc!SyscallMeltTokens(t, n) PROVE NcInv'
  BY <1>7, MeltStep
<1>8. ASSUME NEW t \in Tokens, NEW rights \in RightSets, Nc!SyscallRevokeAuthorities(t, rights)
      PROVE  NcInv'
  BY <1>8, RevokeStep
<1>9. ASSUME NEW n \in Amounts, NEW rights \in RightSets, Nc!SyscallCreateChildToken(n, rights)
      PROVE  NcInv'
  BY <1>9, CreateTokenStep
<1>10. CASE Nc!PostCall
  BY <1>10, PostCallStep
<1>11. CASE Nc!FinishPublicCall
  BY <1>11, FinishStep
<1>12. CASE Nc!FinishViewCall
  BY <1>12, RaiseStep DEF Nc!FinishViewCall
<1>13. CASE Nc!Raises
  BY <1>13, RaiseStep DEF Nc!Raises
<1>14. CASE Nc!SyscallProxyCallPublicMethod \/ Nc!SyscallChangeBlueprint
  BY <1>13, <1>14 DEF Nc!SyscallProxyCallPublicMethod, Nc!SyscallChangeBlueprint
<1>15. CASE Nc!NewRunner
  BY <1>15, NewRunnerStep
<1>16. CASE UNCHANGED Nc!vars
  BY <1>16 DEF Nc!vars, NcInv
<1> QED
  BY <1>1, <1>2, <1>3, <1>4, <1>5, <1>6, <1>7, <1>8, <1>9, <1>10, <1>11, <1>12, <1>13,
     <1>14, <1>15, <1>16 DEF Nc!Next

LEMMA InvBalances ==
  ASSUME Nc!NcAssumption, NcInv
  PROVE  BooksBalance
<1>1. /\ Sound(storages, block, trackers) /\ Framed(stack, trackers, recorded, main)
      /\ Diffed(trackers, recorded, main) /\ Covered(totals) /\ Balanced(block, net)
  BY DEF NcInv
<1>2. IsFiniteSet(Contracts) /\ Tokens \subseteq AllTokens /\ Htr \in AllTokens
  BY NcConstants DEF AllTokens
<1>3. ASSUME recorded = totals, NEW t \in AllTokens
      PROVE  SumOf([c \in InTrackers |-> trackers[c].diff[t]]) = At(totals, t) + FromOutside(t)
  <2>1. \A c \in Contracts : DiffOf(trackers[c], t) \in Int
    BY <1>1, DiffOfType
  <2>2. PICK S \in SUBSET Contracts : S = InTrackers
    BY DEF InTrackers
  <2>3. \A c \in S : DiffOf(trackers[c], t) = trackers[c].diff[t]
    BY <2>2 DEF InTrackers, Tracked, DiffOf
  <2>4. \A c \in Contracts : c \notin S => DiffOf(trackers[c], t) = 0
    BY <2>2 DEF InTrackers, Tracked, DiffOf
  <2>5. /\ [c \in S |-> trackers[c].diff[t]] \in [S -> Int]
        /\ [c \in Contracts |-> DiffOf(trackers[c], t)] \in [Contracts -> Int]
    BY <2>1, <2>3
  <2>6. PICK f \in [S -> Int] : f = [c \in S |-> trackers[c].diff[t]]
    BY <2>5
  <2>7. PICK d \in [Contracts -> Int] : d = [c \in Contracts |-> DiffOf(trackers[c], t)]
    BY <2>5
  <2>8. \A c \in Contracts : d[c] = IF c \in S THEN f[c] ELSE 0
    BY <2>3, <2>4, <2>6, <2>7
  <2>9. SumOf(d) = SumOf(f)
    BY <1>2, <2>8, SumExtend
  <2>10. SumOf(d) = At(totals, t) + Brings(main, t)
    BY <1>1, <1>3, <2>7 DEF Diffed, DiffSum
  <2>11. FromOutside(t) = Brings(main, t)
    BY OutsideFact
  <2> QED BY <2>2, <2>6, <2>9, <2>10, <2>11
<1>4. stack # <<>> /\ recorded = totals => DiffsMatchActions
  BY <1>3 DEF DiffsMatchActions
<1>5. \A c \in Contracts : block[c] # NoStorage => \A t \in AllTokens : block[c].bal[t] >= 0
  BY <1>1 DEF Sound, SoundContract
<1>6. ASSUME NEW t \in AllTokens PROVE Held(t) = BalSum(block, t)
  <2>1. \A c \in Contracts : BalOf(block[c], t) \in Int
    BY <1>1, DiffOfType
  <2>2. PICK S \in SUBSET Contracts : S = {c \in Contracts : block[c] # NoStorage}
    OBVIOUS
  <2>3. \A c \in S : BalOf(block[c], t) = block[c].bal[t]
    BY <2>2 DEF BalOf
  <2>4. \A c \in Contracts : c \notin S => BalOf(block[c], t) = 0
    BY <2>2 DEF BalOf
  <2>5. /\ [c \in S |-> block[c].bal[t]] \in [S -> Int]
        /\ [c \in Contracts |-> BalOf(block[c], t)] \in [Contracts -> Int]
    BY <2>1, <2>3
  <2>6. PICK f \in [S -> Int] : f = [c \in S |-> block[c].bal[t]]
    BY <2>5
  <2>7. PICK d \in [Contracts -> Int] : d = [c \in Contracts |-> BalOf(block[c], t)]
    BY <2>5
  <2>8. \A c \in Contracts : d[c] = IF c \in S THEN f[c] ELSE 0
    BY <2>3, <2>4, <2>6, <2>7
  <2>9. SumOf(d) = SumOf(f)
    BY <1>2, <2>8, SumExtend
  <2>10. Held(t) = SumOf(f)
    BY <2>2, <2>6 DEF Held
  <2> QED BY <2>7, <2>9, <2>10 DEF BalSum
<1>7. Unit * (net[Htr] - Held(Htr)) >= SumOf([t \in Tokens |-> Held(t) - net[t]])
  <2>1. PICK f : f = [t \in Tokens |-> BalSum(block, t) - net[t]]
    OBVIOUS
  <2>2. f = [t \in Tokens |-> Held(t) - net[t]]
    BY <1>2, <1>6, <2>1
  <2>3. SumOf(f) <= Unit * (net[Htr] - BalSum(block, Htr))
    BY <1>1, <2>1 DEF Balanced
  <2>4. \A t \in AllTokens : BalSum(block, t) \in Int /\ net[t] \in Int
    BY <1>1, BalSumType DEF Balanced
  <2>5. f \in [Tokens -> Int] /\ IsFiniteSet(Tokens) /\ Unit \in Int
    BY <1>2, <2>1, <2>4, NcConstants
  <2>6. PICK s \in Int : s = SumOf(f)
    BY <2>5, SumType
  <2>7. PICK x \in Int : x = Unit * (net[Htr] - Held(Htr))
    BY <1>2, <1>6, <2>4, <2>5
  <2>8. s <= x
    BY <1>2, <1>6, <2>3, <2>6, <2>7
  <2>9. x >= s
    BY <2>8
  <2> QED BY <2>2, <2>6, <2>7, <2>9
<1> QED BY <1>4, <1>5, <1>7 DEF BooksBalance

(***************************************************************************)
(* The books of the nano contracts always balance (Runner), for any        *)
(* contracts, tokens, actions, amounts and bounds on depth and calls.      *)
(***************************************************************************)
THEOREM BooksAlwaysBalance ==
  ASSUME Nc!NcAssumption
  PROVE  Nc!Spec => []BooksBalance
<1>1. Nc!Init => NcInv
  BY NcInitHolds
<1>2. NcInv /\ [Nc!Next]_(Nc!vars) => NcInv'
  BY NcNextHolds
<1>3. NcInv => BooksBalance
  BY InvBalances
<1> QED BY <1>1, <1>2, <1>3, PTL DEF Nc!Spec
=============================================================================
