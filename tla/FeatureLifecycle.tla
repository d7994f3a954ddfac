-------------------------- MODULE FeatureLifecycle --------------------------
(***************************************************************************)
(* Feature activation along one chain of blocks: the bit counts of         *)
(* BlockStaticMetadata, the state machine of FeatureService and the        *)
(* verification rule for mandatory signalling, under every configuration   *)
(* that the validators of Criteria and Settings let through.               *)
(*                                                                         *)
(* The height of a block is epoch * Interval + offset; a boundary block is *)
(* one of offset 0.  The validators make start_height, timeout_height and  *)
(* minimum_activation_height multiples of the evaluation interval, so they *)
(* are given here in intervals and compared with epochs.                   *)
(***************************************************************************)
EXTENDS Integers, FiniteSets

CONSTANTS
    Features,        \* the configured features
    Interval,        \* evaluation_interval
    MaxSignalBits,   \* max_signal_bits
    Configurations,  \* settings the network may run with
    MaxEpoch         \* bound: the chain has fewer than MaxEpoch + 1 intervals

Bits == 0 .. MaxSignalBits - 1
Criteria == [bit : Nat, start : Nat, timeout : Nat, threshold : Nat,
             minimumActivation : Nat, lockInOnTimeout : BOOLEAN]

(* ValidatedCriteria; the default threshold is already filled in.          *)
ValidatedCriteria(c) ==
    /\ c \in Criteria
    /\ c.bit < MaxSignalBits
    /\ c.timeout >= c.start + 2
    /\ c.threshold <= Interval

(* Settings._validate_conflicting_bits: closed intervals do not overlap.   *)
NoConflictingBits(config) ==
    \A f, g \in Features :
        (f # g /\ config[f].bit = config[g].bit)
            => \/ config[f].start > config[g].timeout
               \/ config[g].start > config[f].timeout

ValidatedSettings(config) ==
    /\ DOMAIN config = Features
    /\ \A f \in Features : ValidatedCriteria(config[f])
    /\ NoConflictingBits(config)

ASSUME FeatureAssumption ==
    /\ Interval \in Nat \ {0}
    /\ MaxSignalBits \in Nat \ {0}
    /\ MaxEpoch \in Nat
    /\ \A config \in Configurations :
          config \in [Features -> Criteria] /\ ValidatedSettings(config)

VARIABLES
    criteria,   \* Settings.features, fixed for the life of the network
    epoch,      \* of the last block: height // Interval
    offset,     \* of the last block: height % Interval
    counts,     \* its static_metadata.feature_activation_bit_counts
    state       \* its state for each feature

vars == <<criteria, epoch, offset, counts, state>>

States == {"DEFINED", "STARTED", "MUST_SIGNAL", "LOCKED_IN", "ACTIVE", "FAILED"}
Voting == {"STARTED", "MUST_SIGNAL"}
SignalingStates == {"STARTED", "MUST_SIGNAL", "LOCKED_IN"}

(* One type invariant: a count never exceeds the blocks of the interval.   *)
TypeOK ==
    /\ criteria \in Configurations
    /\ epoch \in 0 .. MaxEpoch
    /\ offset \in 0 .. Interval - 1
    /\ counts \in [Bits -> 0 .. offset + 1]
    /\ state \in [Features -> States]

(* The genesis block is DEFINED for every feature and signals nothing.     *)
Init ==
    /\ criteria \in Configurations
    /\ epoch = 0 /\ offset = 0
    /\ counts = [b \in Bits |-> 0]
    /\ state = [f \in Features |-> "DEFINED"]

----------------------------------------------------------------------------
(* _calculate_new_state for a boundary block that starts interval e, its   *)
(* parent having the bit counts n.  Each operator is preceded by mutants   *)
(* of it that some property below excludes.                                *)

FromStartedFailingLate(c, e, n) ==
    IF e > c.timeout /\ ~c.lockInOnTimeout THEN "FAILED"
    ELSE IF e < c.timeout /\ n[c.bit] >= c.threshold THEN "LOCKED_IN"
    ELSE IF e + 1 >= c.timeout /\ c.lockInOnTimeout THEN "MUST_SIGNAL"
    ELSE "STARTED"
FromStartedNeverFailing(c, e, n) ==
    IF e < c.timeout /\ n[c.bit] >= c.threshold THEN "LOCKED_IN"
    ELSE IF e + 1 >= c.timeout /\ c.lockInOnTimeout THEN "MUST_SIGNAL"
    ELSE "STARTED"
FromStartedForcedLate(c, e, n) ==
    IF e >= c.timeout /\ ~c.lockInOnTimeout THEN "FAILED"
    ELSE IF e < c.timeout /\ n[c.bit] >= c.threshold THEN "LOCKED_IN"
    ELSE IF e >= c.timeout /\ c.lockInOnTimeout THEN "MUST_SIGNAL"
    ELSE "STARTED"
FromStarted(c, e, n) ==
    IF e >= c.timeout /\ ~c.lockInOnTimeout THEN "FAILED"
    ELSE IF e < c.timeout /\ n[c.bit] >= c.threshold THEN "LOCKED_IN"
    ELSE IF e + 1 >= c.timeout /\ c.lockInOnTimeout THEN "MUST_SIGNAL"
    ELSE "STARTED"

FromLockedInExactly(c, e) == IF e = c.minimumActivation THEN "ACTIVE" ELSE "LOCKED_IN"
FromLockedIn(c, e) == IF e >= c.minimumActivation THEN "ACTIVE" ELSE "LOCKED_IN"

NewState(c, previous, e, n) ==
    CASE previous = "DEFINED" -> IF e >= c.start THEN "STARTED" ELSE "DEFINED"
      [] previous = "STARTED" -> FromStarted(c, e, n)
      [] previous = "MUST_SIGNAL" -> "LOCKED_IN"
      [] previous = "LOCKED_IN" -> FromLockedIn(c, e)
      [] OTHER -> previous   \* ACTIVE and FAILED are final

(* _get_previous_feature_activation_bit_counts starts again at a boundary, *)
(* and the block's own signal bits are added.                              *)
BitCounts(n, boundary, signals) ==
    [b \in Bits |-> (IF boundary THEN 0 ELSE n[b]) + (IF b \in signals THEN 1 ELSE 0)]

(* is_signaling_mandatory_features: the blocks left in the interval can    *)
(* still make up for the missing signals.                                  *)
SignalingOffByOne(c, s, n, o) ==
    s = "MUST_SIGNAL" => c.threshold - n[c.bit] <= Interval - o
SignalingTooStrict(c, s, n, o) ==
    s = "MUST_SIGNAL" => c.threshold - n[c.bit] < Interval - o - 1
IsSignaling(c, s, n, o) ==
    s = "MUST_SIGNAL" => c.threshold - n[c.bit] <= Interval - o - 1

(* What the next block would be, with the signal bits it carries.          *)
NextIsBoundary == offset + 1 = Interval
NextEpoch == IF NextIsBoundary THEN epoch + 1 ELSE epoch
NextOffset == IF NextIsBoundary THEN 0 ELSE offset + 1
NextCounts(signals) == BitCounts(counts, NextIsBoundary, signals)
NextState ==
    [f \in Features |-> IF NextIsBoundary
                        THEN NewState(criteria[f], state[f], epoch + 1, counts)
                        ELSE state[f]]
Accepted(signals) ==
    \A f \in Features :
        IsSignaling(criteria[f], NextState[f], NextCounts(signals), NextOffset)

(* A block passes verify_mandatory_signaling and extends the chain; one    *)
(* that does not pass is discarded.                                        *)
AddBlock(signals) ==
    /\ NextEpoch <= MaxEpoch
    /\ Accepted(signals)
    /\ epoch' = NextEpoch
    /\ offset' = NextOffset
    /\ counts' = NextCounts(signals)
    /\ state' = NextState
    /\ UNCHANGED criteria

Next == \E signals \in SUBSET Bits : AddBlock(signals)

Spec == Init /\ [][Next]_vars

----------------------------------------------------------------------------
(* Properties.                                                             *)

(* A feature is locked in only after an interval in which its bit was      *)
(* signalled by at least the threshold of blocks, also when it is forced:  *)
(* _calculate_new_state does not look at the count when it leaves          *)
(* MUST_SIGNAL, it relies on the verification of each block.               *)
LockInIsEarned ==
    [][\A f \in Features :
          (state[f] # "LOCKED_IN" /\ state'[f] = "LOCKED_IN")
              => counts[criteria[f].bit] >= criteria[f].threshold]_vars

(* Verification never stops the chain: whatever the features that must be  *)
(* signalled, a block that signals every bit is accepted.                  *)
ChainCanGrow == Accepted(Bits)

(* From timeout_height on the vote is over, for a feature that does not    *)
(* start at the genesis.                                                   *)
TimeoutDecides ==
    \A f \in Features :
        (criteria[f].start > 0 /\ epoch >= criteria[f].timeout)
            => state[f] \in {"LOCKED_IN", "ACTIVE", "FAILED"}

(* lock_in_on_timeout forces activation: one interval after the timeout,   *)
(* at minimum_activation_height at the latest, the feature is active.      *)
ForcedFeatureIsActive ==
    \A f \in Features :
        (/\ criteria[f].lockInOnTimeout
         /\ criteria[f].start > 0
         /\ epoch > criteria[f].timeout
         /\ epoch >= criteria[f].minimumActivation)
            => state[f] = "ACTIVE"

(* A vote has one meaning: two features that share a bit are never both    *)
(* being voted on.  The bit validator compares configured heights only;    *)
(* the states also depend on when features start and on MUST_SIGNAL.       *)
VotesAreUnambiguous ==
    \A f, g \in Features :
        (f # g /\ criteria[f].bit = criteria[g].bit)
            => ~(state[f] \in Voting /\ state[g] \in Voting)

(* The assertion of BitSignalingService._get_signaling_features: 'Invalid  *)
(* state. Signaling more features than the allowed maximum.'               *)
SignalingFitsTheBits ==
    Cardinality({f \in Features : state[f] \in SignalingStates}) <= MaxSignalBits
=============================================================================
