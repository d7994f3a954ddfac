------------------------- MODULE MCFeatureLifecycle -------------------------
(* Instance of FeatureLifecycle for TLC: validated configurations of two  *)
(* features with small heights.                                            *)
EXTENDS FeatureLifecycle, TLC

CONSTANTS f1, f2

(* The first feature starts with the chain or one interval later.          *)
FirstCriteria ==
    [bit : {0}, start : 0 .. 1, timeout : 2 .. 3, threshold : 1 .. Interval,
     minimumActivation : {0, 5}, lockInOnTimeout : BOOLEAN]

(* The second one runs beside it, or after it on the same bit.             *)
SecondCriteria ==
    [bit : 0 .. MaxSignalBits - 1, start : {1, 3}, timeout : {5}, threshold : {0, Interval},
     minimumActivation : {4}, lockInOnTimeout : BOOLEAN]

SmallConfigurations ==
    {config \in {(f1 :> c) @@ (f2 :> d) : c \in FirstCriteria, d \in SecondCriteria} :
        ValidatedSettings(config)}
=============================================================================
