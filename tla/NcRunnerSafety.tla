--------------------------- MODULE NcRunnerSafety ---------------------------
(***************************************************************************)
(* What the runner of the nano contracts promises, see NcRunner.           *)
(***************************************************************************)
EXTENDS Integers, FiniteSetsExt

CONSTANTS Contracts, Tokens, Htr, Unit
VARIABLES block, totals, stack, trackers, recorded, main, net

AllTokens == Tokens \cup {Htr}
NoStorage == [bal |-> <<>>]
Untracked == [diff |-> <<>>]

Tracked(c) == trackers[c] # Untracked
InTrackers == {c \in Contracts : Tracked(c)}

\* The entry of a defaultdict(int).
At(d, t) == IF t \in DOMAIN d THEN d[t] ELSE 0

\* The sum of the values of a function.
SumOf(f) == MapThenSumSet(LAMBDA x : f[x], DOMAIN f)

\* What the action of the first call brings in.
FromOutside(t) ==
    CASE main.type = "deposit" /\ main.token = t -> main.amount
      [] main.type = "withdrawal" /\ main.token = t -> -main.amount
      [] OTHER -> 0

DiffsMatchActions ==
    \A t \in AllTokens :
        SumOf([c \in InTrackers |-> trackers[c].diff[t]]) = At(totals, t) + FromOutside(t)

Held(t) == SumOf([c \in {c \in Contracts : block[c] # NoStorage} |-> block[c].bal[t]])

(***************************************************************************)
(* The books balance.  While a call runs, the trackers of all contracts    *)
(* called so far add up to what came from outside and what was created or  *)
(* destroyed, so that the assertion at its end does not fail for a call    *)
(* that did nothing wrong, unless the totals of an earlier failure are     *)
(* still there; and in the block no balance is negative and the tokens     *)
(* the contracts created are covered by the HTR they gave up for them.     *)
(***************************************************************************)
BooksBalance ==
    /\ stack # <<>> /\ recorded = totals => DiffsMatchActions
    /\ \A c \in Contracts : block[c] # NoStorage => \A t \in AllTokens : block[c].bal[t] >= 0
    /\ Unit * (net[Htr] - Held(Htr)) >= SumOf([t \in Tokens |-> Held(t) - net[t]])
=============================================================================
