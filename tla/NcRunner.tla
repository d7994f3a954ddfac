------------------------------ MODULE NcRunner ------------------------------
(***************************************************************************)
(* The runner of the nano contracts (hathor/nanocontracts/runner) over a   *)
(* block storage: calls between contracts, each with a tracker of its      *)
(* changes, the system calls that move, create and destroy tokens, and the *)
(* checks and the commit at the end of a call.                             *)
(*                                                                         *)
(* What a blueprint does is left open: between its first and last step a   *)
(* method makes any system calls and may fail at any point.  Any exception *)
(* ends the whole execution, as blueprints cannot catch one.  Attributes,  *)
(* arguments and fuel are left out, and a call carries at most one action. *)
(***************************************************************************)
EXTENDS Integers, Sequences, FiniteSetsExt

CONSTANTS
    Contracts,
    Tokens,       \* custom tokens
    Htr,          \* HATHOR_TOKEN_UID
    ChildToken,   \* [some contracts -> the token it can create]
    Actions,      \* what a call may carry
    Amounts,
    RightSets,    \* authorities given or revoked together
    Unit,         \* 1 / TOKEN_DEPOSIT_PERCENTAGE
    MaxDepth,     \* MAX_RECURSION_DEPTH
    MaxCalls,     \* MAX_CALL_COUNTER
    MaxUpdates,   \* bound on the changes of tokens in an execution
    MaxExecutions

VARIABLES
    block,      \* [contract -> its state in the block storage]
    tokens,     \* the tokens created in the block
    storages,   \* Runner._storages
    totals,     \* Runner._updated_tokens_totals
    stack,      \* CallInfo.stack
    trackers,   \* CallInfo.change_trackers
    recorded,   \* what the index updates of the calls add up to
    main,       \* the action of the first call
    calls,      \* CallInfo.call_counter
    updates, executions,
    net         \* history: deposits less withdrawals, by token

vars == <<block, tokens, storages, totals, stack, trackers, recorded, main,
          calls, updates, executions, net>>

\* What the runner promises, with the sums it compares.
INSTANCE NcRunnerSafety

(* What the proof assumes: amounts are not negative, and HTR is no custom  *)
(* token.                                                                  *)
NcAssumption ==
    /\ IsFiniteSet(Contracts) /\ IsFiniteSet(Tokens)
    /\ Htr \notin Tokens /\ Unit \in Nat \ {0} /\ Amounts \subseteq Nat
    /\ \A c \in DOMAIN ChildToken : ChildToken[c] \in Tokens
    /\ \A a \in Actions : a.type \in {"deposit", "withdrawal"} =>
          a.token \in AllTokens /\ a.amount \in Nat

NoAction == [type |-> "none"]
Zero == [t \in AllTokens |-> 0]
EmptyStorage == [bal |-> Zero, auth |-> {}]
EmptyTracker == [diff |-> Zero, granted |-> {}, revoked |-> {}, created |-> {}]

TypeOK ==
    /\ \A c \in Contracts : block[c] = NoStorage \/ block[c].bal \in [AllTokens -> Int]
    /\ tokens \subseteq Tokens
    /\ DOMAIN totals \subseteq AllTokens /\ DOMAIN recorded \subseteq AllTokens
    /\ stack \in Seq([contract : Contracts, view : BOOLEAN])
    /\ calls \in 0 .. MaxCalls /\ Len(stack) <= MaxDepth

Init ==
    /\ block = [c \in Contracts |-> NoStorage] /\ storages = block
    /\ tokens = {} /\ totals = <<>> /\ recorded = <<>>
    /\ stack = <<>> /\ trackers = [c \in Contracts |-> Untracked]
    /\ main = NoAction /\ calls = 0 /\ updates = 0 /\ executions = 0
    /\ net = Zero

-----------------------------------------------------------------------------
\* A defaultdict(int): a token that was touched is a key.
Plus(d, t, n) ==
    [u \in DOMAIN d \cup {t} |->
        (IF u \in DOMAIN d THEN d[u] ELSE 0) + (IF u = t THEN n ELSE 0)]

Current == stack[Len(stack)]
InPublic == stack # <<>> /\ ~Current.view

HasContractBeenInitialized(c) == storages[c] # NoStorage \/ block[c] # NoStorage

GetStorage(c) == IF storages[c] # NoStorage THEN storages[c] ELSE block[c]

\* The blueprint id of a contract is read from its latest tracker if it has
\* one; a tracker has no trie to read it from, which is an error.
HasBlueprintId(c) == ~Tracked(c)

Balance(c, t) == GetStorage(c).bal[t] + trackers[c].diff[t]
Authorities(c) == (GetStorage(c).auth \cup trackers[c].granted) \ trackers[c].revoked

AddBalance(tr, t, n) == [tr EXCEPT !.diff[t] = @ + n]
GrantAuthorities(tr, t, rights) ==
    [tr EXCEPT !.granted = @ \cup ({t} \X rights), !.revoked = @ \ ({t} \X rights)]
RevokeAuthorities(tr, t, rights) ==
    [tr EXCEPT !.granted = @ \ ({t} \X rights), !.revoked = @ \cup ({t} \X rights)]

\* The rules of an action on the side of the called contract ...
CalleeAllows(auth, a) == a.type = "acquire" => {a.token} \X a.rights \subseteq auth
CalleeRule(tr, a) ==
    CASE a.type = "deposit" -> AddBalance(tr, a.token, a.amount)
      [] a.type = "withdrawal" -> AddBalance(tr, a.token, -a.amount)
      [] a.type = "grant" -> GrantAuthorities(tr, a.token, a.rights)
      [] OTHER -> tr

\* ... and on the side of the contract that calls.
CallerAllows(auth, a) == a.type = "grant" => {a.token} \X a.rights \subseteq auth
CallerRule(tr, a) ==
    CASE a.type = "deposit" -> AddBalance(tr, a.token, -a.amount)
      [] a.type = "withdrawal" -> AddBalance(tr, a.token, a.amount)
      [] a.type = "acquire" -> GrantAuthorities(tr, a.token, a.rights)
      [] OTHER -> tr

\* CallInfo.pre_call
PreCall(c, isView) ==
    /\ Len(stack) < MaxDepth /\ calls < MaxCalls
    /\ calls' = calls + 1
    /\ stack' = Append(stack, [contract |-> c, view |-> isView])

\* An exception leaves the runner: its trackers are dropped, its storages
\* and its token totals are not.
ResetAllChangeTrackers ==
    /\ stack' = <<>> /\ trackers' = [c \in Contracts |-> Untracked]
    /\ recorded' = <<>> /\ main' = NoAction /\ calls' = 0 /\ updates' = 0

-----------------------------------------------------------------------------
(* Calls from outside. *)

ExecutePublicMethodCall(c, a, auth) ==
    /\ CalleeAllows(auth, a)
    /\ PreCall(c, FALSE)
    /\ trackers' = [trackers EXCEPT ![c] = CalleeRule(EmptyTracker, a)]
    /\ main' = a /\ executions' = executions + 1
    /\ UNCHANGED <<block, tokens, totals, recorded, updates, net>>

CallPublicMethod(c, a) ==
    /\ stack = <<>> /\ executions < MaxExecutions
    /\ HasContractBeenInitialized(c)
    /\ storages' = [storages EXCEPT ![c] = GetStorage(c)]
    /\ ExecutePublicMethodCall(c, a, GetStorage(c).auth)

\* A contract that is created is known to the runner before initialize()
\* has run, and stays so when it fails.
CreateContract(c, a) ==
    /\ stack = <<>> /\ executions < MaxExecutions
    /\ ~HasContractBeenInitialized(c)
    /\ storages' = [storages EXCEPT ![c] = EmptyStorage]
    /\ ExecutePublicMethodCall(c, a, {})

CallViewMethod(c) ==
    /\ stack = <<>> /\ executions < MaxExecutions
    /\ HasContractBeenInitialized(c)
    /\ storages' = [storages EXCEPT ![c] = GetStorage(c)]
    /\ PreCall(c, TRUE)
    /\ trackers' = [trackers EXCEPT ![c] = EmptyTracker]
    /\ executions' = executions + 1
    /\ UNCHANGED <<block, tokens, totals, recorded, main, updates, net>>

-----------------------------------------------------------------------------
(* System calls between contracts. *)

\* The caller's side of the action first, then the callee's on a new tracker.
CallAnother(c, a, auth) ==
    /\ CallerAllows(Authorities(Current.contract), a) /\ CalleeAllows(auth, a)
    /\ PreCall(c, FALSE)
    /\ trackers' = [trackers EXCEPT ![Current.contract] = CallerRule(@, a),
                                    ![c] = CalleeRule(EmptyTracker, a)]
    /\ UNCHANGED <<block, tokens, totals, recorded, main, updates, executions, net>>

SyscallCallAnotherContractPublicMethod(c, a) ==
    /\ InPublic /\ c # Current.contract
    /\ HasContractBeenInitialized(c) /\ HasBlueprintId(c)
    /\ storages' = [storages EXCEPT ![c] = GetStorage(c)]
    /\ CallAnother(c, a, GetStorage(c).auth)

SyscallCreateAnotherContract(c, a) ==
    /\ InPublic /\ ~HasContractBeenInitialized(c)
    /\ storages' = [storages EXCEPT ![c] = EmptyStorage]
    /\ CallAnother(c, a, {})

SyscallCreateRefused(c, a) ==
    /\ InPublic /\ ~HasContractBeenInitialized(c)
    /\ \/ ~CallerAllows(Authorities(Current.contract), a) \/ ~CalleeAllows({}, a)
       \/ Len(stack) >= MaxDepth \/ calls >= MaxCalls
    /\ storages' = [storages EXCEPT ![c] = EmptyStorage]
    /\ ResetAllChangeTrackers
    /\ UNCHANGED <<block, tokens, totals, executions, net>>

SyscallCallAnotherContractViewMethod(c) ==
    /\ stack # <<>> /\ c # Current.contract
    /\ HasContractBeenInitialized(c) /\ HasBlueprintId(c)
    /\ PreCall(c, TRUE)
    /\ storages' = [storages EXCEPT ![c] = GetStorage(c)]
    /\ trackers' = [trackers EXCEPT ![c] = EmptyTracker]
    /\ UNCHANGED <<block, tokens, totals, recorded, main, updates, executions, net>>

-----------------------------------------------------------------------------
(* System calls on tokens. *)

\* Mutant: the deposit is rounded down, as the withdrawal is.
GetDepositAmountDown(n) == n \div Unit

GetDepositAmount(n) == (n + Unit - 1) \div Unit
GetWithdrawAmount(n) == n \div Unit

\* The balances and the totals change, then the record of the change is made,
\* which refuses amounts of zero.
UpdateTokens(tr, t, n, htr) ==
    LET c == Current.contract
        Updated(d) == Plus(Plus(d, t, n), Htr, htr)
    IN  /\ updates < MaxUpdates
        /\ totals' = Updated(totals)
        /\ \/ /\ n # 0 /\ htr # 0
              /\ recorded' = Updated(recorded)
              /\ trackers' = [trackers EXCEPT ![c] = AddBalance(AddBalance(tr, t, n), Htr, htr)]
              /\ updates' = updates + 1
              /\ UNCHANGED <<stack, main, calls>>
           \/ (n = 0 \/ htr = 0) /\ ResetAllChangeTrackers
        /\ UNCHANGED <<block, tokens, storages, executions, net>>

SyscallMintTokens(t, n) ==
    /\ InPublic /\ <<t, "mint">> \in Authorities(Current.contract)
    /\ UpdateTokens(trackers[Current.contract], t, n, -GetDepositAmount(n))

SyscallMeltTokens(t, n) ==
    /\ InPublic /\ <<t, "melt">> \in Authorities(Current.contract)
    /\ UpdateTokens(trackers[Current.contract], t, -n, GetWithdrawAmount(n))

SyscallCreateChildToken(n, rights) ==
    LET t == ChildToken[Current.contract]
        tr == trackers[Current.contract]
    IN  /\ InPublic /\ Current.contract \in DOMAIN ChildToken
        /\ t \notin tokens \cup tr.created
        /\ UpdateTokens(GrantAuthorities([tr EXCEPT !.created = @ \cup {t}], t, rights),
                        t, n, -GetDepositAmount(n))

SyscallRevokeAuthorities(t, rights) ==
    /\ InPublic
    /\ trackers' = [trackers EXCEPT ![Current.contract] = RevokeAuthorities(@, t, rights)]
    /\ UNCHANGED <<block, tokens, storages, totals, stack, recorded, main, calls,
                   updates, executions, net>>

-----------------------------------------------------------------------------
(* The end of a call. *)

ValidateBalances ==
    /\ \A c \in InTrackers, t \in AllTokens : Balance(c, t) >= 0
    /\ recorded = totals
    /\ DiffsMatchActions

Committed(c) ==
    [bal |-> [t \in AllTokens |-> Balance(c, t)], auth |-> Authorities(c)]

CommitAllChangesToStorage ==
    /\ storages' = [c \in Contracts |-> IF Tracked(c) THEN Committed(c) ELSE storages[c]]
    /\ block' = [c \in Contracts |-> IF Tracked(c) THEN Committed(c) ELSE block[c]]
    /\ tokens' = tokens \cup UNION {trackers[c].created : c \in InTrackers}
    /\ net' = [t \in AllTokens |-> net[t] + FromOutside(t)]

\* CallInfo.post_call; the only tracker of a contract is kept.
PostCall ==
    /\ Len(stack) > 1
    /\ stack' = SubSeq(stack, 1, Len(stack) - 1)
    /\ UNCHANGED <<block, tokens, storages, totals, trackers, recorded, main, calls,
                   updates, executions, net>>

FinishPublicCall ==
    /\ Len(stack) = 1 /\ InPublic
    /\ ValidateBalances
    /\ CommitAllChangesToStorage
    /\ totals' = <<>>
    /\ ResetAllChangeTrackers
    /\ UNCHANGED executions

FinishViewCall ==
    /\ Len(stack) = 1 /\ Current.view
    /\ ResetAllChangeTrackers
    /\ UNCHANGED <<block, tokens, storages, totals, executions, net>>

\* The blueprint, a system call or a check at the end raises.
Raises ==
    /\ stack # <<>>
    /\ ResetAllChangeTrackers
    /\ UNCHANGED <<block, tokens, storages, totals, executions, net>>

\* A proxy call reads the blueprint id of the running contract and a change of
\* blueprint writes it: both fail for want of a trie.
SyscallProxyCallPublicMethod == InPublic /\ ~HasBlueprintId(Current.contract) /\ Raises
SyscallChangeBlueprint == InPublic /\ ~HasBlueprintId(Current.contract) /\ Raises

NewRunner ==
    /\ stack = <<>>
    /\ storages' = [c \in Contracts |-> NoStorage] /\ totals' = <<>>
    /\ UNCHANGED <<block, tokens, stack, trackers, recorded, main, calls, updates,
                   executions, net>>

Next ==
    \/ \E c \in Contracts :
        \/ CallViewMethod(c) \/ SyscallCallAnotherContractViewMethod(c)
        \/ \E a \in Actions :
            \/ CallPublicMethod(c, a) \/ CreateContract(c, a)
            \/ SyscallCallAnotherContractPublicMethod(c, a)
            \/ SyscallCreateAnotherContract(c, a) \/ SyscallCreateRefused(c, a)
    \/ \E t \in Tokens :
        \/ \E n \in Amounts : SyscallMintTokens(t, n) \/ SyscallMeltTokens(t, n)
        \/ \E rights \in RightSets : SyscallRevokeAuthorities(t, rights)
    \/ \E n \in Amounts, rights \in RightSets : SyscallCreateChildToken(n, rights)
    \/ PostCall \/ FinishPublicCall \/ FinishViewCall \/ Raises \/ NewRunner
    \/ SyscallProxyCallPublicMethod \/ SyscallChangeBlueprint

Spec == Init /\ [][Next]_vars
=============================================================================
