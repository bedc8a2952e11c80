---------------------------- MODULE BatchCapture ----------------------------
(***************************************************************************)
(* The sub-commands of a BATCH that output capture and dispenser           *)
(* registration read (batch_sub_command_capture.js and its parts).  The    *)
(* indexer, another program, rejects a batch as a whole or runs every      *)
(* command of it; the decoder repeats only what it can prove from the      *)
(* command list.  The module builds a batch command by command.            *)
(***************************************************************************)
EXTENDS Integers, Sequences, FiniteSets, FiniteSetsExt

CONSTANTS
    Commands,      \* commands: [name, params], params a sequence of tokens
    ListBound,     \* bound on the commands of a batch
    CommandLimit,  \* COMMAND_LIMIT
    WeightBudget,  \* WEIGHT_BUDGET
    Weights        \* COMMAND_WEIGHTS

ASSUME WeightAssumption ==
    /\ \A c \in Commands : c.params \in Seq(STRING)
    /\ CommandLimit \in Nat /\ WeightBudget \in Nat
    /\ \A name \in DOMAIN Weights : Weights[name] \in Nat \ {0}

VARIABLES
    commands,    \* the ;-split list, empty elements included; no element when the
                 \* BATCH is of an unregistered FORMAT
    captureOn,   \* isBatchSubCommandCaptureActive at the block
    weighting    \* isBatchCostWeightingActive at the block

batchVars == <<commands, captureOn, weighting>>

Aliases == [DROP |-> "AIRDROP", TRANSFER |-> "SEND"]
ActionLimits == [BATCH |-> 0, ISSUE |-> 1, MINT |-> 1, DEPLOY |-> 1]
ChildIssueKey == "ISSUE.CHILD"
NoTick == ""

\* What the rules tell apart of a token: a number of at most two characters, a
\* dot, a leading caret.
ShortNumbers == {"0", "4"}
Dotted == {"JDOG.A", "JDOG.B", "^1.5"}
Caret == {"^614", "^1.5"}

ExpandAliasName(name) == IF name \in DOMAIN Aliases THEN Aliases[name] ELSE name
ExpandSubCommandAlias(c) == [c EXCEPT !.name = ExpandAliasName(@)]

IsLegacyActionFormat(params) == params = <<>> \/ params[1] \notin ShortNumbers

\* The parameters once the implied version 0 is in front: the tick comes second.
TickOf(params) ==
    LET versioned == IF IsLegacyActionFormat(params) THEN <<"0">> \o params ELSE params
    IN  IF Len(versioned) < 2 THEN NoTick ELSE versioned[2]

\* Mutant: every ISSUE counts against the cap.
SubCommandLimitKeyFlat(c) == ExpandAliasName(c.name)

\* The key a command counts under: a child issuance has one of its own.
SubCommandLimitKey(c) ==
    LET name == ExpandAliasName(c.name)
        tick == TickOf(c.params)
    IN  IF name = "ISSUE" /\ tick \in Dotted \ Caret THEN ChildIssueKey ELSE name

HasProvablyRejectedSubCommand(list) == \E i \in DOMAIN list : list[i].name = ""

Under(list, key) == {i \in DOMAIN list : SubCommandLimitKey(list[i]) = key}

\* The most MINTs of the batch that name one and the same literal tick.
MaxIdenticalMintTicks(list) ==
    LET mints == Under(list, "MINT")
    IN  Max({0} \cup {Cardinality({j \in mints : TickOf(list[j].params) = TickOf(list[i].params)}) : i \in mints})

OverActionLimit(list) ==
    \E action \in DOMAIN ActionLimits :
        (IF action = "MINT" THEN MaxIdenticalMintTicks(list) ELSE Cardinality(Under(list, action)))
            > ActionLimits[action]

WeightIn(name) == IF name \in DOMAIN Weights THEN Weights[name] ELSE 1

\* A DEPLOY weighs 1, for the format that carries one chunk does.
SubCommandCostWeight(c) ==
    IF ExpandAliasName(c.name) = "DEPLOY" THEN 1 ELSE WeightIn(ExpandAliasName(c.name))

Total(weights) ==
    LET sum[i \in 0..Len(weights)] == IF i = 0 THEN 0 ELSE sum[i - 1] + weights[i]
    IN  sum[Len(weights)]

BatchCostWeight(list) == Total([i \in DOMAIN list |-> SubCommandCostWeight(list[i])])

HasProvablyRejectedBatch(list) ==
    \/ Len(list) > (IF weighting THEN WeightBudget ELSE CommandLimit)
    \/ HasProvablyRejectedSubCommand(list)
    \/ OverActionLimit(list)
    \/ weighting /\ BatchCostWeight(list) > WeightBudget

\* What capture reads of a BATCH: itself below the gate, which selects nothing;
\* above it its commands under the names the indexer dispatches on, or none.
CaptureCommands(list) ==
    IF ~captureOn THEN <<[name |-> "BATCH", params |-> <<>>]>>
    ELSE IF HasProvablyRejectedBatch(list) THEN <<>>
    ELSE [i \in DOMAIN list |-> ExpandSubCommandAlias(list[i])]

-----------------------------------------------------------------------------
(* The indexer's rules, as the decoder's comments state them (external). *)

Registered == {"AIRDROP", "BATCH", "COINPAY", "DEPLOY", "DISPENSER", "ISSUE", "MINT", "SEND"}

\* A token by its name or by its id.
TickerId(tick) == IF tick \in {"JDOG", "^614"} THEN "614" ELSE tick

\* A chunk of a DEPLOY is an ordinary command; an AIRDROP is charged per leg.
IndexerWeight(c) ==
    LET name == ExpandAliasName(c.name)
    IN  CASE name = "DEPLOY" /\ c.params /= <<>> /\ Head(c.params) = "4" -> 1
          [] name = "AIRDROP" /\ Len(c.params) > 2 -> 2 * WeightIn(name)
          [] OTHER -> WeightIn(name)

IndexerTick(c) ==
    CASE c.params = <<>> -> NoTick
      [] c.params /= <<>> /\ Head(c.params) \notin ShortNumbers -> Head(c.params)
      [] Len(c.params) = 1 /\ Head(c.params) \in ShortNumbers -> NoTick
      [] OTHER -> c.params[2]

IsChildIssue(c) == IndexerTick(c) \in {"JDOG.A", "JDOG.B"}

Named(list, name) == {i \in DOMAIN list : ExpandAliasName(list[i].name) = name}

\* Why the indexer rejects a batch: what the command list alone shows, and
\* what takes its registry, its token table or its own weights.
ListedCauses(list) ==
    {cause \in {"count", "empty", "nested", "issues", "mints", "deploys"} :
        CASE cause = "count" -> Len(list) > (IF weighting THEN WeightBudget ELSE CommandLimit)
          [] cause = "empty" -> \E i \in DOMAIN list : list[i].name = ""
          [] cause = "nested" -> Named(list, "BATCH") /= {}
          [] cause = "issues" -> Cardinality({i \in Named(list, "ISSUE") : ~IsChildIssue(list[i])}) > 1
          [] cause = "mints" -> \E i, j \in Named(list, "MINT") :
                 i /= j /\ IndexerTick(list[i]) = IndexerTick(list[j])
          [] cause = "deploys" -> Cardinality(Named(list, "DEPLOY")) > 1}

PrivateCauses(list) ==
    {cause \in {"name", "tokens", "weight"} :
        CASE cause = "name" -> \E i \in DOMAIN list : ExpandAliasName(list[i].name) \notin Registered
          [] cause = "tokens" -> \E i, j \in Named(list, "MINT") :
                 i /= j /\ TickerId(IndexerTick(list[i])) = TickerId(IndexerTick(list[j]))
          [] cause = "weight" -> weighting
                 /\ Total([i \in DOMAIN list |-> IndexerWeight(list[i])]) > WeightBudget}

Dispatched(list) ==
    IF ListedCauses(list) \cup PrivateCauses(list) = {}
    THEN [i \in DOMAIN list |-> ExpandSubCommandAlias(list[i])]
    ELSE <<>>

-----------------------------------------------------------------------------

BatchInit == commands = <<>> /\ captureOn \in BOOLEAN /\ weighting \in BOOLEAN

\* One more command of the batch.
AddCommand(c) ==
    /\ Len(commands) < ListBound
    /\ commands' = Append(commands, c)
    /\ UNCHANGED <<captureOn, weighting>>

BatchNext == \E c \in Commands : AddCommand(c)

BatchSpec == BatchInit /\ [][BatchNext]_batchVars

-----------------------------------------------------------------------------
(* Properties. *)

\* Above the gate, a batch the indexer runs is captured command for command
\* under the names it dispatches on: the mirror never suppresses a batch that
\* settles (`suppression is the under-capture direction, the money-bearing
\* one', sub_commands.js).
NeverSuppressed ==
    captureOn /\ Dispatched(commands) /= <<>> => CaptureCommands(commands) = Dispatched(commands)

\* Above the gate, a batch the indexer rejects for a cause its command list
\* shows yields nothing to capture: no dispenser is registered here and nowhere
\* else (hasProvablyRejectedBatch).
RejectedCapturesNothing ==
    captureOn /\ ListedCauses(commands) /= {} => CaptureCommands(commands) = <<>>

\* Capture of a batch agrees with the indexer in both directions: what settles is
\* captured, what is provably rejected is not (captureCommands).
CaptureMirrorsIndexer == NeverSuppressed /\ RejectedCapturesNothing
=============================================================================
