-------------------------- MODULE MCDispenserTable --------------------------
(***************************************************************************)
(* The dispensers table in three eras, and the protocol rules it is fed    *)
(* from: the time of a block, the commands of a batch, the rows and        *)
(* outputs of a transaction.  A behaviour is about one of the Subjects,    *)
(* whose variables move while the others keep their initial values.        *)
(***************************************************************************)
EXTENDS DispenserTable, ProtocolTime, BatchCapture, OutputCapture, TLC

CONSTANTS s, d,      \* a source and an address it delegates to
          Subjects

VARIABLE subject

BackAndForth == {-1, 2}
\* Gates long in force at the first block (regtest), and gates that arm between
\* two blocks; a block time that steps back is below them again.  The times of
\* the second chain are below the gates of the first.
Armed == 10
MidChain == 2

\* Every gate in force; and the activation of the gates, for one address with
\* several edits in a block and for a dispenser delegated to another address.
Modern == INSTANCE DispenserTable WITH Addresses <- {s}
Crossing == INSTANCE DispenserTable WITH
    Addresses <- {s}, FirstTime <- 0, MaxTxs <- 2, MaxHeight <- 3, SafeDepth <- 1, Depth <- 1,
    Offsets <- {1}, GraceSeconds <- 2, RealignAt <- MidChain,
    CancelGraceAt <- MidChain, ParentFloorAt <- MidChain, PurgeGraceAt <- MidChain
Delegated == INSTANCE DispenserTable WITH
    FirstTime <- 0, MaxHeight <- 3, SafeDepth <- 1, Depth <- 1,
    Offsets <- {1}, GraceSeconds <- 2, RealignAt <- MidChain,
    CancelGraceAt <- MidChain, ParentFloorAt <- MidChain, PurgeGraceAt <- MidChain

Command(name, params) == [name |-> name, params |-> params]
MCCommands ==
    {Command("", <<>>), Command("", <<"0", "x">>), Command("BATCH", <<"0">>),
     Command("ISSUE", <<"JDOG">>), Command("ISSUE", <<"0", "JDOG.A">>),
     Command("ISSUE", <<"JDOG.B", "1">>), Command("ISSUE", <<"0", "^1.5">>),
     Command("ISSUE", <<>>), Command("MINT", <<"JDOG">>),
     Command("MINT", <<"0", "JDOG">>), Command("MINT", <<"0", "^614">>),
     Command("DEPLOY", <<"0">>), Command("DEPLOY", <<"4">>),
     Command("DROP", <<"0", "JDOG">>), Command("DROP", <<"0", "JDOG", "2">>),
     Command("COINPAY", <<"0">>), Command("DISPENSERX", <<"0">>)}
MCWeights == [AIRDROP |-> 2, DEPLOY |-> 3]

Create(get, oracle, token) ==
    [kind |-> "create", name |-> "DISPENSER", coin |-> "own",
     get |-> get, oracle |-> oracle, token |-> token]
MCCreates ==
    {Create("", "", "omitted"), Create("", "o1", "soon"), Create("S", "o2", "late"),
     Create("", "", "wide"), Create("d", "o1", "late"), Create("d", "o2", "soon"),
     Create("d", "", "almost"), Create("", "", "overflow"), Create("^7", "o1", "late"),
     Create("", "^7", "late"), [Create("d", "", "late") EXCEPT !.name = "DISPENSERX"],
     [Create("d", "", "late") EXCEPT !.coin = "foreign"]}
\* Two spellings of one address.
MCAddressId == ("s" :> 1) @@ ("S" :> 1) @@ ("d" :> 2) @@ ("t" :> 3) @@ ("^7" :> 9)

MCVars == <<vars, clockVars, batchVars, captureVars, subject>>

MCInit ==
    /\ subject \in Subjects
    /\ Init /\ ClockInit /\ BatchInit /\ CaptureInit
    /\ subject /= "clock" => ~mtp /\ below = <<>>
    /\ subject /= "batch" => ~captureOn /\ ~weighting
    /\ subject /= "outputs" => ~captureArmed

TableStep ==
    \/ subject = "armed" /\ Modern!Next
    \/ subject = "crossing" /\ Crossing!Next
    \/ subject = "delegated" /\ Delegated!Next

MCNext ==
    /\ UNCHANGED subject
    /\ \/ TableStep /\ UNCHANGED <<clockVars, batchVars, captureVars>>
       \/ subject = "clock" /\ ClockNext /\ UNCHANGED <<vars, batchVars, captureVars>>
       \/ subject = "batch" /\ BatchNext /\ UNCHANGED <<vars, clockVars, captureVars>>
       \/ subject = "outputs" /\ CaptureNext /\ UNCHANGED <<vars, clockVars, batchVars>>

MCSpec == MCInit /\ [][MCNext]_MCVars
=============================================================================
