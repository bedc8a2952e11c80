----------------------------- MODULE TxParsing ------------------------------
(***************************************************************************)
(* parseTransaction (transaction_parsing.js, carrier_extraction.js,        *)
(* envelope_recognition.js, source_resolution.js): which action a          *)
(* transaction carries, who sent it, and which outputs are recorded with   *)
(* it. An action runs from one lookup at the node to the next. A lookup    *)
(* that fails rolls the block back, which parses the transaction again     *)
(* from the start; any other throw is left to the quarantine ladder of     *)
(* TxIngest. Bytes are sequences of pushes: a push is its content, and     *)
(* Opcode stands for anything else a script decompiles to.                 *)
(***************************************************************************)
EXTENDS Naturals, SequencesExt

CONSTANTS
    Transactions,     \* [ins, outs] of the transactions that are parsed
    Ledger,           \* the confirmed transactions: txid -> [decodes, from, outs]
    Networks,         \* [segwit, envelopeAt, carrierAt, walkbackGateAt]
    Heights,
    OpenAddresses,    \* the open dispensers of the block
    FeeAddress,       \* feeDestination
    FundingVoutBase,  \* FUNDING_VOUT_BASE
    LookupFaultBound  \* bound: lookups that fail

Nothing == "nothing"
Opcode == "opcode"
Coinbase == "coinbase"      \* COINBASE_PREV_TXID

IsList(outs) == Len(outs) \in Nat /\ DOMAIN outs = 1..Len(outs)
ASSUME ParsingAssumption ==
    /\ FundingVoutBase \in Nat /\ LookupFaultBound \in Nat
    /\ \A t \in Transactions : IsList(t.outs) /\ Len(t.outs) <= FundingVoutBase
    /\ Nothing \notin DOMAIN Ledger /\ \A id \in DOMAIN Ledger : IsList(Ledger[id].outs)

VARIABLES
    network,
    tx, height,    \* the transaction and the block it is in
    step,          \* the lookup the parse waits for, or how it ended
    parse,         \* the locals of the parse
    lookupFaults

parseVars == <<network, tx, height, step, parse, lookupFaults>>

Lookups == {"commit", "prevout", "funder", "fees"}
Ends == {"parsed", "null", "thrown"}

NoParse == [payload |-> <<>>, funding |-> FALSE, envelope |-> FALSE,
            wantsSource |-> FALSE, source |-> Nothing, firstHop |-> Nothing]

ParseInit ==
    /\ network \in Networks
    /\ tx \in Transactions /\ height \in Heights
    /\ step = "start" /\ parse = NoParse
    /\ lookupFaults = 0

-----------------------------------------------------------------------------
(* What the transaction itself shows. *)

\* Has a first input, which spends an output and is no peg-in.
Ordinary == tx.ins /= <<>> /\ tx.ins[1].prev[1] /= Coinbase /\ tx.ins[1].standard

EnvelopeActive == height >= network.envelopeAt
CarrierRecognitionActive == height >= network.carrierAt

\* detectEnvelopeWitness of every input.
EnvelopeInputs == IF EnvelopeActive THEN {i \in DOMAIN tx.ins : tx.ins[i].envelope /= <<>>} ELSE {}

Carriers == {tx.outs[i].carrier : i \in DOMAIN tx.outs} \ {Nothing}
Markers == Carriers \cap {"p2sh", "p2wsh"}

\* The push of data in an input's redeem script that a marker points at; a chain
\* without segwit has no witness to read.
ChunkOf(input, marker) ==
    CASE marker = "p2sh" -> input.scriptSig
      [] marker = "p2wsh" /\ network.segwit -> input.witness
      [] OTHER -> Nothing

\* readP2shChunks and readP2wshChunks.
Chunks(marker) ==
    SelectSeq([i \in DOMAIN tx.ins |-> ChunkOf(tx.ins[i], marker)], LAMBDA c : c /= Nothing)
UnreadableChunk == \E m \in Markers : \E i \in DOMAIN Chunks(m) : Chunks(m)[i] = "unreadable"

\* readOpReturnCarrier and readMultisignCarrier: what one output contributes.
Contribution(out) == IF out.carrier \in Markers THEN Chunks(out.carrier) ELSE out.data

\* scanOutputs.
OutputPayload == FlattenSeq([i \in DOMAIN tx.outs |-> Contribution(tx.outs[i])])

\* captureOutputAddress: outputs are numbered from 0.
OwnOutputs ==
    {[vout |-> i - 1, address |-> tx.outs[i].address] :
        i \in {j \in DOMAIN tx.outs : tx.outs[j].address /= Nothing}}
DispenseOutputs == {o \in OwnOutputs : o.address \in OpenAddresses}

-----------------------------------------------------------------------------
(* Arbitration and decompilation. *)

\* Another carrier, by what it left and, above its own gate, by being recognized.
OtherCarrier ==
    \/ OutputPayload /= <<>> \/ Markers /= {}
    \/ CarrierRecognitionActive /\ Carriers /= {}

\* arbitrateEnvelope: one envelope, alone, in the first input.
EnvelopeCarries == EnvelopeInputs = {1} /\ ~OtherCarrier
EnvelopeRejected == EnvelopeInputs /= {} /\ ~EnvelopeCarries

ArbitratedPayload ==
    IF EnvelopeCarries THEN tx.ins[1].envelope ELSE IF EnvelopeRejected THEN <<>> ELSE OutputPayload

\* decompilePayload: the first push is the action; its raw data goes with it.
ActionOf(payload) == IF payload = <<>> \/ Head(payload) = Opcode THEN Nothing ELSE Head(payload)

Decompiled ==
    [payload |-> ArbitratedPayload,
     funding |-> EnvelopeCarries \/ (Markers /= {} /\ ~EnvelopeRejected),
     envelope |-> EnvelopeCarries,
     wantsSource |-> ActionOf(ArbitratedPayload) /= Nothing \/ DispenseOutputs /= {},
     source |-> Nothing, firstHop |-> Nothing]

-----------------------------------------------------------------------------
(* Lookups. *)

FirstPrev == tx.ins[1].prev
NoOutput == [script |-> Nothing, address |-> Nothing]
OutputAt(prev) ==
    LET outs == Ledger[prev[1]].outs IN IF prev[2] \in DOMAIN outs THEN outs[prev[2]] ELSE NoOutput

LookupOf(s) == IF s = "funder" THEN Ledger[FirstPrev[1]].from[1] ELSE FirstPrev[1]

\* attributeFundingFees: the transaction of the first hop is fetched once.
FeesNext(p) == IF p.funding /\ p.firstHop = Nothing /\ FeeAddress /= Nothing THEN "fees" ELSE "parsed"

\* Mutant: the walk back asks the node for the all-zero txid.
FunderNextAlways == "funder"

\* A coinbase has no funder: a throw, the same on every instance.
FunderNext == IF Ledger[FirstPrev[1]].from[1] = Coinbase THEN "thrown" ELSE "funder"

\* p2wshWalkbackEnabled and revealCarrierType.
WalksBack(script) ==
    \/ script = "p2sh"
    \/ script = "p2wsh" /\ (network.segwit \/ height < network.walkbackGateAt)

\* Up to the first lookup.
ParseBegins ==
    /\ step = "start"
    /\ \/ ~Ordinary /\ step' = "null" /\ UNCHANGED parse
       \/ Ordinary /\ UnreadableChunk /\ step' = "thrown" /\ UNCHANGED parse
       \/ /\ Ordinary /\ ~UnreadableChunk
          /\ parse' = Decompiled
          /\ step' = IF EnvelopeCarries THEN "commit"
                     ELSE IF Decompiled.wantsSource THEN "prevout" ELSE FeesNext(Decompiled)
    /\ UNCHANGED <<network, tx, height, lookupFaults>>

\* transactionFromHex outside the tagged try: bytes that do not decode are content.
Answered(s) == step = s /\ LookupOf(s) \in DOMAIN Ledger
Undecodable(s) ==
    /\ Answered(s) /\ ~Ledger[LookupOf(s)].decodes
    /\ step' = "thrown"
    /\ UNCHANGED <<network, tx, height, parse, lookupFaults>>
Arrives(s) ==
    /\ Answered(s) /\ Ledger[LookupOf(s)].decodes
    /\ UNCHANGED <<network, tx, height, lookupFaults>>

CommitArrives ==
    /\ Arrives("commit")
    /\ parse' = [parse EXCEPT !.firstHop = FirstPrev[1]]
    /\ step' = IF parse.wantsSource THEN FunderNext ELSE "parsed"

PrevoutArrives ==
    /\ Arrives("prevout")
    /\ LET out == OutputAt(FirstPrev)
           hop == [parse EXCEPT !.firstHop = FirstPrev[1]]
       IN  IF WalksBack(out.script)
           THEN parse' = hop /\ step' = FunderNext
           ELSE parse' = [hop EXCEPT !.source = out.address] /\ step' = FeesNext(hop)

FunderArrives ==
    /\ Arrives("funder")
    /\ parse' = [parse EXCEPT !.source = OutputAt(Ledger[FirstPrev[1]].from).address]
    /\ step' = FeesNext(parse)

\* findFundingFeeOutputs without a transaction at hand.
FeesArrive ==
    /\ Arrives("fees")
    /\ parse' = [parse EXCEPT !.firstHop = FirstPrev[1]]
    /\ step' = "parsed"

\* rpcLookupFailure: no answer from the node, or an empty one.
LookupMissing(s) ==
    /\ step = s
    /\ \/ LookupOf(s) \notin DOMAIN Ledger /\ UNCHANGED lookupFaults
       \/ lookupFaults < LookupFaultBound /\ lookupFaults' = lookupFaults + 1
    /\ UNCHANGED <<network, tx, height>>

\* Mutant: a funder that cannot be fetched is a funder that has no address.
LookupFailsSilently(s) ==
    /\ LookupMissing(s)
    /\ IF s = "funder" THEN step' = FeesNext(parse) /\ UNCHANGED parse
                       ELSE step' = "start" /\ parse' = NoParse

LookupFails(s) == LookupMissing(s) /\ step' = "start" /\ parse' = NoParse

\* The block loop goes on.
ParseEnded == step \in Ends /\ UNCHANGED parseVars

ParseAdvances ==
    \/ ParseBegins \/ CommitArrives \/ PrevoutArrives \/ FunderArrives \/ FeesArrive
    \/ \E s \in Lookups : Undecodable(s)

ParseNext == ParseAdvances \/ ParseEnded \/ \E s \in Lookups : LookupFails(s)

ParseSpec == ParseInit /\ [][ParseNext]_parseVars

\* Every call is answered or times out.
ParseFairness == WF_parseVars(ParseAdvances)

-----------------------------------------------------------------------------
(* The outputs of the result. *)

\* findFundingFeeOutputs, shifted out of the way of the transaction's own vouts.
FundingFees ==
    IF ~parse.funding \/ parse.firstHop = Nothing \/ FeeAddress = Nothing THEN {}
    ELSE LET outs == Ledger[parse.firstHop].outs
         IN  {[vout |-> FundingVoutBase + i - 1, address |-> FeeAddress] :
                i \in {j \in DOMAIN outs : outs[j].address = FeeAddress}}

\* buildParseResult.
RecordedOutputs == OwnOutputs \cup FundingFees

-----------------------------------------------------------------------------
(* Properties. *)

\* Who pays for the transaction: the owner of the output its first input spends
\* or, of a reveal, of the output that its commit spends.
Sender ==
    LET reveal == parse.envelope \/ WalksBack(OutputAt(FirstPrev).script)
    IN  OutputAt(IF reveal THEN Ledger[FirstPrev[1]].from ELSE FirstPrev).address

\* The fee a reveal pays is an output of its commit.
CommitFees ==
    LET outs == Ledger[FirstPrev[1]].outs
    IN  {i \in DOMAIN outs : FeeAddress /= Nothing /\ outs[i].address = FeeAddress}

\* However many lookups failed on the way, a parse that ends has the one answer
\* every instance must come to: its sender is the one who paid, never nobody
\* because a fetch failed (fetchPrevoutTransaction: a lookup that fails is not a
\* prevout that does not exist); a reveal has the fees of its commit, and neither
\* its funder's nor none; no vout is recorded twice (rollbackDuplicateOutput:
\* the parser never yields one vout twice); and above the second gate an
\* envelope is the action only if nothing else carries one.
ParseAgrees ==
    step = "parsed" =>
        /\ parse.source = IF parse.wantsSource THEN Sender ELSE Nothing
        /\ Cardinality(FundingFees) = IF parse.funding THEN Cardinality(CommitFees) ELSE 0
        /\ \A i \in CommitFees : parse.funding =>
               [vout |-> FundingVoutBase + i - 1, address |-> FeeAddress] \in RecordedOutputs
        /\ \A o, q \in RecordedOutputs : o.vout = q.vout => o = q
        /\ CarrierRecognitionActive /\ EnvelopeInputs /= {} /\ ActionOf(parse.payload) /= Nothing =>
               Carriers = {} /\ Cardinality(EnvelopeInputs) = 1

\* A parse comes to an end once the node answers: what fails on every instance is
\* thrown to the quarantine ladder, and never looked up for ever
\* (fetchCommitFundingOutput, getEnvelopeSourceFromCommit).
ParseSettles == step \in Lookups ~> step \in Ends
=============================================================================
