----------------------------- MODULE MCTxIngest -----------------------------
(***************************************************************************)
(* The transactions of a block: how they are taken in, and how one of them *)
(* is parsed. A behaviour is about one of the Subjects, whose variables    *)
(* move while those of the other keep their initial values.                *)
(***************************************************************************)
EXTENDS TxIngest, TxParsing

CONSTANT Subjects

VARIABLE subject

\* Three branches that fork at heights 1 and 2 and end at different heights.
Branches == {<<"a", "b">>, <<"a", "c", "d">>, <<"e", "f">>}

\* At each height the branches hold other kinds at the same position: a
\* storable transaction where a sibling throws or is rejected.
ForkedTxs ==
    [h \in {"a", "b", "c", "d", "e", "f"} |->
        CASE h = "a" -> <<"store", "plain", "skip">>
          [] h = "b" -> <<"throw", "store", "poison">>
          [] h = "c" -> <<"store", "store">>
          [] h = "d" -> <<"skip", "store">>
          [] h = "e" -> <<"poison", "store">>
          [] h = "f" -> <<"store", "throw">>]

\* The same, but every block's last consumed tx_index is a stored row's.
NoTrailingSkip ==
    [h \in DOMAIN ForkedTxs |->
        IF h = "a" THEN <<"skip", "plain", "store">> ELSE ForkedTxs[h]]

\* Confirmed transactions: a wallet's funding, a commit with chunk and taproot
\* outputs and a fee, and commits that are a coinbase or whose funder does not
\* decode.
Out(script, address) == [script |-> script, address |-> address]
Confirmed(from, outs) == [decodes |-> TRUE, from |-> from, outs |-> outs]
MCLedger ==
    [fund    |-> Confirmed(<<"mined", 1>>, <<Out("key", "s"), Out("key", "fee")>>),
     commit  |-> Confirmed(<<"fund", 1>>,
                     <<Out("p2sh", "c"), Out("p2wsh", "w"), Out("key", "fee"), Out("bare", Nothing)>>),
     mined   |-> Confirmed(<<Coinbase, 1>>, <<Out("p2sh", "c"), Out("key", "m")>>),
     stray   |-> Confirmed(<<"garbled", 1>>, <<Out("p2sh", "c")>>),
     far     |-> Confirmed(<<"fund", 7>>, <<Out("p2sh", "c")>>),
     garbled |-> [decodes |-> FALSE, from |-> <<"fund", 1>>, outs |-> <<>>]]

Input(prev) ==
    [prev |-> prev, standard |-> TRUE, scriptSig |-> Nothing, witness |-> Nothing, envelope |-> <<>>]
FirstInputs ==
    {Input(prev) : prev \in {<<"commit", n>> : n \in 1..5} \cup
                            {<<id, 1>> : id \in {"fund", "mined", "stray", "far", "garbled", Coinbase}}}
    \cup {[Input(<<"fund", 1>>) EXCEPT !.standard = FALSE]}
Loaded ==
    {<<Nothing, Nothing, <<>>>>, <<"act", "act", <<>>>>, <<Opcode, "unreadable", <<>>>>,
     <<Nothing, Nothing, <<"env", "raw">>>>, <<Nothing, Nothing, <<Opcode>>>>}
Load(input, l) == [input EXCEPT !.scriptSig = l[1], !.witness = l[2], !.envelope = l[3]]

Pays(address) == [address |-> address, carrier |-> Nothing, data |-> <<>>]
Carries(carrier, data) == [address |-> Nothing, carrier |-> carrier, data |-> data]
OutputLists ==
    {<<>>, <<Pays("b"), Pays("fee")>>, <<Pays("d")>>, <<Carries("opReturn", <<"act">>), Pays("b")>>,
     <<Carries("opReturn", <<>>), Pays("d")>>, <<Carries("p2sh", <<>>), Pays("b"), Pays("d")>>,
     <<Carries("p2wsh", <<>>), Pays("fee")>>,
     <<Carries("multisign", <<Opcode, "raw">>), Carries("opReturn", <<"act">>)>>}

MCTransactions ==
    {[ins |-> <<Load(i, l)>> \o more, outs |-> outs] :
        i \in FirstInputs, l \in Loaded, outs \in OutputLists,
        more \in {<<>>, <<[Input(<<"fund", 2>>) EXCEPT !.scriptSig = "act", !.envelope = <<"env">>]>>}}
    \cup {[ins |-> <<>>, outs |-> <<Pays("d")>>]}

\* A chain with segwit and both envelope gates, and one without either, where the
\* walk back over a witness script is gated.
Never == 99
MCNetworks ==
    {[segwit |-> TRUE, envelopeAt |-> 2, carrierAt |-> 3, walkbackGateAt |-> Never],
     [segwit |-> FALSE, envelopeAt |-> Never, carrierAt |-> Never, walkbackGateAt |-> 2]}

MCVars == <<vars, parseVars, subject>>

MCInit ==
    /\ subject \in Subjects
    /\ Init /\ ParseInit
    /\ subject = "block" => /\ tx.ins = <<>> /\ network.segwit /\ height = 1
    /\ subject = "parse" => node = CHOOSE c \in Chains : TRUE

MCNext ==
    /\ UNCHANGED subject
    /\ \/ subject = "block" /\ Next /\ UNCHANGED parseVars
       \/ subject = "parse" /\ ParseNext /\ UNCHANGED vars

MCSpec ==
    /\ MCInit /\ [][MCNext]_MCVars
    /\ (subject = "block" /\ WF_vars(LoopStep)) \/ (subject = "parse" /\ ParseFairness)
=============================================================================
