---------------------------- MODULE OutputCapture ----------------------------
(***************************************************************************)
(* What one transaction's DISPENSER and COINPAY commands register and      *)
(* which of its outputs are stored (transaction_ingest.js,                 *)
(* dispenser_registration.js, dispenser_and_oracle_fees.js,                *)
(* dispenser_wide_expiration.js, dispenser_registration_collapse.js).  A   *)
(* transaction is a source and the list of commands captureCommands gives. *)
(* The indexer sees only the stored outputs, and it names a dispenser by   *)
(* an id the decoder does not have.                                        *)
(***************************************************************************)
EXTENDS Integers, Sequences, FiniteSets, FiniteSetsExt

CONSTANTS
    Payers,       \* sources of transactions
    Creates,      \* v0 creates: [kind, name, coin, get, oracle, token]
    TxBound,      \* bound on transactions
    BatchBound,   \* bound on the commands of one transaction
    AddressId,    \* id of an address in index_addresses: spellings may share one
    DefaultDays,  \* getDefaultExpiration of the block
    MaxSafe       \* MAX_SAFE_DISPENSER_EXPIRATION

None == ""
Payees == {"fee", "o1", "o2", "buyer"}
Unresolved == {"^7"}      \* compacted ^<id> references
Tokens == {"omitted", "soon", "late", "almost", "wide", "overflow", "fraction"}

ASSUME CreateAssumption ==
    /\ DefaultDays \in 0..MaxSafe /\ MaxSafe \in Nat /\ MaxSafe >= 3
    /\ \A c \in Creates : /\ c.kind = "create" /\ c.token \in Tokens
                          /\ c.oracle \in {None} \cup Unresolved \cup Payees

VARIABLES
    captureArmed,  \* the capture gates of the block's network, all or none
    registry,      \* dispensers: [tx, id, src, oracle, exp]
    opened,        \* the indexer's dispensers: [tx, get, src, oracle, exp]
    lastTx         \* the transaction ingested last: [n, source, list, stored]

captureVars == <<captureArmed, registry, opened, lastTx>>

NoId == 0
NoExpiration == -1
Refill == [kind |-> "refill"]
CoinPay == [kind |-> "coinpay"]
FeeDestination == "fee"

\* The wire tokens of EXPIRATION by what the checks tell apart, and the value
\* the indexer reads exactly; `almost' is a fraction whose Number is integral.
WireValue == [soon |-> 1, late |-> 3, almost |-> NoExpiration, wide |-> MaxSafe + 1,
              overflow |-> NoExpiration, fraction |-> NoExpiration]
AsNumber == [soon |-> 1, late |-> 3, almost |-> 3, wide |-> NoExpiration,
             overflow |-> NoExpiration, fraction |-> NoExpiration]

\* normalizeDispenserExpiration and hasValidExpirationToken.
ExpirationOf(token) ==
    CASE token = "omitted" -> DefaultDays
      [] token = "wide" /\ captureArmed -> MaxSafe
      [] token = "almost" /\ captureArmed -> NoExpiration
      [] OTHER -> AsNumber[token]

Operating(c, source) == IF c.get = None THEN source ELSE c.get

\* dispenserCommandPrefixFor: the bare name below the gate.
IsDispenser(c) == c.kind = "create" /\ (captureArmed => c.name = "DISPENSER")

\* collectDispenserCreates, pushV0DispenserCreate, pushOperatingAddressCreate:
\* the creates of the list that become candidates, by their places in it.
Accepted(c) ==
    /\ IsDispenser(c) /\ c.coin = "own"
    /\ ExpirationOf(c.token) /= NoExpiration
    /\ c.get \notin Unresolved
Candidates(list, source) ==
    [i \in {j \in DOMAIN list : Accepted(list[j])} |->
        [addr |-> Operating(list[i], source),
         oracle |-> IF list[i].oracle \in Unresolved THEN None ELSE list[i].oracle,
         exp |-> ExpirationOf(list[i].token)]]

\* The key creates collapse on: the address id above its gate, else the spelling.
SameKey(a, b) == IF captureArmed THEN AddressId[a.addr] = AddressId[b.addr] ELSE a.addr = b.addr

\* collapseRegistrationsByKey: the latest expiration of the group.
CollapsedExpiration(cands, group) == Max({cands[j].exp : j \in group})

\* Mutant: the first create decides, oracle or none.
CollapsedOracleFirst(cands, group) == cands[Min(group)].oracle

\* ... and the first oracle named.
CollapsedOracle(cands, group) ==
    LET naming == {j \in group : cands[j].oracle /= None}
    IN  IF naming = {} THEN None ELSE cands[Min(naming)].oracle

\* registerDispenser: one row per transaction and address id; a later insert of
\* the same key is reported as already stored.
RegisteredRows(cands, source, n) ==
    {LET first == Min({j \in DOMAIN cands : AddressId[cands[j].addr] = id})
         group == {j \in DOMAIN cands : SameKey(cands[j], cands[first])}
     IN  [tx |-> n, id |-> id,
          src |-> IF AddressId[source] = id THEN NoId ELSE AddressId[source],
          oracle |-> CollapsedOracle(cands, group),
          exp |-> CollapsedExpiration(cands, group)]
     : id \in {AddressId[cands[j].addr] : j \in DOMAIN cands}}

RowsOfSource(source) ==
    {r \in registry : r.oracle /= None /\ AddressId[source] \in {r.id, r.src}}

\* getOpenDispenserOracleAddressesBySource; below its gate the one row ranked
\* first, by operating address and then the newest.
RefillOracles(source) ==
    LET mine == RowsOfSource(source)
        own == {r \in mine : r.id = AddressId[source]}
        ranked == IF own = {} THEN mine ELSE own
    IN  {r.oracle : r \in IF captureArmed THEN mine
                          ELSE {q \in ranked : \A p \in ranked : p.tx <= q.tx}}

\* resolveOracleFeeAddresses
OraclesOf(c, source) ==
    CASE c.kind = "create" /\ c.name = "DISPENSER" -> {c.oracle} \ (Unresolved \cup {None})
      [] c.kind = "refill" -> RefillOracles(source)
      [] OTHER -> {}

ListOf(list) == {list[i] : i \in DOMAIN list}

\* capturePaymentOutputs of a transaction that pays every payee.
StoredOutputs(list, source) ==
    LET oracles == UNION {OraclesOf(c, source) : c \in ListOf(list)}
    IN  IF CoinPay \in ListOf(list) THEN Payees
        ELSE Payees \cap (oracles \cup {FeeDestination})

-----------------------------------------------------------------------------
(* The indexer, as the decoder's comments describe it (external). *)

IndexerExpiration(token) == IF token = "omitted" THEN DefaultDays ELSE WireValue[token]

\* A create opens when its fields are valid and its oracle's fee is among the
\* stored outputs.
IndexerOpens(list, source, n, stored) ==
    {[tx |-> n, get |-> Operating(c, source), src |-> source, oracle |-> c.oracle,
      exp |-> IndexerExpiration(c.token)] :
        c \in {x \in ListOf(list) :
            /\ x.kind = "create" /\ x.name = "DISPENSER" /\ x.coin = "own"
            /\ IndexerExpiration(x.token) /= NoExpiration
            /\ x.oracle = None \/ x.oracle \in stored}}

-----------------------------------------------------------------------------

CaptureInit ==
    /\ captureArmed \in BOOLEAN /\ registry = {} /\ opened = {}
    /\ lastTx = [n |-> 0, source |-> None, list |-> <<>>, stored |-> {}]

\* persistTransaction: the outputs, then the creates, in one transaction with
\* the block; a failed lookup or insert retries the whole block.
PersistTransaction(source, list) ==
    LET n == lastTx.n + 1
        stored == StoredOutputs(list, source)
    IN  /\ lastTx.n < TxBound
        /\ registry' = registry \cup RegisteredRows(Candidates(list, source), source, n)
        /\ opened' = opened \cup IndexerOpens(list, source, n, stored)
        /\ lastTx' = [n |-> n, source |-> source, list |-> list, stored |-> stored]
        /\ UNCHANGED captureArmed

Lists == UNION {[1..n -> Creates \cup {Refill, CoinPay}] : n \in 1..BatchBound}

CaptureNext == \E source \in Payers, list \in Lists : PersistTransaction(source, list)

CaptureSpec == CaptureInit /\ [][CaptureNext]_captureVars

-----------------------------------------------------------------------------
(* Properties. *)

\* A dispenser the indexer opened on an address it can read is in the registry
\* until the indexer's own expiration at the least, however many creates of the
\* transaction share the row: payments to it are captured
\* (collapseDispenserRegistrations, normalizeDispenserExpiration).
OpenIsHeldOpen ==
    captureArmed => \A d \in opened : d.get \notin Unresolved =>
        \E r \in registry : /\ r.tx = d.tx /\ r.id = AddressId[d.get]
                            /\ r.exp >= d.exp \/ r.exp = MaxSafe

\* The oracle fee of a refill is among the stored outputs, whichever open
\* dispenser of its source the refill names; only where one transaction opened
\* two dispensers of different oracles on one address is the second one's lost
\* (resolveOracleFeeAddressesForCommands; the residual stated in
\* batch_sub_command_capture.js).
RefillFeeSeen ==
    captureArmed /\ Refill \in ListOf(lastTx.list) =>
        \A d \in opened :
            /\ d.tx < lastTx.n /\ d.oracle /= None /\ d.get \notin Unresolved
            /\ AddressId[lastTx.source] \in {AddressId[d.get], AddressId[d.src]}
            /\ \A e \in opened : e.tx = d.tx /\ AddressId[e.get] = AddressId[d.get] /\ e.oracle /= None
                                    => e.oracle = d.oracle
            => d.oracle \in lastTx.stored

\* Above the gates every row belongs to a dispenser the indexer opened, save
\* for one whose oracle the decoder cannot read: no payment is taken for a
\* dispense nobody settles (dispenserOpensForThisChain,
\* dispenserCommandPrefixFor, hasValidExpirationToken).
RegistersOnlyOpen ==
    captureArmed => \A r \in {q \in registry : q.tx = lastTx.n} :
        \/ \E d \in opened : d.tx = r.tx /\ AddressId[d.get] = r.id
        \/ \E c \in ListOf(lastTx.list) : c.kind = "create" /\ c.oracle \in Unresolved

\* The registry and the stored outputs of a transaction agree with the indexer: an
\* open dispenser is held open, a row belongs to one, and a refill's fee is seen
\* (persistTransaction, registerDispenser).
RegistryMirrorsIndexer == OpenIsHeldOpen /\ RegistersOnlyOpen /\ RefillFeeSeen
=============================================================================
