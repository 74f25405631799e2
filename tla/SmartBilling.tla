---------------------------- MODULE SmartBilling ----------------------------
(***************************************************************************)
(* The off-chain smart contracts of the Smart Billing Platform             *)
(* (npl/src/main/npl/sbp) as the API backend drives them.                  *)
(*                                                                         *)
(* A protocol instance lives on the heap of the Noumena engine.  Every     *)
(* permission call of the API is one engine transaction: nested permission *)
(* calls belong to it, and a failed guard, a call in the wrong protocol    *)
(* state or an empty getOrFail() rolls all of it back.  So one action of   *)
(* this module is one whole transaction, and a rejected call is no step.   *)
(*                                                                         *)
(* Each heap is a function whose domain is the set of instances created so *)
(* far.  An invoice has at most one offer, so an offer is identified by    *)
(* its originalInvoice.                                                    *)
(***************************************************************************)
EXTENDS Integers, FiniteSets, FiniteSetsExt

CONSTANTS
    Participants,     \* identities the engine can give to participants,
    Contracts,        \* ... contracts,
    Milestones,       \* ... milestones
    Invoices,         \* ... and invoices
    PaymentDetails,   \* records with a field iban (name and address abstracted)
    Documents,        \* invoice number, debtor, deadline and issue date, together
    Terms,            \* of these, the debtor and the deadline of each document
    WellFormed,       \* documents with a number and issueDate <= deadline
    Currencies,       \* support.CCY
    Amounts,          \* the face values and goods values the requests carry
    Asks,             \* the offer amounts the requests carry
    MilestoneInputs,  \* the support.MilestoneDetails values the requests carry
    Unit,             \* offer prices are counted in 1/Unit of a currency unit
    None              \* the empty Option

VARIABLES
    participants,     \* SBP.participants
    participant,      \* the Participant instances
    contract,         \* the Contract instances
    milestone,        \* the Milestone instances
    invoice,          \* the Invoice instances
    offer             \* the Offer instances, by original invoice

vars == <<participants, participant, contract, milestone, invoice, offer>>

-----------------------------------------------------------------------------
(* Types *)

\* support.Amount: nothing keeps a Number from being negative
Amount == [amount : Int, ccy : Currencies]

Option(S) == S \cup {None}

MilestoneDetails ==
    [amount : Amount, offerAmount : Option(Amount), invoiceToTrade : BOOLEAN,
     payAhead : BOOLEAN]  \* payAhead: the period timeToPay is not negative

Participant ==
    [paymentDetails : PaymentDetails, trackRecord : Nat,
     issuedInvoices : SUBSET Invoices, boughtOffers : SUBSET Invoices,
     contracts : SUBSET Contracts]

Contract ==
    [supplier : Participants, supplierDetails : PaymentDetails,
     goodsValue : Amount, milestones : SUBSET Milestones,
     state : {"createdBySupplier", "creationFinalised", "closed"}]

\* due: the document the backend will bill it with, fixed by dateCompleted and
\* originalPaymentDeadline when the milestone is reached
Milestone ==
    [contract : Contracts, details : MilestoneDetails, due : Option(Documents),
     originalInvoice : Option(Invoices), state : {"created", "reached", "closed"}]

Invoice ==
    [milestone : Option(Milestones), supplier : Participants,
     document : Documents, amount : Amount, creditorData : PaymentDetails,
     toBeTraded : BOOLEAN, offerAmount : Option(Amount), blockchainRef : BOOLEAN,
     state : {"created", "finalised", "traded", "paid"}]

Offer ==
    [amount : Amount, offerBuyer : Option(Participants),
     state : {"open", "assigned", "bought"}]

\* The parameters of the model: finitely many documents and requests of the
\* types of the code, and a None that is no other value.
ASSUME Parameters ==
    /\ WellFormed \subseteq Documents
    /\ DOMAIN Terms = Documents
    /\ Amounts \subseteq Amount
    /\ Asks \subseteq Amount
    /\ MilestoneInputs \subseteq MilestoneDetails
    /\ Unit \in Nat \ {0}

ASSUME NoneIsDistinct ==
    None \notin Documents \cup Invoices \cup Milestones \cup Participants \cup Amount

\* The engine gives every instance an identity; there are finitely many of them.
ASSUME FiniteInvoices == IsFiniteSet(Invoices)
ASSUME FiniteMilestones == IsFiniteSet(Milestones)
ASSUME FiniteContracts == IsFiniteSet(Contracts)

-----------------------------------------------------------------------------
(* Helpers: functions of the protocols, and heap updates *)

\* heap with the new instance obj at the unused identity id
Create(heap, id, obj) ==
    [x \in DOMAIN heap \cup {id} |-> IF x = id THEN obj ELSE heap[x]]

InitialTrackRecord == (9 * Unit) \div 10      \* 0.9
Raised(trackRecord) == (trackRecord * 21) \div 20  \* tr * (1 + 0.05)

\* Operators marked "Mutant:" are wrong on purpose.  Nothing uses them; put in
\* the place of the definition that follows, each breaks a property.

\* Mutant: no computed price
RequestedAmount(i) == invoice[i].offerAmount

\* What Offer's init and computeOfferAmount choose for invoice i.
ListedAmount(i) ==
    IF invoice[i].offerAmount # None
    THEN [invoice[i].offerAmount EXCEPT !.amount = @ * Unit]
    ELSE [amount |-> invoice[i].amount.amount
                       * participant[invoice[i].supplier].trackRecord,
          ccy    |-> invoice[i].amount.ccy]

\* SBP.verifyAuthenticity takes the first participant with these payment
\* details; a Set has no order, so it may be any holder of them.
Holders(details) == {q \in participants : participant[q].paymentDetails = details}

Matching(q, doc, amount, creditor) ==
    {i \in participant[q].issuedInvoices :
        /\ invoice[i].document = doc
        /\ invoice[i].amount = amount
        /\ invoice[i].creditorData = creditor}

VerifyAuthenticity(q, doc, amount, creditor) ==
    Cardinality(Matching(q, doc, amount, creditor)) = 1

\* Mutant: only the creditor is compared
CorrectCreditor(m, doc, amount, creditor) ==
    creditor = contract[milestone[m].contract].supplierDetails

\* Milestone.correctInvoiceData: the number and the issue date are not compared.
CorrectInvoiceData(m, doc, amount, creditor) ==
    /\ amount = milestone[m].details.amount
    /\ creditor = contract[milestone[m].contract].supplierDetails
    /\ Terms[doc] = Terms[milestone[m].due]

-----------------------------------------------------------------------------
(* Initially the SBP instance exists and nobody has registered. *)

Init ==
    /\ participants = {}
    /\ participant = <<>>
    /\ contract = <<>>
    /\ milestone = <<>>
    /\ invoice = <<>>
    /\ offer = <<>>

(***************************************************************************)
(* Participants and contracts                                              *)
(***************************************************************************)

\* createUserProtocol: a Participant and its registration with the SBP
CreateParticipant(p, details) ==
    /\ p \notin DOMAIN participant
    /\ participant' = Create(participant, p,
          [paymentDetails |-> details, trackRecord |-> InitialTrackRecord,
           issuedInvoices |-> {}, boughtOffers |-> {}, contracts |-> {}])
    /\ participants' = participants \cup {p}
    /\ UNCHANGED <<contract, milestone, invoice, offer>>

\* Mutant: equal amounts are counted once
SumOfDistinctAmounts(inputs) ==
    SumSet({inputs[m].amount.amount : m \in DOMAIN inputs})

SumOfMilestones(inputs) ==
    SumFunction([m \in DOMAIN inputs |-> inputs[m].amount.amount])

\* Participant.createContract: inputs gives the details of each milestone.
\* (A request with disordered dates is rejected and changes nothing.)
CreateContract(p, c, inputs, goodsValue) ==
    /\ p \in DOMAIN participant
    /\ c \notin DOMAIN contract
    /\ DOMAIN inputs \cap DOMAIN milestone = {}
    /\ DOMAIN inputs # {}
    /\ \A m \in DOMAIN inputs :
          /\ inputs[m].amount.ccy = goodsValue.ccy
          /\ inputs[m].offerAmount # None
                => inputs[m].offerAmount.ccy = goodsValue.ccy
    /\ SumOfMilestones(inputs) = goodsValue.amount
    /\ contract' = Create(contract, c,
          [supplier |-> p, supplierDetails |-> participant[p].paymentDetails,
           goodsValue |-> goodsValue, milestones |-> DOMAIN inputs,
           state |-> "createdBySupplier"])
    /\ milestone' = [m \in DOMAIN milestone \cup DOMAIN inputs |->
          IF m \in DOMAIN inputs
          THEN [contract |-> c, details |-> inputs[m], due |-> None,
                originalInvoice |-> None, state |-> "created"]
          ELSE milestone[m]]
    /\ participant' = [participant EXCEPT ![p].contracts = @ \cup {c}]
    /\ UNCHANGED <<participants, invoice, offer>>

\* Contract.finaliseCreation
FinaliseCreation(c) ==
    /\ c \in DOMAIN contract
    /\ contract[c].state = "createdBySupplier"
    /\ contract' = [contract EXCEPT ![c].state = "creationFinalised"]
    /\ UNCHANGED <<participants, participant, milestone, invoice, offer>>

(***************************************************************************)
(* Milestones                                                              *)
(***************************************************************************)

\* Mutant: in any state of the milestone
UpdateOfferAmountAnyTime(m, newOfferAmount) ==
    /\ m \in DOMAIN milestone
    /\ milestone[m].details.invoiceToTrade
    /\ milestone' = [milestone EXCEPT ![m].details.offerAmount = newOfferAmount]
    /\ UNCHANGED <<participants, participant, contract, invoice, offer>>

\* Milestone.updateOfferAmount
UpdateOfferAmount(m, newOfferAmount) ==
    /\ m \in DOMAIN milestone
    /\ milestone[m].state = "created"
    /\ milestone[m].details.invoiceToTrade
    /\ milestone' = [milestone EXCEPT ![m].details.offerAmount = newOfferAmount]
    /\ UNCHANGED <<participants, participant, contract, invoice, offer>>

\* Mutant: in any state of the milestone
MilestoneReachedAgain(m, due) ==
    /\ m \in DOMAIN milestone
    /\ contract[milestone[m].contract].state = "creationFinalised"
    /\ (due \in WellFormed) = milestone[m].details.payAhead
    /\ milestone' = [milestone EXCEPT ![m].state = "reached", ![m].due = due]
    /\ UNCHANGED <<participants, participant, contract, invoice, offer>>

\* Milestone.milestoneReached: the clock fixes both dates of the invoice to
\* come, and with a negative timeToPay it is due before it is issued.
MilestoneReached(m, due) ==
    /\ m \in DOMAIN milestone
    /\ milestone[m].state = "created"
    /\ contract[milestone[m].contract].state = "creationFinalised"
    /\ (due \in WellFormed) = milestone[m].details.payAhead
    /\ milestone' = [milestone EXCEPT ![m].state = "reached", ![m].due = due]
    /\ UNCHANGED <<participants, participant, contract, invoice, offer>>

(***************************************************************************)
(* Invoices                                                                *)
(***************************************************************************)

\* Mutants: no comparison of currencies; no check for duplicates
GuardsAnyCurrency(q, inv) ==
    /\ ~VerifyAuthenticity(q, inv.document, inv.amount, inv.creditorData)
    /\ inv.document \in WellFormed

GuardsAllowDuplicates(q, inv) ==
    /\ inv.offerAmount # None => inv.offerAmount.ccy = inv.amount.ccy
    /\ inv.document \in WellFormed

\* The guards of Invoice, when the lookup of the creditor meets participant q
InvoiceGuards(q, inv) ==
    /\ inv.offerAmount # None => inv.offerAmount.ccy = inv.amount.ccy
    /\ ~VerifyAuthenticity(q, inv.document, inv.amount, inv.creditorData)
    /\ inv.document \in WellFormed

\* Mutant: not registered
NewInvoiceUnregistered(i, inv) ==
    /\ i \notin DOMAIN invoice
    /\ \E q \in Holders(inv.creditorData) : InvoiceGuards(q, inv)
    /\ invoice' = Create(invoice, i, inv)
    /\ UNCHANGED participant

\* Creating an Invoice registers it with its supplier.
NewInvoice(i, inv) ==
    /\ i \notin DOMAIN invoice
    /\ \E q \in Holders(inv.creditorData) : InvoiceGuards(q, inv)
    /\ invoice' = Create(invoice, i, inv)
    /\ participant' = [participant EXCEPT ![inv.supplier].issuedInvoices = @ \cup {i}]

\* The invoice of Participant.createNewInvoice, which belongs to no contract
IndependentInvoice(p, doc, amount, creditor, trade, ask) ==
    [milestone |-> None, supplier |-> p, document |-> doc, amount |-> amount,
     creditorData |-> creditor, toBeTraded |-> trade, offerAmount |-> ask,
     blockchainRef |-> FALSE, state |-> "created"]

CreateNewInvoice(p, i, doc, amount, creditor, trade, ask) ==
    /\ p \in DOMAIN participant
    /\ creditor = participant[p].paymentDetails
    /\ NewInvoice(i, IndependentInvoice(p, doc, amount, creditor, trade, ask))
    /\ UNCHANGED <<participants, contract, milestone, offer>>

\* The invoice of Milestone.createOriginalInvoice
OriginalInvoice(m, doc, amount, creditor) ==
    [milestone |-> m, supplier |-> contract[milestone[m].contract].supplier,
     document |-> doc, amount |-> amount, creditorData |-> creditor,
     toBeTraded |-> milestone[m].details.invoiceToTrade,
     offerAmount |-> milestone[m].details.offerAmount,
     blockchainRef |-> FALSE, state |-> "created"]

\* (in every state in which the dates are set)
CreateOriginalInvoice(m, i, doc, amount, creditor) ==
    /\ m \in DOMAIN milestone
    /\ milestone[m].due # None
    /\ CorrectInvoiceData(m, doc, amount, creditor)
    /\ NewInvoice(i, OriginalInvoice(m, doc, amount, creditor))
    /\ milestone' = [milestone EXCEPT ![m].originalInvoice = i]
    /\ UNCHANGED <<participants, contract, offer>>

\* Mutant: in any state of the invoice
SetBlockChainRefAnyTime(i) ==
    /\ i \in DOMAIN invoice
    /\ invoice' = [invoice EXCEPT ![i].blockchainRef = TRUE]
    /\ UNCHANGED <<participants, participant, contract, milestone, offer>>

\* Invoice.setBlockChainRef
SetBlockChainRef(i) ==
    /\ i \in DOMAIN invoice
    /\ invoice[i].state = "created"
    /\ invoice' = [invoice EXCEPT ![i].blockchainRef = TRUE]
    /\ UNCHANGED <<participants, participant, contract, milestone, offer>>

\* Invoice.finaliseInvoice, with createOffer (whose "traded" it overwrites)
FinaliseInvoice(i) ==
    /\ i \in DOMAIN invoice
    /\ invoice[i].state = "created"
    /\ invoice[i].toBeTraded => i \notin DOMAIN offer
    /\ invoice' = [invoice EXCEPT ![i].state = "finalised"]
    /\ offer' = IF invoice[i].toBeTraded
                THEN Create(offer, i, [amount |-> ListedAmount(i),
                                       offerBuyer |-> None, state |-> "open"])
                ELSE offer
    /\ UNCHANGED <<participants, participant, contract, milestone>>

(***************************************************************************)
(* Payment and offers                                                      *)
(***************************************************************************)

\* Mutant: a traded invoice closes its milestone, too
ClosesAnyMilestone(i) == invoice[i].milestone # None

\* Invoice.pay closes the milestone of an invoice that is not traded ...
ClosesMilestone(i) == invoice[i].milestone # None /\ ~invoice[i].toBeTraded

\* Mutant: in any state of the invoice
CanPayAgain(i) ==
    ClosesMilestone(i) => milestone[invoice[i].milestone].state = "reached"

CanPay(i) ==
    /\ invoice[i].state \in {"finalised", "traded"}
    /\ ClosesMilestone(i) => milestone[invoice[i].milestone].state = "reached"

\* ... and closeMilestone asks whether all milestones of the contract are
\* closed before it closes its own.
AllMilestonesClosed(c) ==
    \A m \in contract[c].milestones : milestone[m].state = "closed"

MilestonesAfterPay(i) ==
    IF ClosesMilestone(i)
    THEN [milestone EXCEPT ![invoice[i].milestone].state = "closed"]
    ELSE milestone

ContractsAfterPay(i) ==
    IF ClosesMilestone(i) /\ AllMilestonesClosed(milestone[invoice[i].milestone].contract)
    THEN [contract EXCEPT ![milestone[invoice[i].milestone].contract].state = "closed"]
    ELSE contract

\* Mutant: every participant's track record rises
EveryoneAfterPay(q, i) == [participant[q] EXCEPT !.trackRecord = Raised(@)]

ParticipantAfterPay(q, i) ==
    [participant[q] EXCEPT
        !.trackRecord = IF q = invoice[i].supplier THEN Raised(@) ELSE @]

\* Mutants: in any state of the offer; the offer stays assigned
IsListed(i) == i \in DOMAIN offer
Assigned(o, b) == [o EXCEPT !.offerBuyer = b, !.state = "assigned"]

IsOpen(i) == i \in DOMAIN offer /\ offer[i].state = "open"

\* Offer.becomeAssigned, then becomePaid
Bought(o, b) == [o EXCEPT !.offerBuyer = b, !.state = "bought"]

\* Participant.buyOffer: becomeAssigned (which sets the buyer and registers
\* the offer with it) and becomePaid, inside the payment deadline it just set.
BuyOffer(b, i) ==
    /\ b \in DOMAIN participant
    /\ IsOpen(i)
    /\ CanPay(i)
    /\ offer' = [offer EXCEPT ![i] = Bought(@, b)]
    /\ invoice' = [invoice EXCEPT ![i].state = "paid"]
    /\ milestone' = MilestonesAfterPay(i)
    /\ contract' = ContractsAfterPay(i)
    /\ participant' = [q \in DOMAIN participant |->
          [ParticipantAfterPay(q, i) EXCEPT
              !.boughtOffers = IF q = b THEN @ \cup {i} ELSE @]]
    /\ UNCHANGED participants

\* Participant.updateOfferPrice with Offer.updateOfferAmount: only the number
\* of the offer's amount changes.
UpdateOfferPrice(p, i, newOfferAmount) ==
    /\ p \in DOMAIN participant
    /\ IsOpen(i)
    /\ participant[p].paymentDetails.iban
          = participant[invoice[i].supplier].paymentDetails.iban
    /\ offer' = [offer EXCEPT ![i].amount.amount = newOfferAmount * Unit]
    /\ UNCHANGED <<participants, participant, contract, milestone, invoice>>

\* SBP.getOpenOffers over every participant's returnMyIssuedOffers
ReturnMyIssuedOffers(p) == participant[p].issuedInvoices \cap DOMAIN offer

GetOpenOffers ==
    {i \in UNION {ReturnMyIssuedOffers(p) : p \in participants} :
        offer[i].state = "open"}

-----------------------------------------------------------------------------
(* The transactions that the API backend makes, with every argument the engine
   accepts: the backend itself bills a milestone with the document it is due. *)

Next ==
    \/ \E p \in Participants, details \in PaymentDetails :
          CreateParticipant(p, details)
    \/ \E p \in Participants, c \in Contracts, goodsValue \in Amounts,
          ms \in SUBSET Milestones : \E inputs \in [ms -> MilestoneInputs] :
          CreateContract(p, c, inputs, goodsValue)
    \/ \E c \in Contracts : FinaliseCreation(c)
    \/ \E m \in Milestones, ask \in Asks : UpdateOfferAmount(m, ask)
    \/ \E m \in Milestones, due \in Documents : MilestoneReached(m, due)
    \/ \E m \in Milestones, i \in Invoices, doc \in Documents,
          amount \in Amounts \cup {milestone[x].details.amount : x \in DOMAIN milestone},
          creditor \in PaymentDetails :
          CreateOriginalInvoice(m, i, doc, amount, creditor)
    \/ \E p \in Participants, i \in Invoices, doc \in Documents, amount \in Amounts,
          creditor \in PaymentDetails, trade \in BOOLEAN, ask \in Option(Asks) :
          CreateNewInvoice(p, i, doc, amount, creditor, trade, ask)
    \/ \E i \in Invoices : SetBlockChainRef(i)
    \/ \E i \in Invoices : FinaliseInvoice(i)
    \/ \E p \in Participants, i \in Invoices : BuyOffer(p, i)
    \/ \E p \in Participants, i \in Invoices, ask \in Asks :
          UpdateOfferPrice(p, i, ask.amount)

Spec == Init /\ [][Next]_vars

-----------------------------------------------------------------------------
(* Properties *)

HeapOK(heap, ids, T) == DOMAIN heap \subseteq ids /\ heap \in [DOMAIN heap -> T]

\* Every heap holds instances of its protocol, an offer belongs to an existing
\* invoice, and what an instance refers to exists.
HeapsOK ==
    /\ participants = DOMAIN participant
    /\ HeapOK(participant, Participants, Participant)
    /\ HeapOK(contract, Contracts, Contract)
    /\ HeapOK(milestone, Milestones, Milestone)
    /\ HeapOK(invoice, Invoices, Invoice)
    /\ HeapOK(offer, DOMAIN invoice, Offer)

ReferencesOK ==
    /\ \A c \in DOMAIN contract : contract[c].supplier \in DOMAIN participant
    /\ \A m \in DOMAIN milestone : milestone[m].contract \in DOMAIN contract
    /\ \A i \in DOMAIN invoice :
          /\ invoice[i].supplier \in DOMAIN participant
          /\ invoice[i].milestone # None => invoice[i].milestone \in DOMAIN milestone

\* The state is well typed.
TypeOK == HeapsOK /\ ReferencesOK

\* An invoice is paid exactly when its offer is bought, and a bought offer is
\* held by its buyer and by nobody else, an open one by nobody: buyOffer's two
\* calls (participant.npl:42-45) settle offer, invoice and buyer together.
SettlementAgrees ==
    /\ \A i \in DOMAIN invoice :
          invoice[i].state = "paid" <=> i \in DOMAIN offer /\ offer[i].state = "bought"
    /\ \A i \in DOMAIN offer :
          {p \in DOMAIN participant : i \in participant[p].boughtOffers} =
              IF offer[i].state = "bought" THEN {offer[i].offerBuyer} ELSE {}

\* Once finalised, an invoice is on the market exactly when it is to be traded,
\* priced in its own currency, whatever route the offer amount took: the
\* request, the milestone (and its later updates) or the track record
\* (invoice.npl:53-63, offer.npl:21-28).
ListedAsRequested ==
    \A i \in DOMAIN invoice :
        /\ i \in DOMAIN offer
              <=> invoice[i].toBeTraded /\ invoice[i].state # "created"
        /\ i \in DOMAIN offer => offer[i].amount.ccy = invoice[i].amount.ccy

\* getOpenOffers, which walks every participant's own invoices, lists every
\* open offer (SBP.npl:17-30): none is lost from the market.
EveryOpenOfferIsListed ==
    GetOpenOffers = {i \in DOMAIN offer : offer[i].state = "open"}

\* TrackRecordAfter[n]: the track record of a supplier with n paid invoices
TrackRecordAfter[n \in 0..Cardinality(Invoices)] ==
    IF n = 0 THEN InitialTrackRecord ELSE Raised(TrackRecordAfter[n - 1])

\* A supplier's track record is exactly what the number of its paid invoices
\* makes it: no payment is counted twice, missed, or credited to the buyer
\* (invoice.npl:70).
TrackRecordCountsPayments ==
    \A p \in DOMAIN participant :
        participant[p].trackRecord = TrackRecordAfter[Cardinality(
            {i \in DOMAIN invoice : invoice[i].supplier = p /\ invoice[i].state = "paid"})]

\* An invoice drawn for a milestone bills what the contract says, to the
\* contract's supplier, and only after the milestone was reached; the invoice
\* a milestone names as its own names that milestone (milestone.npl:58-102).
MilestoneInvoicesAgree ==
    /\ \A i \in DOMAIN invoice : invoice[i].milestone # None =>
          LET m == invoice[i].milestone
              c == milestone[m].contract
          IN  /\ milestone[m].state # "created"
              /\ milestone[m].originalInvoice # None
              /\ Terms[invoice[i].document] = Terms[milestone[m].due]
              /\ invoice[i].amount = milestone[m].details.amount
              /\ invoice[i].supplier = contract[c].supplier
              /\ invoice[i].creditorData = contract[c].supplierDetails
              /\ contract[c].state # "createdBySupplier"
    /\ \A m \in DOMAIN milestone : milestone[m].originalInvoice # None =>
          /\ milestone[m].originalInvoice \in DOMAIN invoice
          /\ invoice[milestone[m].originalInvoice].milestone = m

\* Participant q's registry confirms every invoice issued under its payment
\* details.
Confirms(q) ==
    \A i \in DOMAIN invoice :
        invoice[i].creditorData = participant[q].paymentDetails
            => VerifyAuthenticity(q, invoice[i].document, invoice[i].amount,
                                  invoice[i].creditorData)

\* Every registered invoice is found authentic when its recipient asks
\* (README.md:307, SBP.npl:33-61): among the holders of the same payment
\* details there is one the lookup could settle on that confirms them all.
RegisteredInvoicesVerify ==
    \A p \in participants :
        \E q \in Holders(participant[p].paymentDetails) : Confirms(q)

UniquePaymentDetails ==
    \A p, q \in participants :
        participant[p].paymentDetails = participant[q].paymentDetails => p = q

\* Every registered invoice is found authentic, and no duplicate of it is ever
\* registered, while no two participants share their payment details
\* (README.md:307, SBP.npl:33-61, invoice.npl:25).
VerifyWhenDetailsUnique ==
    UniquePaymentDetails => \A q \in participants : Confirms(q)

\* The inductive core of the two properties above: a participant's registry
\* holds exactly the invoices it supplies, under its own payment details, and
\* the guard of a new invoice keeps documents distinct.
RegistriesOK ==
    /\ \A p \in DOMAIN participant :
          participant[p].issuedInvoices = {i \in DOMAIN invoice : invoice[i].supplier = p}
    /\ \A i \in DOMAIN invoice :
          invoice[i].creditorData = participant[invoice[i].supplier].paymentDetails
    /\ \A c \in DOMAIN contract :
          contract[c].supplierDetails = participant[contract[c].supplier].paymentDetails

SameDocument(i, j) ==
    /\ invoice[i].document = invoice[j].document
    /\ invoice[i].amount = invoice[j].amount
    /\ invoice[i].creditorData = invoice[j].creditorData

NoDuplicates ==
    UniquePaymentDetails => \A i, j \in DOMAIN invoice : SameDocument(i, j) => i = j

RegistryInv == TypeOK /\ RegistriesOK /\ NoDuplicates

\* What milestone m is billed at, once it is, and is to be billed at before
BilledFor(m) ==
    IF milestone[m].originalInvoice = None
    THEN milestone[m].details.amount
    ELSE invoice[milestone[m].originalInvoice].amount

\* The bills of a contract add up to the value of its goods, in its currency: no
\* step after its creation, and no invoice drawn again under another number, puts
\* another amount in the place of the one agreed (participant.npl:63-68,
\* milestone.npl:58-102).
BillsAddUpToGoods ==
    \A c \in DOMAIN contract :
        /\ SumFunction([m \in contract[c].milestones |-> BilledFor(m).amount])
              = contract[c].goodsValue.amount
        /\ \A m \in contract[c].milestones : BilledFor(m).ccy = contract[c].goodsValue.ccy

\* The price, buyer and state of a bought offer never change again: no
\* repricing or second purchase reaches it (offer.npl:32-52).
BoughtOffersAreFinal ==
    [][\A i \in DOMAIN offer : offer[i].state = "bought" =>
          i \in DOMAIN offer' /\ offer'[i] = offer[i]]_vars

\* What was finalised, and so what its recipient verifies and IPFS holds,
\* stays as it is: only the state of a finalised invoice moves on
\* (invoice.npl:47-72).
FinalisedInvoicesAreImmutable ==
    [][\A i \in DOMAIN invoice : invoice[i].state # "created" =>
          /\ i \in DOMAIN invoice'
          /\ invoice'[i] = [invoice[i] EXCEPT !.state = invoice'[i].state]
          /\ invoice'[i].state # "created"]_vars
=============================================================================
