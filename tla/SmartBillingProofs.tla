-------------------------- MODULE SmartBillingProofs --------------------------
(***************************************************************************)
(* What SmartBilling guarantees for every value of its constants: types,   *)
(* registries and verification, the billing of milestones, trading, track  *)
(* records, and the value of a contract.                                   *)
(***************************************************************************)
EXTENDS SmartBilling, Sums

\* A heap stays a heap of its type when an instance of that type is created,
\* and the instances it held before are untouched.
LEMMA CreateType ==
    ASSUME NEW heap, NEW ids, NEW T, NEW id \in ids, NEW obj \in T,
           HeapOK(heap, ids, T)
    PROVE  /\ HeapOK(Create(heap, id, obj), ids, T)
           /\ DOMAIN Create(heap, id, obj) = DOMAIN heap \cup {id}
           /\ Create(heap, id, obj)[id] = obj
           /\ \A x \in DOMAIN heap : x # id => Create(heap, id, obj)[x] = heap[x]
  BY DEF HeapOK, Create

\* What NewInvoice does to the two heaps it changes.
LEMMA NewInvoiceType ==
    ASSUME HeapsOK, NEW i \in Invoices, NEW inv \in Invoice, NewInvoice(i, inv)
    PROVE  /\ HeapOK(invoice', Invoices, Invoice)
           /\ HeapOK(participant', Participants, Participant)
           /\ DOMAIN participant' = DOMAIN participant
           /\ i \notin DOMAIN invoice
           /\ DOMAIN invoice' = DOMAIN invoice \cup {i}
           /\ invoice'[i] = inv
           /\ \A j \in DOMAIN invoice : invoice'[j] = invoice[j]
<1>1. i \notin DOMAIN invoice /\ invoice' = Create(invoice, i, inv)
  BY DEF NewInvoice
<1>2. HeapOK(invoice, Invoices, Invoice)
  BY DEF HeapsOK
<1>3. /\ HeapOK(invoice', Invoices, Invoice)
      /\ DOMAIN invoice' = DOMAIN invoice \cup {i}
      /\ invoice'[i] = inv
      /\ \A j \in DOMAIN invoice : invoice'[j] = invoice[j]
  <2> DEFINE new == Create(invoice, i, inv)
  <2>1. /\ HeapOK(new, Invoices, Invoice)
        /\ DOMAIN new = DOMAIN invoice \cup {i}
        /\ new[i] = inv
        /\ \A j \in DOMAIN invoice : j # i => new[j] = invoice[j]
    BY <1>2 DEF Create, HeapOK
  <2> QED
    BY <1>1, <2>1
<1>4. /\ HeapOK(participant', Participants, Participant)
      /\ DOMAIN participant' = DOMAIN participant
  <2>1. HeapOK(participant, Participants, Participant)
    BY DEF HeapsOK
  <2>2. participant' = [participant EXCEPT ![inv.supplier].issuedInvoices = @ \cup {i}]
    BY DEF NewInvoice
  <2> QED
    BY <2>1, <2>2 DEF HeapOK, Participant
<1> QED
  BY <1>1, <1>3, <1>4

LEMMA RaisedType == \A t \in Nat : Raised(t) \in Nat
  BY DEF Raised

\* An update of one invoice that leaves its supplier and its milestone alone
\* keeps the heap of invoices well typed and its references as they are.
LEMMA UpdateInvoiceType ==
  ASSUME NEW i \in DOMAIN invoice, NEW new \in Invoice,
         HeapOK(invoice, Invoices, Invoice),
         new.supplier = invoice[i].supplier, new.milestone = invoice[i].milestone,
         invoice' = [invoice EXCEPT ![i] = new]
  PROVE  /\ HeapOK(invoice', Invoices, Invoice)
         /\ DOMAIN invoice' = DOMAIN invoice
         /\ \A j \in DOMAIN invoice : /\ invoice'[j].supplier = invoice[j].supplier
                                      /\ invoice'[j].milestone = invoice[j].milestone
  BY DEF HeapOK

LEMMA InitType == Init => TypeOK
  BY DEF Init, TypeOK, HeapsOK, ReferencesOK, HeapOK

\* Every transaction of the API keeps the heaps well typed.
LEMMA StepType == TypeOK /\ [Next]_vars => TypeOK'
<1> SUFFICES ASSUME TypeOK, [Next]_vars PROVE TypeOK'
  OBVIOUS
<1> USE DEF TypeOK
<1>1. ASSUME NEW p \in Participants, NEW d \in PaymentDetails,
             CreateParticipant(p, d)
      PROVE  TypeOK'
  <2> DEFINE obj == [paymentDetails |-> d, trackRecord |-> InitialTrackRecord,
             issuedInvoices |-> {}, boughtOffers |-> {}, contracts |-> {}]
  <2>1. obj \in Participant
    BY Parameters DEF Participant, InitialTrackRecord
  <2>2. HeapOK(participant', Participants, Participant)
        /\ DOMAIN participant' = DOMAIN participant \cup {p}
    BY <1>1, <2>1, CreateType DEF CreateParticipant, HeapsOK
  <2> QED
    BY <1>1, <2>2 DEF CreateParticipant, HeapsOK, ReferencesOK
<1>2. ASSUME NEW p \in Participants, NEW c \in Contracts, NEW g \in Amounts,
             NEW ms \in SUBSET Milestones, NEW inputs \in [ms -> MilestoneInputs],
             CreateContract(p, c, inputs, g)
      PROVE  TypeOK'
  <2> DEFINE obj == [supplier |-> p, supplierDetails |-> participant[p].paymentDetails,
             goodsValue |-> g, milestones |-> DOMAIN inputs,
             state |-> "createdBySupplier"]
             new(m) == [contract |-> c, details |-> inputs[m], due |-> None,
                        originalInvoice |-> None, state |-> "created"]
  <2>1. obj \in Contract
    BY <1>2, Parameters DEF CreateContract, HeapsOK, HeapOK, Participant, Contract
  <2>2. contract' = Create(contract, c, obj) /\ c \notin DOMAIN contract
    BY <1>2 DEF CreateContract
  <2>3. /\ HeapOK(contract', Contracts, Contract)
        /\ DOMAIN contract' = DOMAIN contract \cup {c}
        /\ contract'[c] = obj
        /\ \A x \in DOMAIN contract : contract'[x] = contract[x]
    <3> DEFINE heap == Create(contract, c, obj)
    <3>1. HeapOK(contract, Contracts, Contract)
      BY DEF HeapsOK
    <3>2. /\ HeapOK(heap, Contracts, Contract)
          /\ DOMAIN heap = DOMAIN contract \cup {c}
          /\ heap[c] = obj
          /\ \A x \in DOMAIN contract : x # c => heap[x] = contract[x]
      BY <2>1, <3>1 DEF Create, HeapOK
    <3> QED
      BY <2>2, <3>2
  <2>4. \A m \in ms : new(m) \in Milestone
    BY Parameters DEF Milestone, Option
  <2>5. /\ HeapOK(milestone', Milestones, Milestone)
        /\ \A m \in DOMAIN milestone' : milestone'[m].contract \in DOMAIN contract'
    BY <1>2, <2>3, <2>4 DEF CreateContract, HeapsOK, ReferencesOK, HeapOK
  <2>6. HeapOK(participant', Participants, Participant)
        /\ DOMAIN participant' = DOMAIN participant
    BY <1>2 DEF CreateContract, HeapsOK, HeapOK, Participant
  <2> QED
    BY <1>2, <2>3, <2>5, <2>6 DEF CreateContract, HeapsOK, ReferencesOK
<1>3. ASSUME NEW c \in Contracts, FinaliseCreation(c) PROVE TypeOK'
  BY <1>3 DEF FinaliseCreation, HeapsOK, ReferencesOK, HeapOK, Contract
<1>4. ASSUME NEW m \in Milestones, NEW ask \in Asks, UpdateOfferAmount(m, ask)
      PROVE  TypeOK'
  <2> DEFINE new == [milestone[m] EXCEPT !.details.offerAmount = ask]
  <2>1. m \in DOMAIN milestone /\ milestone[m] \in Milestone
    BY <1>4 DEF UpdateOfferAmount, HeapsOK, HeapOK
  <2>2. [milestone[m].details EXCEPT !.offerAmount = ask] \in MilestoneDetails
    BY <2>1, Parameters DEF Milestone, MilestoneDetails, Option
  <2>3. new \in Milestone /\ new.contract = milestone[m].contract
    BY <2>1, <2>2 DEF Milestone
  <2>4. milestone' = [milestone EXCEPT ![m] = new]
    BY <1>4 DEF UpdateOfferAmount
  <2> QED
    BY <1>4, <2>1, <2>3, <2>4 DEF UpdateOfferAmount, HeapsOK, ReferencesOK, HeapOK
<1>5. ASSUME NEW m \in Milestones, NEW due \in Documents, MilestoneReached(m, due)
      PROVE  TypeOK'
  <2> DEFINE new == [milestone[m] EXCEPT !.state = "reached", !.due = due]
  <2>1. m \in DOMAIN milestone /\ milestone[m] \in Milestone
    BY <1>5 DEF MilestoneReached, HeapsOK, HeapOK
  <2>2. new \in Milestone /\ new.contract = milestone[m].contract
    BY <2>1 DEF Milestone, Option
  <2>3. milestone' = [milestone EXCEPT ![m] = new]
    BY <1>5 DEF MilestoneReached
  <2> HIDE DEF new
  <2> QED
    BY <1>5, <2>1, <2>2, <2>3 DEF MilestoneReached, HeapsOK, ReferencesOK, HeapOK
<1>6. ASSUME NEW m \in Milestones, NEW i \in Invoices, NEW doc \in Documents,
             NEW amount, NEW creditor \in PaymentDetails,
             CreateOriginalInvoice(m, i, doc, amount, creditor)
      PROVE  TypeOK'
  <2> DEFINE inv == OriginalInvoice(m, doc, amount, creditor)
  <2>1. /\ milestone[m] \in Milestone
        /\ contract[milestone[m].contract] \in Contract
        /\ contract[milestone[m].contract].supplier \in DOMAIN participant
        /\ amount = milestone[m].details.amount
    BY <1>6 DEF CreateOriginalInvoice, CorrectInvoiceData, HeapsOK, ReferencesOK, HeapOK
  <2>2. inv \in Invoice
    BY <2>1, Parameters DEF OriginalInvoice, Milestone, Contract, MilestoneDetails, Invoice, Option
  <2>3. NewInvoice(i, inv)
    BY <1>6 DEF CreateOriginalInvoice
  <2>4. HeapOK(milestone', Milestones, Milestone)
        /\ DOMAIN milestone' = DOMAIN milestone
        /\ \A x \in DOMAIN milestone : milestone'[x].contract = milestone[x].contract
    BY <1>6 DEF CreateOriginalInvoice, HeapsOK, HeapOK, Milestone, Option
  <2>5. m \in DOMAIN milestone /\ UNCHANGED <<participants, contract, offer>>
    BY <1>6 DEF CreateOriginalInvoice
  <2>6. HeapsOK'
    BY <2>2, <2>3, <2>4, <2>5, NewInvoiceType DEF HeapsOK, HeapOK
  <2>7. /\ DOMAIN participant' = DOMAIN participant
        /\ DOMAIN invoice' = DOMAIN invoice \cup {i}
        /\ invoice'[i] = inv
        /\ \A j \in DOMAIN invoice : invoice'[j] = invoice[j]
    BY <2>2, <2>3, NewInvoiceType
  <2>8. ReferencesOK'
    BY <2>1, <2>4, <2>5, <2>7 DEF ReferencesOK, OriginalInvoice
  <2> QED
    BY <2>6, <2>8
<1>7. ASSUME NEW p \in Participants, NEW i \in Invoices, NEW doc \in Documents,
             NEW amount \in Amounts, NEW creditor \in PaymentDetails,
             NEW trade \in BOOLEAN, NEW ask \in Option(Asks),
             CreateNewInvoice(p, i, doc, amount, creditor, trade, ask)
      PROVE  TypeOK'
  <2> DEFINE inv == IndependentInvoice(p, doc, amount, creditor, trade, ask)
  <2>1. inv \in Invoice
    BY Parameters DEF IndependentInvoice, Invoice, Option
  <2>2. NewInvoice(i, inv)
    BY <1>7 DEF CreateNewInvoice
  <2>3. p \in DOMAIN participant /\ UNCHANGED <<participants, contract, milestone, offer>>
    BY <1>7 DEF CreateNewInvoice
  <2>4. HeapsOK'
    BY <2>1, <2>2, <2>3, NewInvoiceType DEF HeapsOK, HeapOK
  <2>5. /\ DOMAIN participant' = DOMAIN participant
        /\ DOMAIN invoice' = DOMAIN invoice \cup {i}
        /\ invoice'[i] = inv
        /\ \A j \in DOMAIN invoice : invoice'[j] = invoice[j]
    BY <2>1, <2>2, NewInvoiceType
  <2>6. ReferencesOK'
    BY <2>3, <2>5 DEF ReferencesOK, IndependentInvoice
  <2> QED
    BY <2>4, <2>6
<1>8. ASSUME NEW i \in Invoices, SetBlockChainRef(i) PROVE TypeOK'
  <2> DEFINE new == [invoice[i] EXCEPT !.blockchainRef = TRUE]
  <2>1. i \in DOMAIN invoice /\ invoice[i] \in Invoice
    BY <1>8 DEF SetBlockChainRef, HeapsOK, HeapOK
  <2>2. /\ new \in Invoice
        /\ new.supplier = invoice[i].supplier
        /\ new.milestone = invoice[i].milestone
    BY <2>1 DEF Invoice
  <2>3. invoice' = [invoice EXCEPT ![i] = new]
    BY <1>8 DEF SetBlockChainRef
  <2> HIDE DEF new
  <2>4. /\ HeapOK(invoice', Invoices, Invoice)
        /\ DOMAIN invoice' = DOMAIN invoice
        /\ \A j \in DOMAIN invoice : /\ invoice'[j].supplier = invoice[j].supplier
                                     /\ invoice'[j].milestone = invoice[j].milestone
    BY <2>1, <2>2, <2>3, UpdateInvoiceType DEF HeapsOK
  <2> QED
    BY <1>8, <2>4 DEF SetBlockChainRef, HeapsOK, ReferencesOK
<1>9. ASSUME NEW i \in Invoices, FinaliseInvoice(i) PROVE TypeOK'
  <2> DEFINE new == [amount |-> ListedAmount(i), offerBuyer |-> None, state |-> "open"]
  <2>1. /\ i \in DOMAIN invoice
        /\ invoice[i] \in Invoice
        /\ participant[invoice[i].supplier] \in Participant
    BY <1>9 DEF FinaliseInvoice, HeapsOK, ReferencesOK, HeapOK
  <2>2. ListedAmount(i) \in Amount
    BY <2>1, Parameters DEF ListedAmount, Invoice, Participant, Amount, Option
  <2>3. new \in Offer
    BY <2>2 DEF Offer, Option
  <2>4. HeapOK(offer', DOMAIN invoice, Offer)
    BY <1>9, <2>1, <2>3, CreateType DEF FinaliseInvoice, HeapsOK
  <2>5. /\ HeapOK(invoice', Invoices, Invoice)
        /\ DOMAIN invoice' = DOMAIN invoice
        /\ \A j \in DOMAIN invoice : /\ invoice'[j].supplier = invoice[j].supplier
                                     /\ invoice'[j].milestone = invoice[j].milestone
    <3> DEFINE updated == [invoice[i] EXCEPT !.state = "finalised"]
    <3>1. updated \in Invoice /\ updated.supplier = invoice[i].supplier
          /\ updated.milestone = invoice[i].milestone
      BY <2>1 DEF Invoice, HeapsOK, HeapOK
    <3>2. invoice' = [invoice EXCEPT ![i] = updated]
      BY <1>9 DEF FinaliseInvoice
    <3> HIDE DEF updated
    <3> QED
      BY <2>1, <3>1, <3>2, UpdateInvoiceType DEF HeapsOK
  <2> QED
    BY <1>9, <2>4, <2>5 DEF FinaliseInvoice, HeapsOK, ReferencesOK
<1>10. ASSUME NEW p \in Participants, NEW i \in Invoices, BuyOffer(p, i)
       PROVE  TypeOK'
  <2>1. /\ i \in DOMAIN invoice
        /\ i \in DOMAIN offer
        /\ invoice[i].milestone # None => invoice[i].milestone \in DOMAIN milestone
    BY <1>10 DEF BuyOffer, IsOpen, HeapsOK, ReferencesOK, HeapOK
  <2>2. HeapOK(offer', DOMAIN invoice, Offer)
    BY <1>10, <2>1 DEF BuyOffer, Bought, HeapsOK, HeapOK, Offer, Option
  <2>3. /\ HeapOK(invoice', Invoices, Invoice)
        /\ DOMAIN invoice' = DOMAIN invoice
        /\ \A j \in DOMAIN invoice : /\ invoice'[j].supplier = invoice[j].supplier
                                     /\ invoice'[j].milestone = invoice[j].milestone
    <3> DEFINE paid == [invoice[i] EXCEPT !.state = "paid"]
    <3>1. paid \in Invoice /\ paid.supplier = invoice[i].supplier
          /\ paid.milestone = invoice[i].milestone
      BY <2>1 DEF Invoice, HeapsOK, HeapOK
    <3>2. invoice' = [invoice EXCEPT ![i] = paid]
      BY <1>10 DEF BuyOffer
    <3> HIDE DEF paid
    <3> QED
      BY <2>1, <3>1, <3>2, UpdateInvoiceType DEF HeapsOK
  <2>4. /\ HeapOK(milestone', Milestones, Milestone)
        /\ DOMAIN milestone' = DOMAIN milestone
        /\ \A m \in DOMAIN milestone : milestone'[m].contract = milestone[m].contract
    <3>1. milestone' = milestone \/ \E m \in DOMAIN milestone :
                                      milestone' = [milestone EXCEPT ![m].state = "closed"]
      BY <1>10, <2>1 DEF BuyOffer, MilestonesAfterPay, ClosesMilestone
    <3> QED
      BY <3>1 DEF HeapsOK, HeapOK, Milestone
  <2>5. /\ HeapOK(contract', Contracts, Contract)
        /\ DOMAIN contract' = DOMAIN contract
        /\ \A c \in DOMAIN contract : contract'[c].supplier = contract[c].supplier
    <3>1. contract' = contract \/ \E c \in DOMAIN contract :
                                    contract' = [contract EXCEPT ![c].state = "closed"]
      BY <1>10, <2>1 DEF BuyOffer, ContractsAfterPay, ClosesMilestone, HeapsOK, ReferencesOK, HeapOK
    <3> QED
      BY <3>1 DEF HeapsOK, HeapOK, Contract
  <2>6. /\ HeapOK(participant', Participants, Participant)
        /\ DOMAIN participant' = DOMAIN participant
    <3> DEFINE new(q) == [ParticipantAfterPay(q, i) EXCEPT
                            !.boughtOffers = IF q = p THEN @ \cup {i} ELSE @]
    <3>1. ASSUME NEW q \in DOMAIN participant PROVE new(q) \in Participant
      <4>1. participant[q] \in Participant
        BY DEF HeapsOK, HeapOK
      <4>2. ParticipantAfterPay(q, i) \in Participant
        BY <4>1, RaisedType DEF ParticipantAfterPay, Participant
      <4> QED
        BY <4>2 DEF Participant
    <3>2. participant' = [q \in DOMAIN participant |-> new(q)]
      BY <1>10 DEF BuyOffer
    <3> HIDE DEF new
    <3> QED
      BY <3>1, <3>2 DEF HeapsOK, HeapOK
  <2>7. UNCHANGED participants
    BY <1>10 DEF BuyOffer
  <2> QED
    BY <2>2, <2>3, <2>4, <2>5, <2>6, <2>7 DEF HeapsOK, ReferencesOK
<1>11. ASSUME NEW p \in Participants, NEW i \in Invoices, NEW ask \in Asks,
              UpdateOfferPrice(p, i, ask.amount)
       PROVE  TypeOK'
  BY <1>11, Parameters DEF UpdateOfferPrice, IsOpen, HeapsOK, ReferencesOK, HeapOK, Offer, Amount
<1>12. CASE UNCHANGED vars
  BY <1>12 DEF vars, HeapsOK, ReferencesOK, HeapOK
<1> QED
  BY <1>1, <1>2, <1>3, <1>4, <1>5, <1>6, <1>7, <1>8, <1>9, <1>10, <1>11, <1>12
  DEF Next

\* The heaps are well typed, and every reference leads to an instance, in every
\* state the API can bring the smart contracts to.
THEOREM TypeCorrect == Spec => []TypeOK
  BY InitType, StepType, PTL DEF Spec

-----------------------------------------------------------------------------
(* Authenticity: RegistryInv is inductive. *)

\* What RegistryInv reads of the state.
SameRegistries ==
    /\ DOMAIN participant' = DOMAIN participant
    /\ \A p \in DOMAIN participant :
          /\ participant'[p].paymentDetails = participant[p].paymentDetails
          /\ participant'[p].issuedInvoices = participant[p].issuedInvoices
    /\ DOMAIN contract' = DOMAIN contract
    /\ \A c \in DOMAIN contract :
          /\ contract'[c].supplier = contract[c].supplier
          /\ contract'[c].supplierDetails = contract[c].supplierDetails
    /\ DOMAIN invoice' = DOMAIN invoice
    /\ \A i \in DOMAIN invoice :
          /\ invoice'[i].supplier = invoice[i].supplier
          /\ invoice'[i].document = invoice[i].document
          /\ invoice'[i].amount = invoice[i].amount
          /\ invoice'[i].creditorData = invoice[i].creditorData

LEMMA FrameRegistries ==
    ASSUME RegistryInv, TypeOK', SameRegistries
    PROVE  RegistriesOK' /\ NoDuplicates'
<1>1. RegistriesOK'
  BY DEF RegistryInv, RegistriesOK, SameRegistries, TypeOK, ReferencesOK
<1>2. UniquePaymentDetails' => UniquePaymentDetails
  BY DEF RegistryInv, SameRegistries, TypeOK, HeapsOK, UniquePaymentDetails
<1>3. NoDuplicates'
  BY <1>2 DEF RegistryInv, NoDuplicates, SameDocument, SameRegistries
<1> QED
  BY <1>1, <1>3

\* Registering an invoice keeps every registry exact and its documents distinct:
\* with unique payment details the only holder of the creditor's details is the
\* supplier, so the guard looked into the registry the invoice goes to.
LEMMA NewInvoiceRegistries ==
    ASSUME RegistryInv, NEW i \in Invoices, NEW inv \in Invoice,
           NewInvoice(i, inv), inv.supplier \in DOMAIN participant,
           inv.creditorData = participant[inv.supplier].paymentDetails,
           UNCHANGED <<participants, contract>>
    PROVE  RegistriesOK' /\ NoDuplicates'
<1>1. /\ i \notin DOMAIN invoice
      /\ DOMAIN invoice' = DOMAIN invoice \cup {i}
      /\ invoice'[i] = inv
      /\ \A j \in DOMAIN invoice : invoice'[j] = invoice[j]
  BY NewInvoiceType DEF RegistryInv, TypeOK
<1>2. /\ DOMAIN participant' = DOMAIN participant
      /\ \A p \in DOMAIN participant :
            /\ participant'[p].paymentDetails = participant[p].paymentDetails
            /\ participant'[p].issuedInvoices =
                  participant[p].issuedInvoices \cup (IF p = inv.supplier THEN {i} ELSE {})
  <2>1. participant' = [participant EXCEPT ![inv.supplier].issuedInvoices = @ \cup {i}]
    BY DEF NewInvoice
  <2>2. HeapOK(participant, Participants, Participant)
    BY DEF RegistryInv, TypeOK, HeapsOK
  <2> QED
    BY <2>1, <2>2 DEF HeapOK, Participant
<1>3. RegistriesOK'
  BY <1>1, <1>2 DEF RegistryInv, RegistriesOK, TypeOK, ReferencesOK
<1>4. ASSUME UniquePaymentDetails, NEW j \in DOMAIN invoice,
             invoice[j].document = inv.document, invoice[j].amount = inv.amount,
             invoice[j].creditorData = inv.creditorData
      PROVE  FALSE
  <2>1. PICK q \in Holders(inv.creditorData) :
               ~VerifyAuthenticity(q, inv.document, inv.amount, inv.creditorData)
    BY DEF NewInvoice, InvoiceGuards
  <2> DEFINE matching == Matching(q, inv.document, inv.amount, inv.creditorData)
  <2>2. /\ q \in participants
        /\ invoice[j].supplier \in participants
        /\ participant[q].paymentDetails = participant[invoice[j].supplier].paymentDetails
    BY <1>4, <2>1 DEF Holders, RegistryInv, RegistriesOK, TypeOK, HeapsOK, ReferencesOK
  <2>3. invoice[j].supplier = q
    BY <1>4, <2>2 DEF UniquePaymentDetails
  <2>4. j \in matching
    BY <1>4, <2>2, <2>3 DEF Matching, RegistryInv, RegistriesOK, TypeOK, HeapsOK
  <2>5. \A k \in matching : k = j
    BY <1>4, <2>2 DEF Matching, RegistryInv, RegistriesOK, NoDuplicates, SameDocument,
                     TypeOK, HeapsOK
  <2>6. matching = {j}
    BY <2>4, <2>5
  <2>7. Cardinality(matching) = 1
    BY <2>6, FS_Singleton
  <2> QED
    BY <2>1, <2>7 DEF VerifyAuthenticity
<1>5. UniquePaymentDetails' => UniquePaymentDetails
  BY <1>2 DEF UniquePaymentDetails, RegistryInv, TypeOK, HeapsOK
<1>6. NoDuplicates'
  BY <1>1, <1>4, <1>5 DEF RegistryInv, NoDuplicates, SameDocument
<1> QED
  BY <1>3, <1>6

LEMMA InitRegistry == Init => RegistryInv
<1> SUFFICES ASSUME Init PROVE RegistriesOK /\ NoDuplicates
  BY InitType DEF RegistryInv
<1> QED
  BY DEF Init, RegistriesOK, NoDuplicates

\* Every transaction of the API keeps the registries exact.
LEMMA StepRegistry == RegistryInv /\ [Next]_vars => RegistryInv'
<1> SUFFICES ASSUME RegistryInv, [Next]_vars PROVE RegistriesOK' /\ NoDuplicates'
  BY StepType DEF RegistryInv
<1>0. TypeOK /\ HeapsOK /\ ReferencesOK /\ TypeOK'
  BY StepType DEF RegistryInv, TypeOK
<1>1. ASSUME NEW p \in Participants, NEW d \in PaymentDetails,
             CreateParticipant(p, d)
      PROVE  RegistriesOK' /\ NoDuplicates'
  <2>1. /\ p \notin DOMAIN participant
        /\ DOMAIN participant' = DOMAIN participant \cup {p}
        /\ participant'[p].issuedInvoices = {}
        /\ \A q \in DOMAIN participant : participant'[q] = participant[q]
        /\ participants' = participants \cup {p}
        /\ UNCHANGED <<contract, milestone, invoice, offer>>
    BY <1>1 DEF CreateParticipant, Create
  <2>2. RegistriesOK'
    BY <1>0, <2>1 DEF RegistryInv, RegistriesOK, ReferencesOK
  <2>3. UniquePaymentDetails' => UniquePaymentDetails
    BY <1>0, <2>1 DEF UniquePaymentDetails, HeapsOK
  <2> QED
    BY <2>1, <2>2, <2>3 DEF RegistryInv, NoDuplicates, SameDocument
<1>2. ASSUME NEW p \in Participants, NEW c \in Contracts, NEW g \in Amounts,
             NEW ms \in SUBSET Milestones, NEW inputs \in [ms -> MilestoneInputs],
             CreateContract(p, c, inputs, g)
      PROVE  RegistriesOK' /\ NoDuplicates'
  <2>1. /\ c \notin DOMAIN contract /\ p \in DOMAIN participant
        /\ DOMAIN contract' = DOMAIN contract \cup {c}
        /\ contract'[c].supplier = p
        /\ contract'[c].supplierDetails = participant[p].paymentDetails
        /\ \A x \in DOMAIN contract : contract'[x] = contract[x]
    BY <1>2 DEF CreateContract, Create
  <2>2. /\ DOMAIN participant' = DOMAIN participant
        /\ \A q \in DOMAIN participant :
              /\ participant'[q].paymentDetails = participant[q].paymentDetails
              /\ participant'[q].issuedInvoices = participant[q].issuedInvoices
    BY <1>0, <1>2 DEF CreateContract, HeapsOK, HeapOK, Participant
  <2>3. UNCHANGED <<participants, invoice>>
    BY <1>2 DEF CreateContract
  <2>4. RegistriesOK'
    BY <1>0, <2>1, <2>2, <2>3 DEF RegistryInv, RegistriesOK, ReferencesOK
  <2>5. UniquePaymentDetails' => UniquePaymentDetails
    BY <1>0, <2>2, <2>3 DEF UniquePaymentDetails, HeapsOK
  <2> QED
    BY <2>3, <2>4, <2>5 DEF RegistryInv, NoDuplicates, SameDocument
<1>3. ASSUME NEW c \in Contracts, FinaliseCreation(c) PROVE SameRegistries
  BY <1>0, <1>3 DEF FinaliseCreation, SameRegistries, HeapsOK, HeapOK, Contract
<1>4. ASSUME NEW m \in Milestones, NEW ask \in Asks, UpdateOfferAmount(m, ask)
      PROVE  SameRegistries
  BY <1>4 DEF UpdateOfferAmount, SameRegistries
<1>5. ASSUME NEW m \in Milestones, NEW due \in Documents, MilestoneReached(m, due)
      PROVE  SameRegistries
  BY <1>5 DEF MilestoneReached, SameRegistries
<1>6. ASSUME NEW m \in Milestones, NEW i \in Invoices, NEW doc \in Documents,
             NEW amount, NEW creditor \in PaymentDetails,
             CreateOriginalInvoice(m, i, doc, amount, creditor)
      PROVE  RegistriesOK' /\ NoDuplicates'
  <2> DEFINE c == milestone[m].contract
             inv == OriginalInvoice(m, doc, amount, creditor)
  <2>1. /\ milestone[m] \in Milestone
        /\ c \in DOMAIN contract
        /\ contract[c] \in Contract
        /\ contract[c].supplier \in DOMAIN participant
        /\ creditor = contract[c].supplierDetails
        /\ amount = milestone[m].details.amount
    BY <1>0, <1>6 DEF CreateOriginalInvoice, CorrectInvoiceData, HeapsOK, ReferencesOK, HeapOK
  <2>2. inv \in Invoice
    BY <2>1, Parameters DEF OriginalInvoice, Milestone, Contract, MilestoneDetails, Invoice, Option
  <2>3. NewInvoice(i, inv) /\ UNCHANGED <<participants, contract>>
    BY <1>6 DEF CreateOriginalInvoice
  <2>4. creditor = participant[contract[c].supplier].paymentDetails
    BY <2>1 DEF RegistryInv, RegistriesOK
  <2> HIDE DEF inv
  <2>5. inv.supplier = contract[c].supplier /\ inv.creditorData = creditor
    BY DEF inv, OriginalInvoice
  <2> QED
    BY <2>1, <2>2, <2>3, <2>4, <2>5, NewInvoiceRegistries
<1>7. ASSUME NEW p \in Participants, NEW i \in Invoices, NEW doc \in Documents,
             NEW amount \in Amounts, NEW creditor \in PaymentDetails,
             NEW trade \in BOOLEAN, NEW ask \in Option(Asks),
             CreateNewInvoice(p, i, doc, amount, creditor, trade, ask)
      PROVE  RegistriesOK' /\ NoDuplicates'
  <2> DEFINE inv == IndependentInvoice(p, doc, amount, creditor, trade, ask)
  <2>1. inv \in Invoice
    BY Parameters DEF IndependentInvoice, Invoice, Option
  <2>2. /\ NewInvoice(i, inv) /\ UNCHANGED <<participants, contract>>
        /\ p \in DOMAIN participant /\ creditor = participant[p].paymentDetails
    BY <1>7 DEF CreateNewInvoice
  <2> HIDE DEF inv
  <2>3. inv.supplier = p /\ inv.creditorData = creditor
    BY DEF inv, IndependentInvoice
  <2> QED
    BY <2>1, <2>2, <2>3, NewInvoiceRegistries
<1>8. ASSUME NEW i \in Invoices, SetBlockChainRef(i) PROVE SameRegistries
  BY <1>0, <1>8 DEF SetBlockChainRef, SameRegistries, HeapsOK, HeapOK, Invoice
<1>9. ASSUME NEW i \in Invoices, FinaliseInvoice(i) PROVE SameRegistries
  BY <1>0, <1>9 DEF FinaliseInvoice, SameRegistries, HeapsOK, HeapOK, Invoice
<1>10. ASSUME NEW p \in Participants, NEW i \in Invoices, BuyOffer(p, i)
       PROVE  SameRegistries
  <2>1. /\ DOMAIN participant' = DOMAIN participant
        /\ \A q \in DOMAIN participant :
              /\ participant'[q].paymentDetails = participant[q].paymentDetails
              /\ participant'[q].issuedInvoices = participant[q].issuedInvoices
    BY <1>0, <1>10 DEF BuyOffer, ParticipantAfterPay, HeapsOK, HeapOK, Participant
  <2>2. /\ DOMAIN invoice' = DOMAIN invoice
        /\ \A j \in DOMAIN invoice :
              /\ invoice'[j].supplier = invoice[j].supplier
              /\ invoice'[j].document = invoice[j].document
              /\ invoice'[j].amount = invoice[j].amount
              /\ invoice'[j].creditorData = invoice[j].creditorData
    BY <1>0, <1>10 DEF BuyOffer, HeapsOK, HeapOK, Invoice
  <2>3. /\ DOMAIN contract' = DOMAIN contract
        /\ \A c \in DOMAIN contract :
              /\ contract'[c].supplier = contract[c].supplier
              /\ contract'[c].supplierDetails = contract[c].supplierDetails
    <3>1. contract' = contract \/ \E c \in DOMAIN contract :
                                    contract' = [contract EXCEPT ![c].state = "closed"]
      BY <1>0, <1>10 DEF BuyOffer, ContractsAfterPay, ClosesMilestone, ReferencesOK,
                         HeapsOK, HeapOK
    <3> QED
      BY <1>0, <3>1 DEF HeapsOK, HeapOK, Contract
  <2> QED
    BY <2>1, <2>2, <2>3 DEF SameRegistries
<1>11. ASSUME NEW p \in Participants, NEW i \in Invoices, NEW ask \in Asks,
              UpdateOfferPrice(p, i, ask.amount)
       PROVE  SameRegistries
  BY <1>11 DEF UpdateOfferPrice, SameRegistries
<1>12. CASE UNCHANGED vars
  <2>1. UNCHANGED participant /\ UNCHANGED contract /\ UNCHANGED invoice
    BY <1>12 DEF vars
  <2>2. SameRegistries
    BY <2>1 DEF SameRegistries
  <2> QED
    BY <1>0, <2>2, FrameRegistries
<1>13. ASSUME SameRegistries PROVE RegistriesOK' /\ NoDuplicates'
  BY <1>0, <1>13, FrameRegistries
<1> QED
  BY <1>1, <1>2, <1>3, <1>4, <1>5, <1>6, <1>7, <1>8, <1>9, <1>10, <1>11, <1>12, <1>13
  DEF Next

THEOREM RegistryInvariant == Spec => []RegistryInv
  BY InitRegistry, StepRegistry, PTL DEF Spec

\* Distinct documents in exact registries verify.
LEMMA RegistryVerifies == RegistryInv => VerifyWhenDetailsUnique
<1> SUFFICES ASSUME RegistryInv, UniquePaymentDetails, NEW q \in participants,
                    NEW i \in DOMAIN invoice,
                    invoice[i].creditorData = participant[q].paymentDetails
             PROVE  VerifyAuthenticity(q, invoice[i].document, invoice[i].amount,
                                       invoice[i].creditorData)
  BY DEF VerifyWhenDetailsUnique, Confirms
<1> DEFINE matching == Matching(q, invoice[i].document, invoice[i].amount,
                                invoice[i].creditorData)
<1>1. invoice[i].supplier = q
  BY DEF RegistryInv, RegistriesOK, TypeOK, HeapsOK, ReferencesOK, UniquePaymentDetails
<1>2. i \in matching
  BY <1>1 DEF Matching, RegistryInv, RegistriesOK, TypeOK, HeapsOK
<1>3. \A k \in matching : k = i
  BY DEF Matching, RegistryInv, RegistriesOK, NoDuplicates, SameDocument, TypeOK, HeapsOK
<1>4. matching = {i}
  BY <1>2, <1>3
<1> QED
  BY <1>4, FS_Singleton DEF VerifyAuthenticity

\* While no two participants share their payment details, every registered
\* invoice is found authentic, and no duplicate of it is ever registered
\* (README.md:307, SBP.npl:33-61, invoice.npl:25).
THEOREM RegisteredInvoicesAreAuthentic == Spec => []VerifyWhenDetailsUnique
  BY RegistryInvariant, RegistryVerifies, PTL

\* getOpenOffers lists every open offer (SBP.npl:17-30).
LEMMA RegistryListsOffers == RegistryInv => EveryOpenOfferIsListed
  BY DEF RegistryInv, RegistriesOK, TypeOK, HeapsOK, ReferencesOK, HeapOK,
         EveryOpenOfferIsListed, GetOpenOffers, ReturnMyIssuedOffers

\* In every reachable state the market shows every open offer.
THEOREM MarketIsComplete == Spec => []EveryOpenOfferIsListed
  BY RegistryInvariant, RegistryListsOffers, PTL

-----------------------------------------------------------------------------
(* Billing: an invoice drawn for a milestone and the milestone agree.          *)

\* What the guards along the way to an invoice leave behind: a milestone with a
\* document is reached, and a reached one belongs to a signed contract.
Signed ==
    \A m \in DOMAIN milestone :
        /\ milestone[m].due # None => milestone[m].state # "created"
        /\ milestone[m].state # "created" =>
              contract[milestone[m].contract].state # "createdBySupplier"

BillingInv == RegistryInv /\ Signed /\ MilestoneInvoicesAgree

\* What BillingInv reads of invoices and contracts
SameInvoices ==
    /\ DOMAIN invoice' = DOMAIN invoice
    /\ \A i \in DOMAIN invoice :
          /\ invoice'[i].milestone = invoice[i].milestone
          /\ invoice'[i].document = invoice[i].document
          /\ invoice'[i].amount = invoice[i].amount
          /\ invoice'[i].supplier = invoice[i].supplier
          /\ invoice'[i].creditorData = invoice[i].creditorData

SameContracts ==
    /\ DOMAIN contract \subseteq DOMAIN contract'
    /\ \A c \in DOMAIN contract :
          /\ contract'[c].supplier = contract[c].supplier
          /\ contract'[c].supplierDetails = contract[c].supplierDetails
          /\ contract[c].state # "createdBySupplier" => contract'[c].state # "createdBySupplier"

\* A milestone that is billed, or reached, stays as it is but for its state.
SameMilestones ==
    /\ DOMAIN milestone' = DOMAIN milestone
    /\ \A m \in DOMAIN milestone :
          /\ milestone'[m].contract = milestone[m].contract
          /\ milestone'[m].due = milestone[m].due
          /\ milestone'[m].originalInvoice = milestone[m].originalInvoice
          /\ milestone'[m].details.amount = milestone[m].details.amount
          /\ milestone[m].state # "created" => milestone'[m].state # "created"
          /\ milestone[m].state = "created" => milestone'[m].state = "created"

LEMMA BillingFrame ==
    ASSUME BillingInv, SameInvoices, SameContracts, SameMilestones
    PROVE  Signed' /\ MilestoneInvoicesAgree'
<1>1. Signed'
  BY DEF BillingInv, RegistryInv, TypeOK, ReferencesOK, Signed, SameContracts, SameMilestones
<1>2. MilestoneInvoicesAgree'
  BY DEF BillingInv, RegistryInv, TypeOK, ReferencesOK, MilestoneInvoicesAgree, SameInvoices,
     SameContracts, SameMilestones
<1> QED
  BY <1>1, <1>2

LEMMA InitBilling == Init => BillingInv
  BY InitRegistry DEF Init, BillingInv, Signed, MilestoneInvoicesAgree

LEMMA StepBilling == BillingInv /\ [Next]_vars => BillingInv'
<1> SUFFICES ASSUME BillingInv, [Next]_vars PROVE Signed' /\ MilestoneInvoicesAgree'
  BY StepRegistry DEF BillingInv
<1>0. TypeOK /\ HeapsOK /\ ReferencesOK /\ TypeOK' /\ Signed /\ MilestoneInvoicesAgree
  BY StepType DEF BillingInv, RegistryInv, TypeOK
<1>1. ASSUME NEW p \in Participants, NEW d \in PaymentDetails,
             CreateParticipant(p, d)
      PROVE  Signed' /\ MilestoneInvoicesAgree'
  BY <1>0, <1>1 DEF CreateParticipant, Signed, MilestoneInvoicesAgree
<1>2. ASSUME NEW p \in Participants, NEW c \in Contracts, NEW g \in Amounts,
             NEW ms \in SUBSET Milestones, NEW inputs \in [ms -> MilestoneInputs],
             CreateContract(p, c, inputs, g)
      PROVE  Signed' /\ MilestoneInvoicesAgree'
  <2>1. /\ c \notin DOMAIN contract
        /\ DOMAIN contract' = DOMAIN contract \cup {c}
        /\ \A x \in DOMAIN contract : contract'[x] = contract[x]
        /\ UNCHANGED <<invoice, offer>>
    BY <1>2 DEF CreateContract, Create
  <2>2. /\ DOMAIN inputs \cap DOMAIN milestone = {}
        /\ DOMAIN milestone' = DOMAIN milestone \cup DOMAIN inputs
        /\ \A m \in DOMAIN milestone : milestone'[m] = milestone[m]
        /\ \A m \in DOMAIN inputs : /\ milestone'[m].state = "created"
                                    /\ milestone'[m].due = None
                                    /\ milestone'[m].originalInvoice = None
    BY <1>2 DEF CreateContract
  <2>3. Signed'
    BY <1>0, <2>1, <2>2 DEF Signed, ReferencesOK
  <2>4. MilestoneInvoicesAgree'
    BY <1>0, <2>1, <2>2 DEF MilestoneInvoicesAgree, ReferencesOK
  <2> QED
    BY <2>3, <2>4
<1>3. ASSUME NEW c \in Contracts, FinaliseCreation(c)
      PROVE  SameInvoices /\ SameContracts /\ SameMilestones
  BY <1>0, <1>3 DEF FinaliseCreation, SameInvoices, SameContracts, SameMilestones, HeapsOK,
     HeapOK, Contract
<1>4. ASSUME NEW m \in Milestones, NEW ask \in Asks, UpdateOfferAmount(m, ask)
      PROVE  SameInvoices /\ SameContracts /\ SameMilestones
  <2>1. milestone[m] \in Milestone /\ milestone[m].details \in MilestoneDetails
    BY <1>0, <1>4 DEF UpdateOfferAmount, HeapsOK, HeapOK, Milestone
  <2>2. SameMilestones
    <3> DEFINE new == [milestone[m] EXCEPT !.details.offerAmount = ask]
    <3>1. /\ new.contract = milestone[m].contract /\ new.due = milestone[m].due
          /\ new.originalInvoice = milestone[m].originalInvoice
          /\ new.state = milestone[m].state
          /\ new.details.amount = milestone[m].details.amount
      BY <2>1 DEF Milestone, MilestoneDetails
    <3>2. milestone' = [milestone EXCEPT ![m] = new]
      BY <1>4 DEF UpdateOfferAmount
    <3> HIDE DEF new
    <3> QED
      BY <1>0, <3>1, <3>2 DEF SameMilestones, HeapsOK, HeapOK
  <2> QED
    BY <1>4, <2>2 DEF UpdateOfferAmount, SameInvoices, SameContracts
<1>5. ASSUME NEW m \in Milestones, NEW due \in Documents, MilestoneReached(m, due)
      PROVE  Signed' /\ MilestoneInvoicesAgree'
  <2>1. /\ m \in DOMAIN milestone /\ milestone[m] \in Milestone
        /\ milestone[m].state = "created"
        /\ contract[milestone[m].contract].state = "creationFinalised"
        /\ UNCHANGED <<contract, invoice>>
    BY <1>0, <1>5 DEF MilestoneReached, HeapsOK, HeapOK
  <2>2. /\ DOMAIN milestone' = DOMAIN milestone
        /\ \A x \in DOMAIN milestone : x # m => milestone'[x] = milestone[x]
        /\ milestone'[m].contract = milestone[m].contract
        /\ milestone'[m].state = "reached"
        /\ milestone'[m].originalInvoice = milestone[m].originalInvoice
        /\ milestone'[m].details = milestone[m].details
    BY <1>0, <1>5, <2>1 DEF MilestoneReached, HeapsOK, HeapOK, Milestone
  <2>3. Signed'
    BY <1>0, <2>1, <2>2 DEF Signed
  <2>4. \A i \in DOMAIN invoice : invoice[i].milestone # m
    BY <1>0, <2>1, NoneIsDistinct DEF MilestoneInvoicesAgree
  <2>5. MilestoneInvoicesAgree'
    BY <1>0, <2>1, <2>2, <2>4 DEF MilestoneInvoicesAgree, ReferencesOK
  <2> QED
    BY <2>3, <2>5
<1>6. ASSUME NEW m \in Milestones, NEW i \in Invoices, NEW doc \in Documents,
             NEW amount, NEW creditor \in PaymentDetails,
             CreateOriginalInvoice(m, i, doc, amount, creditor)
      PROVE  Signed' /\ MilestoneInvoicesAgree'
  <2> DEFINE inv == OriginalInvoice(m, doc, amount, creditor)
  <2>1. /\ m \in DOMAIN milestone /\ milestone[m] \in Milestone
        /\ milestone[m].due # None
        /\ amount = milestone[m].details.amount
        /\ creditor = contract[milestone[m].contract].supplierDetails
        /\ Terms[doc] = Terms[milestone[m].due]
        /\ UNCHANGED contract
    BY <1>0, <1>6 DEF CreateOriginalInvoice, CorrectInvoiceData, HeapsOK, HeapOK
  <2>2. /\ i \notin DOMAIN invoice
        /\ DOMAIN invoice' = DOMAIN invoice \cup {i}
        /\ invoice'[i] = inv
        /\ \A j \in DOMAIN invoice : invoice'[j] = invoice[j]
    BY <1>6 DEF CreateOriginalInvoice, NewInvoice, Create
  <2>3. /\ inv.milestone = m /\ Terms[inv.document] = Terms[milestone[m].due]
        /\ inv.amount = milestone[m].details.amount
        /\ inv.supplier = contract[milestone[m].contract].supplier
        /\ inv.creditorData = contract[milestone[m].contract].supplierDetails
    BY <2>1 DEF OriginalInvoice
  <2>4. /\ DOMAIN milestone' = DOMAIN milestone
        /\ \A x \in DOMAIN milestone : x # m => milestone'[x] = milestone[x]
        /\ milestone'[m].contract = milestone[m].contract
        /\ milestone'[m].state = milestone[m].state
        /\ milestone'[m].due = milestone[m].due
        /\ milestone'[m].details = milestone[m].details
        /\ milestone'[m].originalInvoice = i
    BY <1>0, <1>6, <2>1 DEF CreateOriginalInvoice, HeapsOK, HeapOK, Milestone
  <2>5. i # None
    BY NoneIsDistinct
  <2> HIDE DEF inv
  <2>6. Signed'
    BY <1>0, <2>1, <2>4 DEF Signed
  <2>7. ASSUME NEW j \in DOMAIN invoice', invoice'[j].milestone # None
        PROVE  LET x == invoice'[j].milestone
                   c == milestone'[x].contract
               IN  /\ milestone'[x].state # "created"
                   /\ milestone'[x].originalInvoice # None
                   /\ Terms[invoice'[j].document] = Terms[milestone'[x].due]
                   /\ invoice'[j].amount = milestone'[x].details.amount
                   /\ invoice'[j].supplier = contract'[c].supplier
                   /\ invoice'[j].creditorData = contract'[c].supplierDetails
                   /\ contract'[c].state # "createdBySupplier"
    <3>1. CASE j = i
      BY <1>0, <2>1, <2>2, <2>3, <2>4, <2>5, <3>1 DEF Signed
    <3>2. CASE j # i
      <4>1. j \in DOMAIN invoice /\ invoice'[j] = invoice[j]
        BY <2>2, <3>2
      <4>2. invoice[j].milestone \in DOMAIN milestone
        BY <1>0, <2>7, <4>1 DEF ReferencesOK
      <4> QED
        BY <1>0, <2>1, <2>4, <2>5, <2>7, <4>1, <4>2 DEF MilestoneInvoicesAgree
    <3> QED
      BY <3>1, <3>2
  <2>8. ASSUME NEW x \in DOMAIN milestone', milestone'[x].originalInvoice # None
        PROVE  /\ milestone'[x].originalInvoice \in DOMAIN invoice'
               /\ invoice'[milestone'[x].originalInvoice].milestone = x
    BY <1>0, <2>2, <2>3, <2>4, <2>8 DEF MilestoneInvoicesAgree
  <2>9. MilestoneInvoicesAgree'
    BY <2>7, <2>8 DEF MilestoneInvoicesAgree
  <2> QED
    BY <2>6, <2>9
<1>7. ASSUME NEW p \in Participants, NEW i \in Invoices, NEW doc \in Documents,
             NEW amount \in Amounts, NEW creditor \in PaymentDetails,
             NEW trade \in BOOLEAN, NEW ask \in Option(Asks),
             CreateNewInvoice(p, i, doc, amount, creditor, trade, ask)
      PROVE  Signed' /\ MilestoneInvoicesAgree'
  <2>1. /\ i \notin DOMAIN invoice
        /\ DOMAIN invoice' = DOMAIN invoice \cup {i}
        /\ invoice'[i].milestone = None
        /\ \A j \in DOMAIN invoice : invoice'[j] = invoice[j]
        /\ UNCHANGED <<contract, milestone>>
    BY <1>7 DEF CreateNewInvoice, NewInvoice, IndependentInvoice, Create
  <2> QED
    BY <1>0, <2>1 DEF Signed, MilestoneInvoicesAgree
<1>8. ASSUME NEW i \in Invoices, SetBlockChainRef(i)
      PROVE  SameInvoices /\ SameContracts /\ SameMilestones
  BY <1>0, <1>8 DEF SetBlockChainRef, SameInvoices, SameContracts, SameMilestones, HeapsOK,
     HeapOK, Invoice
<1>9. ASSUME NEW i \in Invoices, FinaliseInvoice(i)
      PROVE  SameInvoices /\ SameContracts /\ SameMilestones
  BY <1>0, <1>9 DEF FinaliseInvoice, SameInvoices, SameContracts, SameMilestones, HeapsOK,
     HeapOK, Invoice
<1>10. ASSUME NEW p \in Participants, NEW i \in Invoices, BuyOffer(p, i)
       PROVE  SameInvoices /\ SameContracts /\ SameMilestones
  <2>1. SameInvoices
    BY <1>0, <1>10 DEF BuyOffer, SameInvoices, HeapsOK, HeapOK, Invoice
  <2>2. SameContracts
    <3>1. contract' = contract \/ \E c \in DOMAIN contract :
                                    contract' = [contract EXCEPT ![c].state = "closed"]
      BY <1>0, <1>10 DEF BuyOffer, ContractsAfterPay, ClosesMilestone, ReferencesOK,
                         HeapsOK, HeapOK
    <3> QED
      BY <1>0, <3>1 DEF SameContracts, HeapsOK, HeapOK, Contract
  <2>3. SameMilestones
    <3>1. milestone' = milestone \/ \E m \in DOMAIN milestone :
             /\ milestone[m].state = "reached"
             /\ milestone' = [milestone EXCEPT ![m].state = "closed"]
      <4>1. i \in DOMAIN invoice /\ CanPay(i) /\ milestone' = MilestonesAfterPay(i)
        BY <1>0, <1>10 DEF BuyOffer, IsOpen, HeapsOK, HeapOK
      <4> QED
        BY <1>0, <4>1 DEF MilestonesAfterPay, CanPay, ClosesMilestone, ReferencesOK
    <3> QED
      BY <1>0, <3>1 DEF SameMilestones, HeapsOK, HeapOK, Milestone
  <2> QED
    BY <2>1, <2>2, <2>3
<1>11. ASSUME NEW p \in Participants, NEW i \in Invoices, NEW ask \in Asks,
              UpdateOfferPrice(p, i, ask.amount)
       PROVE  Signed' /\ MilestoneInvoicesAgree'
  BY <1>0, <1>11 DEF UpdateOfferPrice, Signed, MilestoneInvoicesAgree
<1>12. CASE UNCHANGED vars
  BY <1>0, <1>12 DEF vars, Signed, MilestoneInvoicesAgree
<1> QED
  BY <1>1, <1>2, <1>3, <1>4, <1>5, <1>6, <1>7, <1>8, <1>9, <1>10, <1>11, <1>12, BillingFrame
  DEF Next

\* An invoice drawn for a milestone always says what the milestone's contract says,
\* whatever is repriced, signed, paid or billed besides (milestone.npl:58-102).
THEOREM MilestonesAreBilledAsAgreed == Spec => []MilestoneInvoicesAgree
<1>1. BillingInv => MilestoneInvoicesAgree
  BY DEF BillingInv
<1> QED
  BY <1>1, InitBilling, StepBilling, PTL DEF Spec

\* A payment closes one milestone that was reached, or none ...
LEMMA PayMilestones ==
    ASSUME TypeOK, NEW i \in DOMAIN invoice, CanPay(i), milestone' = MilestonesAfterPay(i)
    PROVE  \/ milestone' = milestone
           \/ \E m \in DOMAIN milestone :
                 /\ milestone[m].state = "reached"
                 /\ milestone' = [milestone EXCEPT ![m].state = "closed"]
  BY DEF TypeOK, ReferencesOK, MilestonesAfterPay, CanPay, ClosesMilestone

\* ... and one contract, or none.
LEMMA PayContracts ==
    ASSUME TypeOK, NEW i \in DOMAIN invoice, contract' = ContractsAfterPay(i)
    PROVE  \/ contract' = contract
           \/ \E c \in DOMAIN contract : contract' = [contract EXCEPT ![c].state = "closed"]
  BY DEF TypeOK, ReferencesOK, ContractsAfterPay, ClosesMilestone

-----------------------------------------------------------------------------
(* Value: what is billed for a contract's milestones adds up to its goods.   *)

AmountsOf(ms) == [m \in ms |-> milestone[m].details.amount.amount]

\* A contract's milestones are those that name it, and are worth its goods.
GoodsCovered ==
    \A c \in DOMAIN contract :
        /\ contract[c].milestones = {m \in DOMAIN milestone : milestone[m].contract = c}
        /\ SumFunction(AmountsOf(contract[c].milestones)) = contract[c].goodsValue.amount
        /\ \A m \in contract[c].milestones :
              milestone[m].details.amount.ccy = contract[c].goodsValue.ccy

ValueInv == BillingInv /\ GoodsCovered

\* What GoodsCovered reads
SameWorth ==
    /\ DOMAIN contract' = DOMAIN contract
    /\ \A c \in DOMAIN contract : /\ contract'[c].milestones = contract[c].milestones
                                  /\ contract'[c].goodsValue = contract[c].goodsValue
    /\ DOMAIN milestone' = DOMAIN milestone
    /\ \A m \in DOMAIN milestone :
          /\ milestone'[m].contract = milestone[m].contract
          /\ milestone'[m].details.amount = milestone[m].details.amount

LEMMA WorthFrame == ASSUME GoodsCovered, SameWorth PROVE GoodsCovered'
<1> SUFFICES ASSUME NEW c \in DOMAIN contract
             PROVE  /\ contract'[c].milestones
                          = {m \in DOMAIN milestone' : milestone'[m].contract = c}
                    /\ SumFunction(AmountsOf(contract[c].milestones)')
                          = contract[c].goodsValue.amount
                    /\ \A m \in contract[c].milestones :
                          milestone'[m].details.amount.ccy = contract[c].goodsValue.ccy
  BY DEF GoodsCovered, SameWorth, AmountsOf
<1>1. contract[c].milestones = {m \in DOMAIN milestone : milestone[m].contract = c}
  BY DEF GoodsCovered
<1>2. AmountsOf(contract[c].milestones)' = AmountsOf(contract[c].milestones)
  BY <1>1 DEF AmountsOf, SameWorth
<1>3. /\ contract'[c].milestones = contract[c].milestones
      /\ DOMAIN milestone' = DOMAIN milestone
      /\ \A m \in DOMAIN milestone :
            /\ milestone'[m].contract = milestone[m].contract
            /\ milestone'[m].details.amount = milestone[m].details.amount
  BY DEF SameWorth
<1>4. contract'[c].milestones = {m \in DOMAIN milestone' : milestone'[m].contract = c}
  BY <1>1, <1>3
<1>5. SumFunction(AmountsOf(contract[c].milestones)') = contract[c].goodsValue.amount
  BY <1>2 DEF GoodsCovered
<1>6. \A m \in contract[c].milestones :
         milestone'[m].details.amount.ccy = contract[c].goodsValue.ccy
  BY <1>1, <1>3 DEF GoodsCovered
<1> QED
  BY <1>4, <1>5, <1>6

\* A payment, of whoever pays, leaves what milestones and contracts are worth alone.
LEMMA PayWorth ==
    ASSUME TypeOK, NEW i \in DOMAIN invoice, CanPay(i),
           milestone' = MilestonesAfterPay(i), contract' = ContractsAfterPay(i)
    PROVE  SameWorth
<1>0. HeapsOK
  BY DEF TypeOK
<1>1. /\ DOMAIN contract' = DOMAIN contract
      /\ \A c \in DOMAIN contract : /\ contract'[c].milestones = contract[c].milestones
                                    /\ contract'[c].goodsValue = contract[c].goodsValue
  BY <1>0, PayContracts DEF HeapsOK, HeapOK, Contract
<1>2. /\ DOMAIN milestone' = DOMAIN milestone
      /\ \A m \in DOMAIN milestone :
            /\ milestone'[m].contract = milestone[m].contract
            /\ milestone'[m].details = milestone[m].details
  BY <1>0, PayMilestones DEF HeapsOK, HeapOK, Milestone
<1> QED
  BY <1>1, <1>2 DEF SameWorth

LEMMA InitValue == Init => ValueInv
  BY InitBilling DEF Init, ValueInv, GoodsCovered

LEMMA StepValue == ValueInv /\ [Next]_vars => ValueInv'
<1> SUFFICES ASSUME ValueInv, [Next]_vars PROVE GoodsCovered'
  BY StepBilling DEF ValueInv
<1>0. TypeOK /\ HeapsOK /\ ReferencesOK /\ GoodsCovered
  BY DEF ValueInv, BillingInv, RegistryInv, TypeOK
<1>1. ASSUME NEW p \in Participants, NEW c \in Contracts, NEW g \in Amounts,
             NEW ms \in SUBSET Milestones, NEW inputs \in [ms -> MilestoneInputs],
             CreateContract(p, c, inputs, g)
      PROVE  GoodsCovered'
  <2>1. /\ c \notin DOMAIN contract
        /\ DOMAIN contract' = DOMAIN contract \cup {c}
        /\ \A x \in DOMAIN contract : contract'[x] = contract[x]
        /\ contract'[c].milestones = DOMAIN inputs
        /\ contract'[c].goodsValue = g
        /\ SumFunction([m \in DOMAIN inputs |-> inputs[m].amount.amount]) = g.amount
        /\ \A m \in DOMAIN inputs : inputs[m].amount.ccy = g.ccy
    BY <1>1 DEF CreateContract, Create, SumOfMilestones
  <2>2. /\ DOMAIN inputs \cap DOMAIN milestone = {}
        /\ DOMAIN milestone' = DOMAIN milestone \cup DOMAIN inputs
        /\ \A m \in DOMAIN milestone : milestone'[m] = milestone[m]
        /\ \A m \in DOMAIN inputs : /\ milestone'[m].contract = c
                                    /\ milestone'[m].details = inputs[m]
    BY <1>1 DEF CreateContract
  <2>3. ASSUME NEW x \in DOMAIN contract
        PROVE  /\ contract'[x].milestones
                     = {m \in DOMAIN milestone' : milestone'[m].contract = x}
               /\ SumFunction(AmountsOf(contract[x].milestones)')
                     = contract'[x].goodsValue.amount
               /\ \A m \in contract'[x].milestones :
                     milestone'[m].details.amount.ccy = contract'[x].goodsValue.ccy
    <3>1. contract[x].milestones = {m \in DOMAIN milestone : milestone[m].contract = x}
      BY <1>0 DEF GoodsCovered
    <3>2. x # c /\ contract'[x] = contract[x]
      BY <2>1
    <3>3. AmountsOf(contract[x].milestones)' = AmountsOf(contract[x].milestones)
      BY <2>2, <3>1, <3>2 DEF AmountsOf
    <3>4. contract[x].milestones = {m \in DOMAIN milestone' : milestone'[m].contract = x}
      BY <2>2, <3>1, <3>2
    <3>5. SumFunction(AmountsOf(contract[x].milestones)') = contract[x].goodsValue.amount
      BY <1>0, <3>3, Zenon DEF GoodsCovered
    <3>6. \A m \in contract[x].milestones :
             milestone'[m].details.amount.ccy = contract[x].goodsValue.ccy
      BY <1>0, <2>2, <3>1 DEF GoodsCovered
    <3> QED
      BY <3>2, <3>4, <3>5, <3>6
  <2>4. DOMAIN inputs = {m \in DOMAIN milestone' : milestone'[m].contract = c}
    BY <1>0, <2>1, <2>2 DEF ReferencesOK
  <2>5. AmountsOf(DOMAIN inputs)' = [m \in DOMAIN inputs |-> inputs[m].amount.amount]
    BY <2>2 DEF AmountsOf
  <2> QED
    BY <2>1, <2>2, <2>3, <2>4, <2>5 DEF GoodsCovered, AmountsOf
<1>2. ASSUME NEW c \in Contracts, FinaliseCreation(c) PROVE SameWorth
  BY <1>0, <1>2 DEF FinaliseCreation, SameWorth, HeapsOK, HeapOK, Contract
<1>3. ASSUME NEW m \in Milestones, NEW ask \in Asks, UpdateOfferAmount(m, ask)
      PROVE  SameWorth
  <2> DEFINE new == [milestone[m] EXCEPT !.details.offerAmount = ask]
  <2>1. milestone[m] \in Milestone /\ milestone[m].details \in MilestoneDetails
    BY <1>0, <1>3 DEF UpdateOfferAmount, HeapsOK, HeapOK, Milestone
  <2>2. /\ new.contract = milestone[m].contract
        /\ new.details.amount = milestone[m].details.amount
    BY <2>1 DEF Milestone, MilestoneDetails
  <2>3. milestone' = [milestone EXCEPT ![m] = new] /\ UNCHANGED contract
    BY <1>3 DEF UpdateOfferAmount
  <2> HIDE DEF new
  <2> QED
    BY <1>0, <2>2, <2>3 DEF SameWorth, HeapsOK, HeapOK
<1>4. ASSUME NEW m \in Milestones, NEW due \in Documents, MilestoneReached(m, due)
      PROVE  SameWorth
  BY <1>0, <1>4 DEF MilestoneReached, SameWorth, HeapsOK, HeapOK, Milestone
<1>5. ASSUME NEW m \in Milestones, NEW i \in Invoices, NEW doc \in Documents,
             NEW amount, NEW creditor \in PaymentDetails,
             CreateOriginalInvoice(m, i, doc, amount, creditor)
      PROVE  SameWorth
  BY <1>0, <1>5 DEF CreateOriginalInvoice, SameWorth, HeapsOK, HeapOK, Milestone
<1>6. ASSUME NEW p \in Participants, NEW i \in Invoices, BuyOffer(p, i) PROVE SameWorth
  <2>1. /\ i \in DOMAIN invoice /\ CanPay(i)
        /\ milestone' = MilestonesAfterPay(i) /\ contract' = ContractsAfterPay(i)
    BY <1>0, <1>6 DEF BuyOffer, IsOpen, HeapsOK, HeapOK
  <2> QED
    BY <1>0, <2>1, PayWorth
<1>7. ASSUME UNCHANGED milestone, UNCHANGED contract PROVE SameWorth
  BY <1>7 DEF SameWorth
<1>8. ASSUME NEW p \in Participants, NEW i \in Invoices, NEW doc \in Documents,
             NEW amount \in Amounts, NEW creditor \in PaymentDetails,
             NEW trade \in BOOLEAN, NEW ask \in Option(Asks),
             CreateNewInvoice(p, i, doc, amount, creditor, trade, ask)
      PROVE  SameWorth
  BY <1>7, <1>8 DEF CreateNewInvoice
<1>9. ASSUME NEW p \in Participants, NEW i \in Invoices, NEW ask \in Asks,
             UpdateOfferPrice(p, i, ask.amount)
      PROVE  SameWorth
  BY <1>7, <1>9 DEF UpdateOfferPrice
<1>10. ASSUME NEW p \in Participants, NEW d \in PaymentDetails, CreateParticipant(p, d)
       PROVE  SameWorth
  BY <1>7, <1>10 DEF CreateParticipant
<1>11. ASSUME NEW i \in Invoices, SetBlockChainRef(i) \/ FinaliseInvoice(i) PROVE SameWorth
  BY <1>7, <1>11 DEF SetBlockChainRef, FinaliseInvoice
<1>12. CASE UNCHANGED vars
  BY <1>0, <1>7, <1>12, WorthFrame DEF vars
<1> QED
  BY <1>0, <1>1, <1>2, <1>3, <1>4, <1>5, <1>6, <1>8, <1>9, <1>10, <1>11, <1>12, WorthFrame
  DEF Next

\* A milestone's own invoice bills the milestone's amount.
LEMMA BilledAsAgreed ==
    ASSUME HeapsOK, MilestoneInvoicesAgree, NEW m \in DOMAIN milestone
    PROVE  BilledFor(m) = milestone[m].details.amount
<1>1. CASE milestone[m].originalInvoice = None
  BY <1>1 DEF BilledFor
<1>2. CASE milestone[m].originalInvoice # None
  <2> DEFINE i == milestone[m].originalInvoice
  <2>1. i \in DOMAIN invoice /\ invoice[i].milestone = m
    BY <1>2 DEF MilestoneInvoicesAgree
  <2>2. m # None
    BY NoneIsDistinct DEF HeapsOK, HeapOK
  <2>3. invoice[i].amount = milestone[m].details.amount
    BY <2>1, <2>2 DEF MilestoneInvoicesAgree
  <2> QED
    BY <1>2, <2>3 DEF BilledFor
<1> QED
  BY <1>1, <1>2

LEMMA BillsAddUp == ValueInv => BillsAddUpToGoods
<1> SUFFICES ASSUME ValueInv, NEW c \in DOMAIN contract
             PROVE  /\ SumFunction([m \in contract[c].milestones |-> BilledFor(m).amount])
                          = contract[c].goodsValue.amount
                    /\ \A m \in contract[c].milestones :
                          BilledFor(m).ccy = contract[c].goodsValue.ccy
  BY DEF BillsAddUpToGoods
<1>0. HeapsOK /\ MilestoneInvoicesAgree /\ GoodsCovered
  BY DEF ValueInv, BillingInv, RegistryInv, TypeOK
<1>1. \A m \in contract[c].milestones :
         m \in DOMAIN milestone /\ BilledFor(m) = milestone[m].details.amount
  BY <1>0, BilledAsAgreed DEF GoodsCovered
<1>2. [m \in contract[c].milestones |-> BilledFor(m).amount]
         = AmountsOf(contract[c].milestones)
  BY <1>1 DEF AmountsOf
<1> QED
  BY <1>0, <1>1, <1>2 DEF GoodsCovered

\* The bills of a contract's milestones, drawn or to be drawn, always add up to the value
\* of its goods, whatever is repriced, paid or billed again (participant.npl:63-68,
\* milestone.npl:58-102).
THEOREM BillsCoverGoods == Spec => []BillsAddUpToGoods
  BY InitValue, StepValue, BillsAddUp, PTL DEF Spec

-----------------------------------------------------------------------------
(* Trading: invoice, offer and buyer agree.                                  *)

\* A bought offer is held by its buyer only, person by person.
HoldersAgree ==
    \A i \in DOMAIN offer :
        /\ offer[i].state = "bought" => offer[i].offerBuyer \in DOMAIN participant
        /\ \A p \in DOMAIN participant :
              i \in participant[p].boughtOffers
                  <=> offer[i].state = "bought" /\ p = offer[i].offerBuyer

PaidAgrees ==
    \A i \in DOMAIN invoice :
        invoice[i].state = "paid" <=> i \in DOMAIN offer /\ offer[i].state = "bought"

\* The two facts the trading steps need besides: nobody holds an offer that is yet to
\* be made, and an invoice asks for its price in its own currency.
TradeInv ==
    /\ TypeOK
    /\ PaidAgrees
    /\ HoldersAgree
    /\ ListedAsRequested
    /\ \A p \in DOMAIN participant : participant[p].boughtOffers \subseteq DOMAIN offer
    /\ \A i \in DOMAIN invoice :
          invoice[i].offerAmount # None => invoice[i].offerAmount.ccy = invoice[i].amount.ccy

\* What TradeInv reads of participants: newcomers hold nothing.
SameHoldings ==
    /\ DOMAIN participant \subseteq DOMAIN participant'
    /\ \A p \in DOMAIN participant : participant'[p].boughtOffers = participant[p].boughtOffers
    /\ \A p \in DOMAIN participant' \ DOMAIN participant : participant'[p].boughtOffers = {}

\* ... and of invoices: a new one is neither finalised nor offered.
SameSales ==
    /\ DOMAIN invoice \subseteq DOMAIN invoice'
    /\ \A i \in DOMAIN invoice :
          /\ invoice'[i].state = invoice[i].state
          /\ invoice'[i].toBeTraded = invoice[i].toBeTraded
          /\ invoice'[i].amount = invoice[i].amount
          /\ invoice'[i].offerAmount = invoice[i].offerAmount
    /\ \A i \in DOMAIN invoice' \ DOMAIN invoice :
          /\ invoice'[i].state = "created"
          /\ invoice'[i].offerAmount # None
                => invoice'[i].offerAmount.ccy = invoice'[i].amount.ccy

LEMMA TradeFrame ==
    ASSUME TradeInv, TypeOK', SameHoldings, SameSales, UNCHANGED offer
    PROVE  TradeInv'
<1>0. DOMAIN offer \subseteq DOMAIN invoice
  BY DEF TradeInv, TypeOK, HeapsOK, HeapOK
<1>1. PaidAgrees'
  BY <1>0 DEF TradeInv, PaidAgrees, SameSales
<1>2. HoldersAgree'
  BY DEF TradeInv, HoldersAgree, SameHoldings
<1>3. ListedAsRequested'
  BY <1>0 DEF TradeInv, ListedAsRequested, SameSales
<1>4. \A p \in DOMAIN participant' : participant'[p].boughtOffers \subseteq DOMAIN offer'
  BY DEF TradeInv, SameHoldings
<1>5. \A i \in DOMAIN invoice' :
         invoice'[i].offerAmount # None => invoice'[i].offerAmount.ccy = invoice'[i].amount.ccy
  BY DEF TradeInv, SameSales
<1> QED
  BY <1>1, <1>2, <1>3, <1>4, <1>5 DEF TradeInv

\* Registering an invoice changes no holding and no sale.
LEMMA NewInvoiceTrade ==
    ASSUME TradeInv, NEW i, NEW inv, NewInvoice(i, inv), inv.state = "created"
    PROVE  SameHoldings /\ SameSales
<1>1. /\ i \notin DOMAIN invoice
      /\ DOMAIN invoice' = DOMAIN invoice \cup {i}
      /\ invoice'[i] = inv
      /\ \A j \in DOMAIN invoice : invoice'[j] = invoice[j]
      /\ inv.offerAmount # None => inv.offerAmount.ccy = inv.amount.ccy
  BY DEF NewInvoice, Create, InvoiceGuards
<1>2. HeapOK(participant, Participants, Participant)
  BY DEF TradeInv, TypeOK, HeapsOK
<1>3. participant' = [participant EXCEPT ![inv.supplier].issuedInvoices = @ \cup {i}]
  BY DEF NewInvoice
<1>4. SameHoldings
  BY <1>2, <1>3 DEF SameHoldings, HeapOK, Participant
<1> QED
  BY <1>1, <1>4 DEF SameSales

LEMMA InitTrade == Init => TradeInv
  BY InitType DEF Init, TradeInv, PaidAgrees, HoldersAgree, ListedAsRequested

LEMMA StepTrade == TradeInv /\ [Next]_vars => TradeInv'
<1> SUFFICES ASSUME TradeInv, [Next]_vars PROVE TradeInv'
  OBVIOUS
<1>0. TypeOK /\ HeapsOK /\ ReferencesOK /\ TypeOK'
  BY StepType DEF TradeInv, TypeOK
<1>1. ASSUME NEW p \in Participants, NEW d \in PaymentDetails,
             CreateParticipant(p, d)
      PROVE  TradeInv'
  BY <1>0, <1>1, TradeFrame DEF CreateParticipant, Create, SameHoldings, SameSales
<1>2. ASSUME NEW p \in Participants, NEW c \in Contracts, NEW g \in Amounts,
             NEW ms \in SUBSET Milestones, NEW inputs \in [ms -> MilestoneInputs],
             CreateContract(p, c, inputs, g)
      PROVE  TradeInv'
  <2>1. SameHoldings
    BY <1>0, <1>2 DEF CreateContract, SameHoldings, HeapsOK, HeapOK, Participant
  <2>2. SameSales /\ UNCHANGED offer
    BY <1>2 DEF CreateContract, SameSales
  <2> QED
    BY <1>0, <2>1, <2>2, TradeFrame
<1>3. ASSUME NEW c \in Contracts, FinaliseCreation(c) PROVE TradeInv'
  BY <1>0, <1>3, TradeFrame DEF FinaliseCreation, SameHoldings, SameSales
<1>4. ASSUME NEW m \in Milestones, NEW ask \in Asks, UpdateOfferAmount(m, ask)
      PROVE  TradeInv'
  BY <1>0, <1>4, TradeFrame DEF UpdateOfferAmount, SameHoldings, SameSales
<1>5. ASSUME NEW m \in Milestones, NEW due \in Documents, MilestoneReached(m, due)
      PROVE  TradeInv'
  BY <1>0, <1>5, TradeFrame DEF MilestoneReached, SameHoldings, SameSales
<1>6. ASSUME NEW m \in Milestones, NEW i \in Invoices, NEW doc \in Documents,
             NEW amount, NEW creditor \in PaymentDetails,
             CreateOriginalInvoice(m, i, doc, amount, creditor)
      PROVE  TradeInv'
  <2> DEFINE inv == OriginalInvoice(m, doc, amount, creditor)
  <2>1. inv.state = "created"
    BY DEF OriginalInvoice
  <2>2. NewInvoice(i, inv) /\ UNCHANGED offer
    BY <1>6 DEF CreateOriginalInvoice
  <2> HIDE DEF inv
  <2>3. SameHoldings /\ SameSales
    BY <2>1, <2>2, NewInvoiceTrade
  <2> QED
    BY <1>0, <2>2, <2>3, TradeFrame
<1>7. ASSUME NEW p \in Participants, NEW i \in Invoices, NEW doc \in Documents,
             NEW amount \in Amounts, NEW creditor \in PaymentDetails,
             NEW trade \in BOOLEAN, NEW ask \in Option(Asks),
             CreateNewInvoice(p, i, doc, amount, creditor, trade, ask)
      PROVE  TradeInv'
  <2> DEFINE inv == IndependentInvoice(p, doc, amount, creditor, trade, ask)
  <2>1. inv.state = "created"
    BY DEF IndependentInvoice
  <2>2. NewInvoice(i, inv) /\ UNCHANGED offer
    BY <1>7 DEF CreateNewInvoice
  <2> HIDE DEF inv
  <2>3. SameHoldings /\ SameSales
    BY <2>1, <2>2, NewInvoiceTrade
  <2> QED
    BY <1>0, <2>2, <2>3, TradeFrame
<1>8. ASSUME NEW i \in Invoices, SetBlockChainRef(i) PROVE TradeInv'
  <2>1. SameSales
    BY <1>0, <1>8 DEF SetBlockChainRef, SameSales, HeapsOK, HeapOK, Invoice
  <2> QED
    BY <1>0, <1>8, <2>1, TradeFrame DEF SetBlockChainRef, SameHoldings
<1>9. ASSUME NEW i \in Invoices, FinaliseInvoice(i) PROVE TradeInv'
  <2>1. /\ i \in DOMAIN invoice /\ invoice[i] \in Invoice
        /\ invoice[i].state = "created"
        /\ i \notin DOMAIN offer
        /\ UNCHANGED participant
    BY <1>0, <1>9 DEF FinaliseInvoice, TradeInv, ListedAsRequested, HeapsOK, HeapOK
  <2>2. /\ DOMAIN invoice' = DOMAIN invoice
        /\ \A j \in DOMAIN invoice : j # i => invoice'[j] = invoice[j]
        /\ invoice'[i].state = "finalised"
        /\ invoice'[i].toBeTraded = invoice[i].toBeTraded
        /\ invoice'[i].amount = invoice[i].amount
        /\ invoice'[i].offerAmount = invoice[i].offerAmount
    BY <1>0, <1>9, <2>1 DEF FinaliseInvoice, HeapsOK, HeapOK, Invoice
  <2>3. ListedAmount(i).ccy = invoice[i].amount.ccy
    <3>1. CASE invoice[i].offerAmount # None
      <4>1. invoice[i].offerAmount \in Amount
        BY <2>1, <3>1 DEF Invoice, Option
      <4> QED
        BY <2>1, <3>1, <4>1 DEF TradeInv, ListedAmount, Amount
    <3>2. CASE invoice[i].offerAmount = None
      BY <3>2 DEF ListedAmount
    <3> QED
      BY <3>1, <3>2
  <2>4. /\ DOMAIN offer \subseteq DOMAIN offer'
        /\ \A j \in DOMAIN offer : offer'[j] = offer[j]
        /\ \A j \in DOMAIN offer' : j # i => j \in DOMAIN offer
        /\ i \in DOMAIN offer' <=> invoice[i].toBeTraded
        /\ i \in DOMAIN offer' => /\ offer'[i].state = "open"
                                  /\ offer'[i].amount.ccy = invoice[i].amount.ccy
    <3>1. CASE invoice[i].toBeTraded
      <4>1. offer' = Create(offer, i, [amount |-> ListedAmount(i),
                                       offerBuyer |-> None, state |-> "open"])
        BY <1>9, <3>1 DEF FinaliseInvoice
      <4> QED
        BY <2>1, <2>3, <3>1, <4>1 DEF Create
    <3>2. CASE ~invoice[i].toBeTraded
      BY <1>9, <2>1, <3>2 DEF FinaliseInvoice
    <3> QED
      BY <3>1, <3>2
  <2>5. PaidAgrees'
    BY <2>1, <2>2, <2>4 DEF TradeInv, PaidAgrees
  <2>6. HoldersAgree'
    BY <2>1, <2>4 DEF TradeInv, HoldersAgree
  <2>7. ListedAsRequested'
    BY <2>1, <2>2, <2>4 DEF TradeInv, ListedAsRequested
  <2>8. /\ \A p \in DOMAIN participant' : participant'[p].boughtOffers \subseteq DOMAIN offer'
        /\ \A j \in DOMAIN invoice' :
              invoice'[j].offerAmount # None => invoice'[j].offerAmount.ccy = invoice'[j].amount.ccy
    BY <2>1, <2>2, <2>4 DEF TradeInv
  <2> QED
    BY <1>0, <2>5, <2>6, <2>7, <2>8 DEF TradeInv
<1>10. ASSUME NEW p \in Participants, NEW i \in Invoices, BuyOffer(p, i)
       PROVE  TradeInv'
  <2>1. /\ i \in DOMAIN offer /\ offer[i].state = "open" /\ offer[i] \in Offer
        /\ i \in DOMAIN invoice /\ invoice[i].state \in {"finalised", "traded"}
        /\ p \in DOMAIN participant
    BY <1>0, <1>10 DEF BuyOffer, IsOpen, CanPay, HeapsOK, HeapOK
  <2>2. /\ DOMAIN invoice' = DOMAIN invoice
        /\ \A j \in DOMAIN invoice : /\ j # i => invoice'[j] = invoice[j]
                                     /\ invoice'[j].toBeTraded = invoice[j].toBeTraded
                                     /\ invoice'[j].amount = invoice[j].amount
                                     /\ invoice'[j].offerAmount = invoice[j].offerAmount
        /\ invoice'[i].state = "paid"
    <3>1. invoice' = [invoice EXCEPT ![i].state = "paid"]
      BY <1>10 DEF BuyOffer
    <3>2. \A j \in DOMAIN invoice : invoice[j] \in Invoice
      BY <1>0 DEF HeapsOK, HeapOK
    <3> QED
      BY <2>1, <3>1, <3>2 DEF Invoice
  <2>3. /\ DOMAIN offer' = DOMAIN offer
        /\ \A j \in DOMAIN offer : j # i => offer'[j] = offer[j]
        /\ offer'[i].state = "bought" /\ offer'[i].offerBuyer = p
        /\ offer'[i].amount = offer[i].amount
    BY <1>0, <1>10, <2>1 DEF BuyOffer, Bought, HeapsOK, HeapOK, Offer
  <2>4. /\ DOMAIN participant' = DOMAIN participant
        /\ \A q \in DOMAIN participant :
              participant'[q].boughtOffers = IF q = p THEN participant[q].boughtOffers \cup {i}
                                                      ELSE participant[q].boughtOffers
    <3> DEFINE new(q) == [ParticipantAfterPay(q, i) EXCEPT
                            !.boughtOffers = IF q = p THEN @ \cup {i} ELSE @]
    <3>1. ASSUME NEW q \in DOMAIN participant
          PROVE  new(q).boughtOffers = IF q = p THEN participant[q].boughtOffers \cup {i}
                                                ELSE participant[q].boughtOffers
      <4>1. participant[q] \in Participant
        BY <1>0 DEF HeapsOK, HeapOK
      <4>2. /\ ParticipantAfterPay(q, i) \in Participant
            /\ ParticipantAfterPay(q, i).boughtOffers = participant[q].boughtOffers
        BY <4>1, RaisedType DEF ParticipantAfterPay, Participant
      <4> QED
        BY <4>2 DEF Participant
    <3>2. participant' = [q \in DOMAIN participant |-> new(q)]
      BY <1>10 DEF BuyOffer
    <3> HIDE DEF new
    <3> QED
      BY <3>1, <3>2
  <2>5. PaidAgrees'
    BY <2>1, <2>2, <2>3 DEF TradeInv, PaidAgrees
  <2>6. HoldersAgree'
    <3>1. \A j \in DOMAIN offer, q \in DOMAIN participant :
             j # i => (j \in participant'[q].boughtOffers <=> j \in participant[q].boughtOffers)
      BY <2>4
    <3>2. \A q \in DOMAIN participant : i \in participant'[q].boughtOffers <=> q = p
      BY <2>1, <2>4 DEF TradeInv, HoldersAgree
    <3>3. \A j \in DOMAIN offer : j # i =>
             /\ offer[j].state = "bought" => offer[j].offerBuyer \in DOMAIN participant
             /\ \A q \in DOMAIN participant : j \in participant[q].boughtOffers
                    <=> offer[j].state = "bought" /\ q = offer[j].offerBuyer
      BY DEF TradeInv, HoldersAgree
    <3> QED
      BY <2>1, <2>3, <2>4, <3>1, <3>2, <3>3 DEF HoldersAgree
  <2>7. ListedAsRequested'
    BY <2>1, <2>2, <2>3 DEF TradeInv, ListedAsRequested
  <2>8. \A q \in DOMAIN participant' : participant'[q].boughtOffers \subseteq DOMAIN offer'
    BY <2>1, <2>3, <2>4 DEF TradeInv
  <2>9. \A j \in DOMAIN invoice' :
           invoice'[j].offerAmount # None => invoice'[j].offerAmount.ccy = invoice'[j].amount.ccy
    BY <2>2 DEF TradeInv
  <2> QED
    BY <1>0, <2>5, <2>6, <2>7, <2>8, <2>9 DEF TradeInv
<1>11. ASSUME NEW p \in Participants, NEW i \in Invoices, NEW ask \in Asks,
              UpdateOfferPrice(p, i, ask.amount)
       PROVE  TradeInv'
  <2>1. /\ DOMAIN offer' = DOMAIN offer
        /\ \A j \in DOMAIN offer : /\ offer'[j].state = offer[j].state
                                   /\ offer'[j].offerBuyer = offer[j].offerBuyer
                                   /\ offer'[j].amount.ccy = offer[j].amount.ccy
        /\ UNCHANGED <<participant, invoice>>
    BY <1>0, <1>11 DEF UpdateOfferPrice, HeapsOK, HeapOK, Offer, Amount
  <2>2. PaidAgrees' /\ HoldersAgree' /\ ListedAsRequested'
    BY <2>1 DEF TradeInv, PaidAgrees, HoldersAgree, ListedAsRequested
  <2> QED
    BY <1>0, <2>1, <2>2 DEF TradeInv
<1>12. CASE UNCHANGED vars
  BY <1>0, <1>12, TradeFrame DEF vars, SameHoldings, SameSales
<1> QED
  BY <1>1, <1>2, <1>3, <1>4, <1>5, <1>6, <1>7, <1>8, <1>9, <1>10, <1>11, <1>12
  DEF Next

\* Person by person or as sets, the holders of an offer are the same.
LEMMA Settlement == TradeInv => SettlementAgrees
<1> SUFFICES ASSUME TradeInv, NEW i \in DOMAIN offer
             PROVE  {p \in DOMAIN participant : i \in participant[p].boughtOffers} =
                        IF offer[i].state = "bought" THEN {offer[i].offerBuyer} ELSE {}
  BY DEF TradeInv, PaidAgrees, SettlementAgrees
<1> QED
  BY DEF TradeInv, HoldersAgree

\* Payment settles invoice, offer and buyer together, after any sequence of transactions:
\* who holds an offer bought it, and its invoice is paid (participant.npl:42-45).
THEOREM PaymentsSettle == Spec => []SettlementAgrees
  BY InitTrade, StepTrade, Settlement, PTL DEF Spec

\* Exactly the finalised invoices meant for the market are on it, priced in their own
\* currency (invoice.npl:53-63, offer.npl:21-28).
THEOREM MarketListsAsRequested == Spec => []ListedAsRequested
<1>1. TradeInv => ListedAsRequested
  BY DEF TradeInv
<1> QED
  BY <1>1, InitTrade, StepTrade, PTL DEF Spec

-----------------------------------------------------------------------------
(* Track records: the iterates of Raised, counted by the payments.           *)

\* The recursive definition is a function of its equation.
LEMMA TrackRecordAfterDef ==
  \A n \in 0..Cardinality(Invoices) :
      TrackRecordAfter[n] = IF n = 0 THEN InitialTrackRecord ELSE Raised(TrackRecordAfter[n - 1])
<1> DEFINE f == [t \in Nat |-> Raised(t)]
           N == Cardinality(Invoices)
           Next0(g) == [n \in 0..N |-> IF n = 0 THEN InitialTrackRecord ELSE Raised(g[n - 1])]
<1>1. N \in Nat
  BY FiniteInvoices, FS_CardinalityType
<1>2. f \in [Nat -> Nat] /\ InitialTrackRecord \in Nat
  BY RaisedType, Parameters DEF InitialTrackRecord
<1>3. \A t \in Nat : f[t] = Raised(t)
  OBVIOUS
<1> HIDE DEF f, N
<1>4. PICK g \in [Nat -> Nat] :
         \A n \in Nat : g[n] = IF n = 0 THEN InitialTrackRecord ELSE f[g[n - 1]]
  BY <1>2, IterateExists
<1> DEFINE h == [n \in 0..N |-> g[n]]
<1>5. ASSUME NEW n \in 0..N
      PROVE  h[n] = IF n = 0 THEN InitialTrackRecord ELSE Raised(h[n - 1])
  <2>1. n \in Nat /\ h[n] = g[n]
    BY <1>1
  <2>2. CASE n = 0
    BY <1>4, <2>1, <2>2
  <2>3. CASE n # 0
    <3>1. n - 1 \in 0..N /\ n - 1 \in Nat
      BY <1>1, <2>3
    <3>2. h[n - 1] = g[n - 1] /\ g[n - 1] \in Nat
      BY <3>1
    <3>3. h[n] = f[g[n - 1]]
      BY <1>4, <2>1, <2>3
    <3> QED
      BY <1>3, <2>3, <3>2, <3>3
  <2> QED
    BY <2>2, <2>3
<1>6. h = Next0(h)
  <2> DEFINE val(n) == IF n = 0 THEN InitialTrackRecord ELSE Raised(h[n - 1])
  <2>1. \A n \in 0..N : g[n] = val(n)
    BY <1>5
  <2> HIDE DEF val
  <2>2. [n \in 0..N |-> g[n]] = [n \in 0..N |-> val(n)]
    BY <2>1
  <2> QED
    BY <2>2, Zenon DEF val
<1> HIDE DEF h
<1>7. TrackRecordAfter = Next0(TrackRecordAfter)
  BY <1>6, Zenon DEF TrackRecordAfter, N
<1> QED
  BY <1>7, Zenon DEF N

Paid(p) == {i \in DOMAIN invoice : invoice[i].supplier = p /\ invoice[i].state = "paid"}

CountInv == TypeOK /\ TrackRecordCountsPayments

\* A step that records no payment
NothingCounted ==
    /\ DOMAIN invoice \subseteq DOMAIN invoice'
    /\ \A i \in DOMAIN invoice :
          /\ invoice'[i].supplier = invoice[i].supplier
          /\ invoice'[i].state = "paid" <=> invoice[i].state = "paid"
    /\ \A i \in DOMAIN invoice' \ DOMAIN invoice : invoice'[i].state # "paid"
    /\ DOMAIN participant \subseteq DOMAIN participant'
    /\ \A p \in DOMAIN participant : participant'[p].trackRecord = participant[p].trackRecord
    /\ \A p \in DOMAIN participant' \ DOMAIN participant :
          participant'[p].trackRecord = InitialTrackRecord

LEMMA CountFrame ==
    ASSUME CountInv, NothingCounted
    PROVE  TrackRecordCountsPayments'
<1> SUFFICES ASSUME NEW p \in DOMAIN participant'
             PROVE  participant'[p].trackRecord = TrackRecordAfter[Cardinality(Paid(p)')]
  BY DEF TrackRecordCountsPayments, Paid
<1>1. CASE p \in DOMAIN participant
  <2>1. Paid(p)' = Paid(p)
    BY DEF NothingCounted, Paid
  <2>2. participant[p].trackRecord = TrackRecordAfter[Cardinality(Paid(p))]
    BY <1>1 DEF CountInv, TrackRecordCountsPayments, Paid
  <2> QED
    BY <1>1, <2>1, <2>2 DEF NothingCounted
<1>2. CASE p \notin DOMAIN participant
  <2>1. Paid(p)' = {}
    BY <1>2 DEF CountInv, TypeOK, ReferencesOK, NothingCounted, Paid
  <2>2. 0 \in 0..Cardinality(Invoices)
    BY FiniteInvoices, FS_CardinalityType
  <2>3. TrackRecordAfter[0] = InitialTrackRecord
    BY <2>2, TrackRecordAfterDef
  <2> QED
    BY <1>2, <2>1, <2>3, FS_EmptySet DEF NothingCounted
<1> QED
  BY <1>1, <1>2

\* A payment adds one invoice to those its supplier has been paid for.
LEMMA PayCounts ==
    ASSUME CountInv, NEW i \in DOMAIN invoice, CanPay(i),
           invoice' = [invoice EXCEPT ![i].state = "paid"],
           DOMAIN participant' = DOMAIN participant,
           \A q \in DOMAIN participant :
               participant'[q].trackRecord = ParticipantAfterPay(q, i).trackRecord
    PROVE  TrackRecordCountsPayments'
<1>0. HeapsOK /\ invoice[i] \in Invoice
  BY DEF CountInv, TypeOK, HeapsOK, HeapOK
<1>1. /\ DOMAIN invoice' = DOMAIN invoice
      /\ invoice[i].state # "paid" /\ invoice'[i].state = "paid"
      /\ invoice'[i].supplier = invoice[i].supplier
      /\ \A j \in DOMAIN invoice : j # i => invoice'[j] = invoice[j]
  BY <1>0 DEF CanPay, HeapsOK, HeapOK, Invoice
<1> SUFFICES ASSUME NEW p \in DOMAIN participant
             PROVE  participant'[p].trackRecord = TrackRecordAfter[Cardinality(Paid(p)')]
  BY DEF TrackRecordCountsPayments, Paid
<1>2. participant[p].trackRecord = TrackRecordAfter[Cardinality(Paid(p))]
  BY DEF CountInv, TrackRecordCountsPayments, Paid
<1>3. participant'[p].trackRecord
         = IF p = invoice[i].supplier THEN Raised(participant[p].trackRecord)
                                      ELSE participant[p].trackRecord
  BY <1>0 DEF HeapsOK, HeapOK, ParticipantAfterPay, Participant
<1>4. CASE p # invoice[i].supplier
  <2>1. Paid(p)' = Paid(p)
    BY <1>1, <1>4 DEF Paid
  <2> QED
    BY <1>2, <1>3, <1>4, <2>1
<1>5. CASE p = invoice[i].supplier
  <2>1. Paid(p)' = Paid(p) \cup {i} /\ i \notin Paid(p)
    BY <1>1, <1>5 DEF Paid
  <2>2. Paid(p)' \subseteq Invoices /\ Paid(p) \subseteq Invoices
    BY <1>0, <1>1 DEF Paid, HeapsOK, HeapOK
  <2>3. /\ IsFiniteSet(Paid(p)) /\ Cardinality(Paid(p)) \in Nat
        /\ Cardinality(Invoices) \in Nat
        /\ Cardinality(Paid(p)') <= Cardinality(Invoices)
    BY <2>2, FiniteInvoices, FS_Subset, FS_CardinalityType
  <2>4. Cardinality(Paid(p)') = Cardinality(Paid(p)) + 1
    BY <2>1, <2>3, FS_AddElement
  <2> DEFINE n == Cardinality(Paid(p))
  <2>5. n + 1 \in 0..Cardinality(Invoices) /\ n + 1 # 0 /\ (n + 1) - 1 = n
    BY <2>3, <2>4
  <2>6. TrackRecordAfter[n + 1] = Raised(TrackRecordAfter[n])
    <3> HIDE DEF n
    <3> QED
      BY <2>5, TrackRecordAfterDef
  <2> QED
    BY <1>2, <1>3, <1>5, <2>4, <2>6
<1> QED
  BY <1>4, <1>5

LEMMA InitCount == Init => CountInv
  BY InitType DEF Init, CountInv, TrackRecordCountsPayments

\* Registering an invoice records no payment.
LEMMA NewInvoiceCounts ==
    ASSUME TypeOK, NEW i, NEW inv, NewInvoice(i, inv), inv.state = "created"
    PROVE  NothingCounted
<1>1. HeapOK(participant, Participants, Participant)
  BY DEF TypeOK, HeapsOK
<1>2. participant' = [participant EXCEPT ![inv.supplier].issuedInvoices = @ \cup {i}]
  BY DEF NewInvoice
<1>3. /\ DOMAIN participant' = DOMAIN participant
      /\ \A p \in DOMAIN participant : participant'[p].trackRecord = participant[p].trackRecord
  BY <1>1, <1>2 DEF HeapOK, Participant
<1>4. /\ i \notin DOMAIN invoice
      /\ DOMAIN invoice' = DOMAIN invoice \cup {i}
      /\ invoice'[i] = inv
      /\ \A j \in DOMAIN invoice : invoice'[j] = invoice[j]
  BY DEF NewInvoice, Create
<1> QED
  BY <1>3, <1>4 DEF NothingCounted

LEMMA StepCount == CountInv /\ [Next]_vars => CountInv'
<1> SUFFICES ASSUME CountInv, [Next]_vars PROVE TrackRecordCountsPayments'
  BY StepType DEF CountInv
<1>0. TypeOK /\ HeapsOK
  BY DEF CountInv, TypeOK
<1>1. ASSUME NEW p \in Participants, NEW d \in PaymentDetails, CreateParticipant(p, d)
      PROVE  NothingCounted
  BY <1>1 DEF CreateParticipant, Create, NothingCounted
<1>2. ASSUME NEW p \in Participants, NEW c \in Contracts, NEW g \in Amounts,
             NEW ms \in SUBSET Milestones, NEW inputs \in [ms -> MilestoneInputs],
             CreateContract(p, c, inputs, g)
      PROVE  NothingCounted
  BY <1>0, <1>2 DEF CreateContract, NothingCounted, HeapsOK, HeapOK, Participant
<1>3. ASSUME UNCHANGED invoice, UNCHANGED participant PROVE NothingCounted
  BY <1>3 DEF NothingCounted
<1>4. ASSUME NEW c \in Contracts, FinaliseCreation(c) PROVE NothingCounted
  BY <1>3, <1>4 DEF FinaliseCreation
<1>5. ASSUME NEW m \in Milestones, NEW ask \in Asks, UpdateOfferAmount(m, ask)
      PROVE  NothingCounted
  BY <1>3, <1>5 DEF UpdateOfferAmount
<1>6. ASSUME NEW m \in Milestones, NEW due \in Documents, MilestoneReached(m, due)
      PROVE  NothingCounted
  BY <1>3, <1>6 DEF MilestoneReached
<1>7. ASSUME NEW m \in Milestones, NEW i \in Invoices, NEW doc \in Documents,
             NEW amount, NEW creditor \in PaymentDetails,
             CreateOriginalInvoice(m, i, doc, amount, creditor)
      PROVE  NothingCounted
  <2> DEFINE inv == OriginalInvoice(m, doc, amount, creditor)
  <2>1. inv.state = "created"
    BY DEF OriginalInvoice
  <2>2. NewInvoice(i, inv)
    BY <1>7 DEF CreateOriginalInvoice
  <2> HIDE DEF inv
  <2> QED
    BY <1>0, <2>1, <2>2, NewInvoiceCounts
<1>8. ASSUME NEW p \in Participants, NEW i \in Invoices, NEW doc \in Documents,
             NEW amount \in Amounts, NEW creditor \in PaymentDetails,
             NEW trade \in BOOLEAN, NEW ask \in Option(Asks),
             CreateNewInvoice(p, i, doc, amount, creditor, trade, ask)
      PROVE  NothingCounted
  <2> DEFINE inv == IndependentInvoice(p, doc, amount, creditor, trade, ask)
  <2>1. inv.state = "created"
    BY DEF IndependentInvoice
  <2>2. NewInvoice(i, inv)
    BY <1>8 DEF CreateNewInvoice
  <2> HIDE DEF inv
  <2> QED
    BY <1>0, <2>1, <2>2, NewInvoiceCounts
<1>9. ASSUME NEW i \in Invoices, SetBlockChainRef(i) PROVE NothingCounted
  BY <1>0, <1>9 DEF SetBlockChainRef, NothingCounted, HeapsOK, HeapOK, Invoice
<1>10. ASSUME NEW i \in Invoices, FinaliseInvoice(i) PROVE NothingCounted
  BY <1>0, <1>10 DEF FinaliseInvoice, NothingCounted, HeapsOK, HeapOK, Invoice
<1>11. ASSUME NEW p \in Participants, NEW i \in Invoices, BuyOffer(p, i)
       PROVE  TrackRecordCountsPayments'
  <2>1. /\ i \in DOMAIN invoice /\ CanPay(i)
        /\ invoice' = [invoice EXCEPT ![i].state = "paid"]
    BY <1>0, <1>11 DEF BuyOffer, IsOpen, HeapsOK, HeapOK
  <2> DEFINE new(q) == [ParticipantAfterPay(q, i) EXCEPT
                          !.boughtOffers = IF q = p THEN @ \cup {i} ELSE @]
  <2>2. ASSUME NEW q \in DOMAIN participant
        PROVE  new(q).trackRecord = ParticipantAfterPay(q, i).trackRecord
    <3>1. participant[q] \in Participant
      BY <1>0 DEF HeapsOK, HeapOK
    <3>2. ParticipantAfterPay(q, i) \in Participant
      BY <3>1, RaisedType DEF ParticipantAfterPay, Participant
    <3> QED
      BY <3>2 DEF Participant
  <2>3. participant' = [q \in DOMAIN participant |-> new(q)]
    BY <1>11 DEF BuyOffer
  <2> HIDE DEF new
  <2>4. /\ DOMAIN participant' = DOMAIN participant
        /\ \A q \in DOMAIN participant :
              participant'[q].trackRecord = ParticipantAfterPay(q, i).trackRecord
    BY <2>2, <2>3
  <2> QED
    BY <2>1, <2>4, PayCounts
<1>12. ASSUME NEW p \in Participants, NEW i \in Invoices, NEW ask \in Asks,
              UpdateOfferPrice(p, i, ask.amount)
       PROVE  NothingCounted
  BY <1>3, <1>12 DEF UpdateOfferPrice
<1>13. CASE UNCHANGED vars
  BY <1>3, <1>13, CountFrame DEF vars
<1> QED
  BY <1>1, <1>2, <1>4, <1>5, <1>6, <1>7, <1>8, <1>9, <1>10, <1>11, <1>12, <1>13, CountFrame
  DEF Next

\* A supplier's track record is what the number of its paid invoices makes it, after any
\* sequence of transactions: no payment is missed, counted twice or credited to somebody
\* else (invoice.npl:70).
THEOREM TrackRecordsCountPayments == Spec => []TrackRecordCountsPayments
<1>1. CountInv => TrackRecordCountsPayments
  BY DEF CountInv
<1> QED
  BY <1>1, InitCount, StepCount, PTL DEF Spec

-----------------------------------------------------------------------------
(* What is settled stays settled.                                            *)

LEMMA StepSettled ==
    ASSUME TradeInv, [Next]_vars, NEW i \in DOMAIN offer, offer[i].state = "bought"
    PROVE  i \in DOMAIN offer' /\ offer'[i] = offer[i]
<1>0. HeapsOK /\ i \in DOMAIN invoice /\ invoice[i].state = "paid"
  BY DEF TradeInv, TypeOK, PaidAgrees, HeapsOK, HeapOK
<1>1. ASSUME NEW j \in Invoices, FinaliseInvoice(j)
      PROVE  i \in DOMAIN offer' /\ offer'[i] = offer[i]
  BY <1>0, <1>1 DEF FinaliseInvoice, Create
<1>2. ASSUME NEW p \in Participants, NEW j \in Invoices, BuyOffer(p, j)
      PROVE  i \in DOMAIN offer' /\ offer'[i] = offer[i]
  BY <1>0, <1>2 DEF BuyOffer, IsOpen, HeapsOK, HeapOK
<1>3. ASSUME NEW p \in Participants, NEW j \in Invoices, NEW ask \in Asks,
             UpdateOfferPrice(p, j, ask.amount)
      PROVE  i \in DOMAIN offer' /\ offer'[i] = offer[i]
  BY <1>0, <1>3 DEF UpdateOfferPrice, IsOpen, HeapsOK, HeapOK
<1>4. ASSUME UNCHANGED offer PROVE i \in DOMAIN offer' /\ offer'[i] = offer[i]
  BY <1>4
<1>5. ASSUME NEW p \in Participants, NEW c \in Contracts, NEW g \in Amounts,
             NEW ms \in SUBSET Milestones, NEW inputs \in [ms -> MilestoneInputs],
             CreateContract(p, c, inputs, g)
      PROVE  UNCHANGED offer
  BY <1>5 DEF CreateContract
<1>6. ASSUME NEW m \in Milestones, NEW j \in Invoices, NEW doc \in Documents,
             NEW amount, NEW creditor \in PaymentDetails,
             CreateOriginalInvoice(m, j, doc, amount, creditor)
      PROVE  UNCHANGED offer
  BY <1>6 DEF CreateOriginalInvoice
<1>7. ASSUME NEW p \in Participants, NEW j \in Invoices, NEW doc \in Documents,
             NEW amount \in Amounts, NEW creditor \in PaymentDetails,
             NEW trade \in BOOLEAN, NEW ask \in Option(Asks),
             CreateNewInvoice(p, j, doc, amount, creditor, trade, ask)
      PROVE  UNCHANGED offer
  BY <1>7 DEF CreateNewInvoice
<1> QED
  BY <1>1, <1>2, <1>3, <1>4, <1>5, <1>6, <1>7
  DEF Next, vars, CreateParticipant, FinaliseCreation, UpdateOfferAmount, MilestoneReached,
      SetBlockChainRef

\* No repricing, second purchase or later transaction changes a bought offer
\* (offer.npl:32-52).
THEOREM BoughtOffersStand == Spec => BoughtOffersAreFinal
<1>1. TradeInv /\ [Next]_vars => [\A i \in DOMAIN offer : offer[i].state = "bought" =>
                                     i \in DOMAIN offer' /\ offer'[i] = offer[i]]_vars
  BY StepSettled
<1> QED
  BY <1>1, InitTrade, StepTrade, PTL DEF Spec, BoughtOffersAreFinal

\* An invoice whose fields a step keeps, but perhaps for a state past "created"
KeptInvoice(i) ==
    /\ i \in DOMAIN invoice'
    /\ invoice'[i] = [invoice[i] EXCEPT !.state = invoice'[i].state]
    /\ invoice'[i].state # "created"

LEMMA StepFinalised ==
    ASSUME TypeOK, [Next]_vars, NEW i \in DOMAIN invoice, invoice[i].state # "created"
    PROVE  KeptInvoice(i)
<1>0. HeapsOK /\ invoice[i] \in Invoice
  BY DEF TypeOK, HeapsOK, HeapOK
<1>1. ASSUME i \in DOMAIN invoice', invoice'[i] = invoice[i] PROVE KeptInvoice(i)
  BY <1>0, <1>1 DEF KeptInvoice, Invoice
<1>2. ASSUME NEW j \in Invoices, FinaliseInvoice(j) PROVE KeptInvoice(i)
  BY <1>0, <1>1, <1>2 DEF FinaliseInvoice, HeapsOK, HeapOK
<1>3. ASSUME NEW p \in Participants, NEW j \in Invoices, BuyOffer(p, j)
      PROVE  KeptInvoice(i)
  <2>1. invoice' = [invoice EXCEPT ![j].state = "paid"]
    BY <1>3 DEF BuyOffer
  <2> QED
    BY <1>0, <1>1, <2>1 DEF KeptInvoice, HeapsOK, HeapOK, Invoice
<1>4. ASSUME NEW j \in Invoices, SetBlockChainRef(j) PROVE KeptInvoice(i)
  BY <1>0, <1>1, <1>4 DEF SetBlockChainRef, HeapsOK, HeapOK
<1>5. ASSUME NEW j, NEW inv, NewInvoice(j, inv) PROVE KeptInvoice(i)
  BY <1>1, <1>5 DEF NewInvoice, Create
<1>6. ASSUME UNCHANGED invoice PROVE KeptInvoice(i)
  BY <1>1, <1>6
<1>7. ASSUME NEW p \in Participants, NEW c \in Contracts, NEW g \in Amounts,
             NEW ms \in SUBSET Milestones, NEW inputs \in [ms -> MilestoneInputs],
             CreateContract(p, c, inputs, g)
      PROVE  KeptInvoice(i)
  BY <1>6, <1>7 DEF CreateContract
<1>8. ASSUME NEW m \in Milestones, NEW j \in Invoices, NEW doc \in Documents,
             NEW amount, NEW creditor \in PaymentDetails,
             CreateOriginalInvoice(m, j, doc, amount, creditor)
      PROVE  KeptInvoice(i)
  BY <1>5, <1>8 DEF CreateOriginalInvoice
<1>9. ASSUME NEW p \in Participants, NEW j \in Invoices, NEW doc \in Documents,
             NEW amount \in Amounts, NEW creditor \in PaymentDetails,
             NEW trade \in BOOLEAN, NEW ask \in Option(Asks),
             CreateNewInvoice(p, j, doc, amount, creditor, trade, ask)
      PROVE  KeptInvoice(i)
  BY <1>5, <1>9 DEF CreateNewInvoice
<1> QED
  BY <1>2, <1>3, <1>4, <1>6, <1>7, <1>8, <1>9
  DEF Next, vars, CreateParticipant, FinaliseCreation, UpdateOfferAmount, MilestoneReached,
      UpdateOfferPrice

\* Nothing that happens after an invoice is finalised changes what its recipient verifies
\* (invoice.npl:47-72).
THEOREM FinalisedInvoicesStand == Spec => FinalisedInvoicesAreImmutable
<1>1. TypeOK /\ [Next]_vars =>
         [\A i \in DOMAIN invoice : invoice[i].state # "created" =>
             /\ i \in DOMAIN invoice'
             /\ invoice'[i] = [invoice[i] EXCEPT !.state = invoice'[i].state]
             /\ invoice'[i].state # "created"]_vars
  BY StepFinalised DEF KeptInvoice
<1> QED
  BY <1>1, InitType, StepType, PTL DEF Spec, FinalisedInvoicesAreImmutable
=============================================================================
