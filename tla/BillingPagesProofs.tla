-------------------------- MODULE BillingPagesProofs --------------------------
(***************************************************************************)
(* What a browser tab shows is true, for every value of the constants: the *)
(* copies an answer is made of stay true of the protocols they were read   *)
(* from, however late they are shown; the reads of one answer fit          *)
(* together; and a page that is loaded after a change shows it.            *)
(***************************************************************************)
EXTENDS BillingPages, BillingApiProofs, SequenceTheorems

-----------------------------------------------------------------------------
(* The backend behind the pages                                              *)

\* Contracts a participant lists exist, and nothing closes: only invoices that are not
\* traded close their milestones, and those are not bought.
OpenContracts ==
    /\ \A p \in DOMAIN participant : participant[p].contracts \subseteq DOMAIN contract
    /\ \A c \in DOMAIN contract : contract[c].state # "closed"
    /\ \A m \in DOMAIN milestone : milestone[m].state # "closed"

\* Where a reference is set, the document it refers to has been stored.
StoredRefs ==
    /\ \A r \in Requests : At(r, "upload") \/ At(r, "refer") => IncludeIpfs
    /\ \A i \in DOMAIN invoice : invoice[i].blockchainRef => Content(invoice[i]) \in ipfs

\* What the pages rely on
ApiInv == ValueInv /\ TradeInv /\ RequestsOK /\ HandlerInv /\ OpenContracts /\ StoredRefs

LEMMA Known ==
    ASSUME ApiInv
    PROVE  /\ TypeOK /\ HeapsOK /\ ReferencesOK /\ RegistriesOK
           /\ MilestoneInvoicesAgree /\ GoodsCovered /\ MilestoneBilledOnce
           /\ HoldersAgree /\ PaidAgrees /\ ListedAsRequested
  BY DEF ApiInv, ValueInv, BillingInv, RegistryInv, TypeOK, TradeInv, HandlerInv, ClaimsOK

\* An instance goes on from what it was to what it is: its state moves on only, and what
\* is fixed by its state stays.
ContractGoesOn(old, new) ==
    /\ Rank[old.state] <= Rank[new.state]
    /\ [old EXCEPT !.state = new.state] = new

MilestoneGoesOn(old, new) ==
    /\ Rank[old.state] <= Rank[new.state]
    /\ old.state # "created" => old.details = new.details /\ old.due = new.due
    /\ old.originalInvoice # None => old.originalInvoice = new.originalInvoice

InvoiceGoesOn(old, new) ==
    /\ Rank[old.state] <= Rank[new.state]
    /\ old.blockchainRef => new.blockchainRef
    /\ Content(old) = Content(new)
    /\ old.milestone = new.milestone

OfferGoesOn(old, new) == old.state = "bought" => old = new

LEMMA Ranks ==
    /\ \A x \in Contract : /\ Rank[x.state] \in Nat
                           /\ Rank[x.state] > 0 <=> x.state # "createdBySupplier"
    /\ \A x \in Milestone : /\ Rank[x.state] \in Nat
                            /\ Rank[x.state] > 0 <=> x.state # "created"
    /\ \A x \in Invoice : /\ Rank[x.state] \in Nat
                          /\ Rank[x.state] > 0 <=> x.state # "created"
                          /\ Rank[x.state] = 3 <=> x.state = "paid"
                          /\ Rank[x.state] <= 3
  BY DEF Rank, Contract, Milestone, Invoice

LEMMA GoesOnReflexive ==
    /\ \A x \in Contract : ContractGoesOn(x, x)
    /\ \A x \in Milestone : MilestoneGoesOn(x, x)
    /\ \A x \in Invoice : InvoiceGoesOn(x, x)
    /\ \A x \in Offer : OfferGoesOn(x, x)
<1>1. \A x \in Contract : ContractGoesOn(x, x)
  <2> SUFFICES ASSUME NEW x \in Contract PROVE ContractGoesOn(x, x)
    OBVIOUS
  <2>1. [x EXCEPT !.state = x.state] = x
    BY DEF Contract
  <2> QED
    BY <2>1, Ranks DEF ContractGoesOn
<1> QED
  BY <1>1, Ranks DEF MilestoneGoesOn, InvoiceGoesOn, OfferGoesOn

LEMMA GoesOnTransitive ==
    /\ \A x, y, z \in Contract : ContractGoesOn(x, y) /\ ContractGoesOn(y, z)
                                    => ContractGoesOn(x, z)
    /\ \A x, y, z \in Milestone : MilestoneGoesOn(x, y) /\ MilestoneGoesOn(y, z)
                                    => MilestoneGoesOn(x, z)
    /\ \A x, y, z \in Invoice : InvoiceGoesOn(x, y) /\ InvoiceGoesOn(y, z)
                                    => InvoiceGoesOn(x, z)
    /\ \A x, y, z \in Offer : OfferGoesOn(x, y) /\ OfferGoesOn(y, z) => OfferGoesOn(x, z)
<1>1. ASSUME NEW x \in Contract, NEW y \in Contract, NEW z \in Contract,
             ContractGoesOn(x, y), ContractGoesOn(y, z)
      PROVE  ContractGoesOn(x, z)
  <2>1. Rank[x.state] <= Rank[z.state]
    BY <1>1, Ranks DEF ContractGoesOn
  <2>2. [x EXCEPT !.state = z.state] = z
    BY <1>1 DEF ContractGoesOn, Contract
  <2> QED
    BY <2>1, <2>2 DEF ContractGoesOn
<1>2. ASSUME NEW x \in Milestone, NEW y \in Milestone, NEW z \in Milestone,
             MilestoneGoesOn(x, y), MilestoneGoesOn(y, z)
      PROVE  MilestoneGoesOn(x, z)
  BY <1>2, Ranks DEF MilestoneGoesOn
<1>3. ASSUME NEW x \in Invoice, NEW y \in Invoice, NEW z \in Invoice,
             InvoiceGoesOn(x, y), InvoiceGoesOn(y, z)
      PROVE  InvoiceGoesOn(x, z)
  BY <1>3, Ranks DEF InvoiceGoesOn
<1> QED
  BY <1>1, <1>2, <1>3 DEF OfferGoesOn

\* Every instance goes on.
Advances ==
    /\ DOMAIN participant \subseteq DOMAIN participant'
    /\ \A c \in DOMAIN contract :
          c \in DOMAIN contract' /\ ContractGoesOn(contract[c], contract'[c])
    /\ \A m \in DOMAIN milestone :
          m \in DOMAIN milestone' /\ MilestoneGoesOn(milestone[m], milestone'[m])
    /\ \A i \in DOMAIN invoice :
          i \in DOMAIN invoice' /\ InvoiceGoesOn(invoice[i], invoice'[i])
    /\ \A i \in DOMAIN offer :
          i \in DOMAIN offer' /\ OfferGoesOn(offer[i], offer'[i])

\* What holds of the state before a step and goes on being
Started ==
    /\ \A c \in DOMAIN contract : contract[c] \in Contract
    /\ \A m \in DOMAIN milestone : milestone[m] \in Milestone
    /\ \A i \in DOMAIN invoice : invoice[i] \in Invoice
    /\ \A i \in DOMAIN offer : offer[i] \in Offer

LEMMA Typed == ASSUME HeapsOK PROVE Started
  BY DEF HeapsOK, HeapOK, Started

\* The step of a transaction: what it does not touch goes on as it is.
LEMMA StepAdvances ==
    ASSUME ApiInv, ApiInv', [Next]_vars
    PROVE  Advances
<1>0. /\ HeapsOK /\ ReferencesOK /\ MilestoneInvoicesAgree /\ ListedAsRequested
      /\ MilestoneBilledOnce' /\ Started
  BY Known, Typed, PTL
<1>1. \A c \in DOMAIN contract : ContractGoesOn(contract[c], contract[c])
  BY <1>0, GoesOnReflexive DEF Started
<1>2. \A m \in DOMAIN milestone : MilestoneGoesOn(milestone[m], milestone[m])
  BY <1>0, GoesOnReflexive DEF Started
<1>3. \A i \in DOMAIN invoice : InvoiceGoesOn(invoice[i], invoice[i])
  BY <1>0, GoesOnReflexive DEF Started
<1>4. \A i \in DOMAIN offer : OfferGoesOn(offer[i], offer[i])
  BY <1>0, GoesOnReflexive DEF Started
<1>5. ASSUME NEW p \in Participants, NEW d \in PaymentDetails, CreateParticipant(p, d)
      PROVE  Advances
  BY <1>1, <1>2, <1>3, <1>4, <1>5 DEF CreateParticipant, Create, Advances
<1>6. ASSUME NEW p \in Participants, NEW c \in Contracts, NEW g \in Amounts,
             NEW ms \in SUBSET Milestones, NEW inputs \in [ms -> MilestoneInputs],
             CreateContract(p, c, inputs, g)
      PROVE  Advances
  BY <1>1, <1>2, <1>3, <1>4, <1>6 DEF CreateContract, Create, Advances
<1>7. ASSUME NEW c \in Contracts, FinaliseCreation(c) PROVE Advances
  <2>1. /\ c \in DOMAIN contract /\ contract[c].state = "createdBySupplier"
        /\ contract' = [contract EXCEPT ![c].state = "creationFinalised"]
        /\ UNCHANGED participant /\ UNCHANGED milestone
        /\ UNCHANGED invoice /\ UNCHANGED offer
    BY <1>7 DEF FinaliseCreation
  <2>2. ContractGoesOn(contract[c], contract'[c])
    BY <1>0, <2>1 DEF Started, ContractGoesOn, Contract, Rank
  <2> QED
    BY <1>1, <1>2, <1>3, <1>4, <2>1, <2>2 DEF Advances
<1>8. ASSUME NEW m \in Milestones, NEW ask \in Asks, UpdateOfferAmount(m, ask)
      PROVE  Advances
  <2>1. /\ m \in DOMAIN milestone /\ milestone[m].state = "created"
        /\ milestone' = [milestone EXCEPT ![m].details.offerAmount = ask]
        /\ UNCHANGED participant /\ UNCHANGED contract
        /\ UNCHANGED invoice /\ UNCHANGED offer
    BY <1>8 DEF UpdateOfferAmount
  <2>2. MilestoneGoesOn(milestone[m], milestone'[m])
    BY <1>0, <2>1 DEF Started, MilestoneGoesOn, Milestone, Rank
  <2> QED
    BY <1>1, <1>2, <1>3, <1>4, <2>1, <2>2 DEF Advances
<1>9. ASSUME NEW m \in Milestones, NEW due \in Documents, MilestoneReached(m, due)
      PROVE  Advances
  <2>1. /\ m \in DOMAIN milestone /\ milestone[m].state = "created"
        /\ milestone' = [milestone EXCEPT ![m].state = "reached", ![m].due = due]
        /\ UNCHANGED participant /\ UNCHANGED contract
        /\ UNCHANGED invoice /\ UNCHANGED offer
    BY <1>9 DEF MilestoneReached
  <2>2. MilestoneGoesOn(milestone[m], milestone'[m])
    BY <1>0, <2>1 DEF Started, MilestoneGoesOn, Milestone, Rank
  <2> QED
    BY <1>1, <1>2, <1>3, <1>4, <2>1, <2>2 DEF Advances
<1>10. ASSUME NEW i, NEW inv, NewInvoice(i, inv)
       PROVE  /\ DOMAIN participant' = DOMAIN participant
              /\ i \notin DOMAIN invoice /\ i \in DOMAIN invoice' /\ invoice'[i] = inv
              /\ \A j \in DOMAIN invoice :
                    j \in DOMAIN invoice' /\ invoice'[j] = invoice[j]
  BY <1>10 DEF NewInvoice, Create
<1>11. ASSUME NEW m \in Milestones, NEW i \in Invoices, NEW doc \in Documents,
              NEW amount, NEW creditor \in PaymentDetails,
              CreateOriginalInvoice(m, i, doc, amount, creditor)
       PROVE  Advances
  <2> DEFINE inv == OriginalInvoice(m, doc, amount, creditor)
  <2>1. /\ m \in DOMAIN milestone /\ NewInvoice(i, inv)
        /\ milestone' = [milestone EXCEPT ![m].originalInvoice = i]
        /\ UNCHANGED contract /\ UNCHANGED offer
    BY <1>11 DEF CreateOriginalInvoice
  <2>2. inv.milestone = m /\ m # None
    BY NoneIsDistinct DEF OriginalInvoice
  <2> HIDE DEF inv
  <2>3. /\ DOMAIN participant' = DOMAIN participant
        /\ i \notin DOMAIN invoice /\ i \in DOMAIN invoice' /\ invoice'[i].milestone = m
        /\ \A j \in DOMAIN invoice :
              j \in DOMAIN invoice' /\ invoice'[j] = invoice[j]
    BY <1>10, <2>1, <2>2
  <2>4. milestone[m].originalInvoice = None
    BY <1>0, <2>1, <2>2, <2>3 DEF MilestoneInvoicesAgree, MilestoneBilledOnce
  <2>5. MilestoneGoesOn(milestone[m], milestone'[m])
    BY <1>0, <2>1, <2>4, Ranks DEF Started, MilestoneGoesOn, Milestone
  <2> QED
    BY <1>1, <1>2, <1>3, <1>4, <2>1, <2>3, <2>5 DEF Advances
<1>12. ASSUME NEW p \in Participants, NEW i \in Invoices, NEW doc \in Documents,
              NEW amount \in Amounts, NEW creditor \in PaymentDetails,
              NEW trade \in BOOLEAN, NEW ask \in Option(Asks),
              CreateNewInvoice(p, i, doc, amount, creditor, trade, ask)
       PROVE  Advances
  <2> DEFINE inv == IndependentInvoice(p, doc, amount, creditor, trade, ask)
  <2>1. /\ NewInvoice(i, inv)
        /\ UNCHANGED contract /\ UNCHANGED milestone /\ UNCHANGED offer
    BY <1>12 DEF CreateNewInvoice
  <2> HIDE DEF inv
  <2> QED
    BY <1>1, <1>2, <1>3, <1>4, <1>10, <2>1 DEF Advances
<1>13. ASSUME NEW i \in Invoices, SetBlockChainRef(i) PROVE Advances
  <2>1. /\ i \in DOMAIN invoice
        /\ invoice' = [invoice EXCEPT ![i].blockchainRef = TRUE]
        /\ UNCHANGED participant /\ UNCHANGED contract
        /\ UNCHANGED milestone /\ UNCHANGED offer
    BY <1>13 DEF SetBlockChainRef
  <2>2. InvoiceGoesOn(invoice[i], invoice'[i])
    BY <1>0, <2>1, Ranks DEF Started, InvoiceGoesOn, Invoice, Content
  <2> QED
    BY <1>1, <1>2, <1>3, <1>4, <2>1, <2>2 DEF Advances
<1>14. ASSUME NEW i \in Invoices, FinaliseInvoice(i) PROVE Advances
  <2>1. /\ i \in DOMAIN invoice /\ invoice[i].state = "created"
        /\ invoice' = [invoice EXCEPT ![i].state = "finalised"]
        /\ UNCHANGED participant /\ UNCHANGED contract /\ UNCHANGED milestone
    BY <1>14 DEF FinaliseInvoice
  <2>2. InvoiceGoesOn(invoice[i], invoice'[i])
    BY <1>0, <2>1 DEF Started, InvoiceGoesOn, Invoice, Content, Rank
  <2>3. i \notin DOMAIN offer
    BY <1>0, <2>1 DEF ListedAsRequested
  <2>4. \A j \in DOMAIN offer : j \in DOMAIN offer' /\ offer'[j] = offer[j]
    BY <1>14, <2>3 DEF FinaliseInvoice, Create
  <2> QED
    BY <1>1, <1>2, <1>3, <1>4, <2>1, <2>2, <2>4 DEF Advances
<1>15. ASSUME NEW p \in Participants, NEW i \in Invoices, BuyOffer(p, i) PROVE Advances
  <2>1. /\ i \in DOMAIN offer /\ offer[i].state = "open"
        /\ i \in DOMAIN invoice /\ invoice[i].toBeTraded
    BY <1>0, <1>15 DEF BuyOffer, IsOpen, ListedAsRequested, HeapsOK, HeapOK
  <2>2. /\ offer' = [offer EXCEPT ![i] = Bought(@, p)]
        /\ invoice' = [invoice EXCEPT ![i].state = "paid"]
        /\ DOMAIN participant' = DOMAIN participant
    BY <1>15 DEF BuyOffer
  <2>3. UNCHANGED milestone /\ UNCHANGED contract
    BY <1>15, <2>1 DEF BuyOffer, MilestonesAfterPay, ContractsAfterPay, ClosesMilestone
  <2>4. InvoiceGoesOn(invoice[i], invoice'[i])
    <3>1. invoice[i] \in Invoice /\ invoice'[i] = [invoice[i] EXCEPT !.state = "paid"]
      BY <1>0, <2>1, <2>2 DEF Started
    <3>2. invoice'[i] \in Invoice /\ invoice'[i].state = "paid"
      BY <3>1 DEF Invoice
    <3>3. Rank[invoice[i].state] <= Rank[invoice'[i].state]
      BY <3>1, <3>2, Ranks
    <3> QED
      BY <3>1, <3>3 DEF InvoiceGoesOn, Invoice, Content
  <2>5. OfferGoesOn(offer[i], offer'[i])
    BY <2>1 DEF OfferGoesOn
  <2> QED
    BY <1>1, <1>2, <1>3, <1>4, <2>1, <2>2, <2>3, <2>4, <2>5 DEF Advances
<1>16. ASSUME NEW p \in Participants, NEW i \in Invoices, NEW ask \in Asks,
              UpdateOfferPrice(p, i, ask.amount)
       PROVE  Advances
  <2>1. /\ i \in DOMAIN offer /\ offer[i].state = "open"
        /\ offer' = [offer EXCEPT ![i].amount.amount = ask.amount * Unit]
        /\ UNCHANGED participant /\ UNCHANGED contract
        /\ UNCHANGED milestone /\ UNCHANGED invoice
    BY <1>16 DEF UpdateOfferPrice, IsOpen
  <2>2. OfferGoesOn(offer[i], offer'[i])
    BY <2>1 DEF OfferGoesOn
  <2> QED
    BY <1>1, <1>2, <1>3, <1>4, <2>1, <2>2 DEF Advances
<1>17. CASE UNCHANGED vars
  BY <1>1, <1>2, <1>3, <1>4, <1>17 DEF vars, Advances
<1> QED
  BY <1>5, <1>6, <1>7, <1>8, <1>9, <1>11, <1>12, <1>13, <1>14, <1>15, <1>16, <1>17 DEF Next

-----------------------------------------------------------------------------
(* The backend keeps what the pages rely on.                                 *)

LEMMA StepOpen ==
    ASSUME TypeOK, ListedAsRequested, OpenContracts, [Next]_vars
    PROVE  OpenContracts'
<1>0. /\ HeapsOK /\ ReferencesOK /\ Started
      /\ \A p \in DOMAIN participant : participant[p] \in Participant
  BY Typed DEF TypeOK, HeapsOK, HeapOK
<1>1. ASSUME NEW p \in Participants, NEW d \in PaymentDetails, CreateParticipant(p, d)
      PROVE  OpenContracts'
  BY <1>1 DEF CreateParticipant, Create, OpenContracts
<1>2. ASSUME NEW p \in Participants, NEW c \in Contracts, NEW g \in Amounts,
             NEW ms \in SUBSET Milestones, NEW inputs \in [ms -> MilestoneInputs],
             CreateContract(p, c, inputs, g)
      PROVE  OpenContracts'
  <2>1. \A q \in DOMAIN participant' : participant'[q].contracts \subseteq DOMAIN contract'
    BY <1>0, <1>2 DEF CreateContract, Create, OpenContracts, Participant
  <2>2. \A x \in DOMAIN contract' : contract'[x].state # "closed"
    BY <1>2 DEF CreateContract, Create, OpenContracts
  <2>3. \A m \in DOMAIN milestone' : milestone'[m].state # "closed"
    BY <1>2 DEF CreateContract, OpenContracts
  <2> QED
    BY <2>1, <2>2, <2>3 DEF OpenContracts
<1>3. ASSUME NEW c \in Contracts, FinaliseCreation(c) PROVE OpenContracts'
  BY <1>0, <1>3 DEF FinaliseCreation, OpenContracts, Started, Contract
<1>4. ASSUME NEW m \in Milestones, NEW ask \in Asks, UpdateOfferAmount(m, ask)
      PROVE  OpenContracts'
  BY <1>0, <1>4 DEF UpdateOfferAmount, OpenContracts, Started, Milestone
<1>5. ASSUME NEW m \in Milestones, NEW due \in Documents, MilestoneReached(m, due)
      PROVE  OpenContracts'
  BY <1>0, <1>5 DEF MilestoneReached, OpenContracts, Started, Milestone
<1>6. ASSUME NEW i, NEW inv, NewInvoice(i, inv)
      PROVE  \A q \in DOMAIN participant' :
                q \in DOMAIN participant /\ participant'[q].contracts = participant[q].contracts
  <2>1. participant' = [participant EXCEPT ![inv.supplier].issuedInvoices = @ \cup {i}]
    BY <1>6 DEF NewInvoice
  <2> QED
    BY <1>0, <2>1 DEF Participant
<1>7. ASSUME NEW m \in Milestones, NEW i \in Invoices, NEW doc \in Documents,
             NEW amount, NEW creditor \in PaymentDetails,
             CreateOriginalInvoice(m, i, doc, amount, creditor)
      PROVE  OpenContracts'
  <2>1. UNCHANGED contract /\ milestone' = [milestone EXCEPT ![m].originalInvoice = i]
    BY <1>7 DEF CreateOriginalInvoice
  <2>2. \A q \in DOMAIN participant' :
           q \in DOMAIN participant /\ participant'[q].contracts = participant[q].contracts
    BY <1>6, <1>7 DEF CreateOriginalInvoice
  <2> QED
    BY <1>0, <2>1, <2>2 DEF OpenContracts, Started, Milestone
<1>8. ASSUME NEW p \in Participants, NEW i \in Invoices, NEW doc \in Documents,
             NEW amount \in Amounts, NEW creditor \in PaymentDetails,
             NEW trade \in BOOLEAN, NEW ask \in Option(Asks),
             CreateNewInvoice(p, i, doc, amount, creditor, trade, ask)
      PROVE  OpenContracts'
  <2>1. UNCHANGED contract /\ UNCHANGED milestone
    BY <1>8 DEF CreateNewInvoice
  <2>2. \A q \in DOMAIN participant' :
           q \in DOMAIN participant /\ participant'[q].contracts = participant[q].contracts
    BY <1>6, <1>8 DEF CreateNewInvoice
  <2> QED
    BY <2>1, <2>2 DEF OpenContracts
<1>9. ASSUME NEW p \in Participants, NEW i \in Invoices, BuyOffer(p, i) PROVE OpenContracts'
  <2>1. invoice[i].toBeTraded
    BY <1>0, <1>9 DEF BuyOffer, IsOpen, ListedAsRequested, HeapsOK, HeapOK
  <2>2. UNCHANGED milestone /\ UNCHANGED contract
    BY <1>9, <2>1 DEF BuyOffer, MilestonesAfterPay, ContractsAfterPay, ClosesMilestone
  <2> DEFINE new(q) == [ParticipantAfterPay(q, i) EXCEPT
                          !.boughtOffers = IF q = p THEN @ \cup {i} ELSE @]
  <2>3. ASSUME NEW q \in DOMAIN participant
        PROVE  new(q).contracts = participant[q].contracts
    <3>1. /\ ParticipantAfterPay(q, i) \in Participant
          /\ ParticipantAfterPay(q, i).contracts = participant[q].contracts
      BY <1>0, RaisedType DEF ParticipantAfterPay, Participant
    <3> QED
      BY <3>1 DEF Participant
  <2>4. participant' = [q \in DOMAIN participant |-> new(q)]
    BY <1>9 DEF BuyOffer
  <2> HIDE DEF new
  <2> QED
    BY <2>2, <2>3, <2>4 DEF OpenContracts
<1>10. ASSUME UNCHANGED participant, UNCHANGED contract, UNCHANGED milestone
       PROVE  OpenContracts'
  BY <1>10 DEF OpenContracts
<1>11. ASSUME NEW i \in Invoices, SetBlockChainRef(i) \/ FinaliseInvoice(i)
       PROVE  OpenContracts'
  BY <1>10, <1>11 DEF SetBlockChainRef, FinaliseInvoice
<1>12. ASSUME NEW p \in Participants, NEW i \in Invoices, NEW ask \in Asks,
              UpdateOfferPrice(p, i, ask.amount)
       PROVE  OpenContracts'
  BY <1>10, <1>12 DEF UpdateOfferPrice
<1>13. CASE UNCHANGED vars
  BY <1>10, <1>13 DEF vars
<1> QED
  BY <1>1, <1>2, <1>3, <1>4, <1>5, <1>7, <1>8, <1>9, <1>11, <1>12, <1>13 DEF Next

\* A step that sets no reference
NoReference ==
    \A i \in DOMAIN invoice' : invoice'[i].blockchainRef =>
        /\ i \in DOMAIN invoice
        /\ invoice[i].blockchainRef
        /\ Content(invoice'[i]) = Content(invoice[i])

\* No request but the one that is to, sets a reference.
LEMMA NoReferenceSet ==
    ASSUME HeapsOK
    PROVE  /\ UNCHANGED invoice => NoReference
           /\ OtherRequest => NoReference
           /\ \A i, inv : NewInvoice(i, inv) /\ ~inv.blockchainRef => NoReference
           /\ \A i : FinaliseInvoice(i) => NoReference
<1>0. \A i \in DOMAIN invoice : invoice[i] \in Invoice
  BY DEF HeapsOK, HeapOK
<1>1. UNCHANGED invoice => NoReference
  BY DEF NoReference
<1>2. ASSUME NEW i, NEW inv, NewInvoice(i, inv), ~inv.blockchainRef PROVE NoReference
  BY <1>2 DEF NewInvoice, Create, NoReference
<1>3. ASSUME NEW i, NEW to \in {"finalised", "paid"},
             invoice' = [invoice EXCEPT ![i].state = to]
      PROVE  NoReference
  BY <1>0, <1>3 DEF NoReference, Invoice, Content
<1>4. ASSUME NEW i, FinaliseInvoice(i) PROVE NoReference
  BY <1>3, <1>4 DEF FinaliseInvoice
<1>5. ASSUME NEW p, NEW i, BuyOffer(p, i) PROVE NoReference
  BY <1>3, <1>5 DEF BuyOffer
<1>6. ASSUME RegisterRequest \/ ContractRequest PROVE UNCHANGED invoice
  <2>1. ASSUME NEW p, NEW d, CreateParticipant(p, d) PROVE UNCHANGED invoice
    BY <2>1 DEF CreateParticipant
  <2>2. ASSUME NEW p, NEW c, NEW inputs, NEW g, CreateContract(p, c, inputs, g)
        PROVE  UNCHANGED invoice
    BY <2>2 DEF CreateContract
  <2> QED
    BY <1>6, <2>1, <2>2 DEF RegisterRequest, ContractRequest
<1>7. ASSUME SignRequest \/ MilestonePriceRequest \/ OfferPriceRequest PROVE UNCHANGED invoice
  BY <1>7 DEF SignRequest, MilestonePriceRequest, OfferPriceRequest, FinaliseCreation,
              UpdateOfferAmount, UpdateOfferPrice
<1>8. ASSUME PurchaseRequest PROVE NoReference
  BY <1>5, <1>8 DEF PurchaseRequest
<1>9. OtherRequest => NoReference
  BY <1>1, <1>6, <1>7, <1>8 DEF OtherRequest
<1> QED
  BY <1>1, <1>2, <1>4, <1>9

LEMMA StepStored ==
    ASSUME RequestsOK, TypeOK, HandlerInv, StoredRefs, [ApiNext]_apiVars
    PROVE  StoredRefs'
<1>0. HeapsOK /\ \A r \in Requests : LocalsOK(request[r], invoice, milestone, ipfs)
  BY DEF TypeOK, HandlerInv
<1>1. ASSUME \A r \in Requests : request'[r].step \in {"upload", "refer"} => IncludeIpfs,
             NoReference, ipfs \subseteq ipfs'
      PROVE  StoredRefs'
  BY <1>1 DEF StoredRefs, NoReference, At
<1>2. CASE UNCHANGED request /\ UNCHANGED ipfs /\ NoReference
  BY <1>1, <1>2 DEF StoredRefs, At
<1>3. CASE UNCHANGED apiVars \/ OtherRequest
  <2>1. UNCHANGED request /\ UNCHANGED ipfs
    BY <1>3 DEF apiVars, OtherRequest
  <2>2. NoReference
    BY <1>0, <1>3, NoReferenceSet DEF apiVars, vars
  <2> QED
    BY <1>2, <2>1, <2>2
\* A request that goes on to a step where no reference is at stake, or to "refer" from
\* "upload"
<1>4. ASSUME NEW r \in Requests, NEW new, request' = [request EXCEPT ![r] = new],
             new.step \in {"upload", "refer"} => IncludeIpfs
      PROVE  \A s \in Requests : request'[s].step \in {"upload", "refer"} => IncludeIpfs
  BY <1>4 DEF RequestsOK, StoredRefs, At
<1>5. ASSUME NEW r \in Requests, NEW to, Goto(r, to), to \in {"upload", "refer"} => IncludeIpfs
      PROVE  \A s \in Requests : request'[s].step \in {"upload", "refer"} => IncludeIpfs
  <2>1. request' = [request EXCEPT ![r] = [request[r] EXCEPT !.step = to]]
    BY <1>5 DEF Goto
  <2>2. [request[r] EXCEPT !.step = to].step = to
    BY DEF RequestsOK, Request
  <2> QED
    BY <1>4, <1>5, <2>1, <2>2
<1>6. ASSUME NEW r \in Requests, NEW i, Created(r, i)
      PROVE  \A s \in Requests : request'[s].step \in {"upload", "refer"} => IncludeIpfs
  <2> DEFINE to == IF IncludeIpfs THEN "upload" ELSE "finalise"
             new == [request[r] EXCEPT !.invoice = i, !.step = to]
  <2>1. request' = [request EXCEPT ![r] = new]
    BY <1>6 DEF Created
  <2>2. new.step = to
    BY DEF RequestsOK, Request
  <2>3. to \in {"upload", "refer"} => IncludeIpfs
    OBVIOUS
  <2> HIDE DEF new, to
  <2> QED
    BY <1>4, <2>1, <2>2, <2>3
<1>7. ASSUME NEW r \in Requests, Post(r) PROVE StoredRefs'
  <2>1. UNCHANGED invoice /\ UNCHANGED ipfs
    BY <1>7 DEF Post, PostInvoice, PostClosure, vars
  <2>2. \A s \in Requests : request'[s].step \in {"upload", "refer"} => IncludeIpfs
    <3>1. ASSUME NEW p, NEW req, PostInvoice(r, p, req)
          PROVE  \A s \in Requests : request'[s].step \in {"upload", "refer"} => IncludeIpfs
      <4> DEFINE new == [request[r] EXCEPT !.step = "create", !.from = p,
                                           !.invoiceRequest = req]
      <4>1. request' = [request EXCEPT ![r] = new]
        BY <3>1 DEF PostInvoice
      <4>2. new.step = "create"
        BY DEF RequestsOK, Request
      <4> HIDE DEF new
      <4> QED
        BY <1>4, <4>1, <4>2
    <3>2. ASSUME NEW m, PostClosure(r, m)
          PROVE  \A s \in Requests : request'[s].step \in {"upload", "refer"} => IncludeIpfs
      <4> DEFINE new == [request[r] EXCEPT !.step = "reach", !.from = m]
      <4>1. request' = [request EXCEPT ![r] = new]
        BY <3>2 DEF PostClosure
      <4>2. new.step = "reach"
        BY DEF RequestsOK, Request
      <4> HIDE DEF new
      <4> QED
        BY <1>4, <4>1, <4>2
    <3> QED
      BY <1>7, <3>1, <3>2 DEF Post
  <2> QED
    BY <1>0, <1>1, <2>1, <2>2, NoReferenceSet
<1>8. ASSUME NEW r \in Requests, Fail(r) PROVE StoredRefs'
  BY <1>0, <1>1, <1>5, <1>8, NoReferenceSet DEF Fail, vars
<1>9. ASSUME NEW r \in Requests, Proceed(r) PROVE StoredRefs'
  <2>1. CASE CreateInvoice(r)
    <3> DEFINE p == request[r].from
               req == request[r].invoiceRequest
    <3>1. PICK i \in Invoices :
             /\ Created(r, i)
             /\ NewInvoice(i, IndependentInvoice(p, req.document, req.amount,
                                   req.creditorData, req.toBeTraded, req.offerAmount))
      BY <2>1 DEF CreateInvoice, CreateNewInvoice
    <3>2. NoReference /\ UNCHANGED ipfs
      BY <1>0, <2>1, <3>1, NoReferenceSet DEF IndependentInvoice, CreateInvoice
    <3> QED
      BY <1>1, <1>6, <3>1, <3>2
  <2>2. CASE BillMilestone(r)
    <3> DEFINE m == request[r].from
               req == request[r].invoiceRequest
    <3>1. PICK i \in Invoices :
             /\ Created(r, i)
             /\ NewInvoice(i, OriginalInvoice(m, req.document, req.amount, req.creditorData))
      BY <2>2 DEF BillMilestone, CreateOriginalInvoice
    <3>2. NoReference /\ UNCHANGED ipfs
      BY <1>0, <2>2, <3>1, NoReferenceSet DEF OriginalInvoice, BillMilestone
    <3> QED
      BY <1>1, <1>6, <3>1, <3>2
  <2>3. CASE Upload(r)
    <3>1. IncludeIpfs /\ UNCHANGED invoice /\ ipfs \subseteq ipfs' /\ Goto(r, "refer")
      BY <2>3 DEF Upload, StoredRefs, vars
    <3> QED
      BY <1>0, <1>1, <1>5, <3>1, NoReferenceSet
  <2>4. CASE Refer(r)
    <3> DEFINE i == request[r].invoice
    <3>1. /\ i \in DOMAIN invoice /\ invoice' = [invoice EXCEPT ![i].blockchainRef = TRUE]
          /\ At(r, "refer") /\ Goto(r, "finalise") /\ UNCHANGED ipfs
      BY <2>4 DEF Refer, SetBlockChainRef
    <3>2. Content(invoice[i]) \in ipfs
      BY <1>0, <3>1 DEF LocalsOK, StoredRefs, At
    <3> HIDE DEF i
    <3>3. \A j \in DOMAIN invoice : invoice[j] \in Invoice
      BY <1>0 DEF HeapsOK, HeapOK
    <3>4. \A j \in DOMAIN invoice' : invoice'[j].blockchainRef => Content(invoice'[j]) \in ipfs'
      BY <3>1, <3>2, <3>3 DEF StoredRefs, Invoice, Content
    <3>5. \A s \in Requests : request'[s].step \in {"upload", "refer"} => IncludeIpfs
      BY <1>5, <3>1
    <3> QED
      BY <3>4, <3>5 DEF StoredRefs, At
  <2>5. CASE Finalise(r)
    <3>1. /\ FinaliseInvoice(request[r].invoice) /\ UNCHANGED ipfs
          /\ Goto(r, "respond")
      BY <2>5 DEF Finalise
    <3>2. NoReference
      BY <1>0, <3>1, NoReferenceSet
    <3> QED
      BY <1>1, <1>5, <3>1, <3>2
  <2>6. CASE ReadMilestone(r)
    <3> DEFINE ms == milestone[request[r].from]
               req == [document |-> ms.due, amount |-> ms.details.amount,
                       creditorData |->
                          participant[contract[ms.contract].supplier].paymentDetails,
                       toBeTraded |-> ms.details.invoiceToTrade,
                       offerAmount |-> ms.details.offerAmount]
               new == [request[r] EXCEPT !.step = "bill", !.invoiceRequest = req]
    <3>1. request' = [request EXCEPT ![r] = new]
      BY <2>6 DEF ReadMilestone
    <3> HIDE DEF req
    <3>2. new.step = "bill"
      BY DEF RequestsOK, Request
    <3>3. UNCHANGED invoice /\ UNCHANGED ipfs
      BY <2>6 DEF ReadMilestone, vars
    <3> HIDE DEF new
    <3> QED
      BY <1>0, <1>1, <1>4, <3>1, <3>2, <3>3, NoReferenceSet
  <2>7. ASSUME NEW to \in {"read", "refused", "ok"}, Goto(r, to), UNCHANGED ipfs,
               UNCHANGED invoice
        PROVE  StoredRefs'
    BY <1>0, <1>1, <1>5, <2>7, NoReferenceSet
  <2>8. CASE ReachMilestone(r)
    BY <2>7, <2>8 DEF ReachMilestone, MilestoneReached
  <2>9. CASE InvoiceRefused(r) \/ ReachRefused(r) \/ BillRefused(r) \/ Respond(r)
    BY <2>7, <2>9 DEF InvoiceRefused, ReachRefused, BillRefused, Respond, vars
  <2> QED
    BY <1>9, <2>1, <2>2, <2>3, <2>4, <2>5, <2>6, <2>8, <2>9 DEF Proceed
<1> QED
  BY <1>3, <1>7, <1>8, <1>9 DEF ApiNext

-----------------------------------------------------------------------------
(* What a tab knows                                                          *)

\* What an answer is made of, and what of it can be read now
Items ==
    ({"contract"} \X Contracts) \cup ({"milestone", "reference"} \X Milestones)
        \cup ({"invoice", "offer"} \X Invoices)

Present(item) ==
    /\ item \in Items
    /\ item[1] = "contract" => item[2] \in DOMAIN contract
    /\ item[1] \in {"milestone", "reference"} => item[2] \in DOMAIN milestone
    /\ item[1] = "invoice" => item[2] \in DOMAIN invoice
    /\ item[1] = "offer" => item[2] \in DOMAIN offer

\* Copies, against what they were made of
ContractCopy(copy, now) ==
    copy \in Contract /\ copy.state # "closed" /\ ContractGoesOn(copy, now)

MilestoneCopy(copy, now) ==
    copy \in Milestone /\ copy.state # "closed" /\ MilestoneGoesOn(copy, now)

InvoiceCopy(copy, now) ==
    /\ copy \in Invoice
    /\ copy.state # "traded"
    /\ IncludeIpfs /\ copy.state # "created" => copy.blockchainRef
    /\ InvoiceGoesOn(copy, now)

OfferCopy(copy, now) == copy \in Offer /\ OfferGoesOn(copy, now)

\* Milestone m has an invoice, and that has its reference.
ReferenceSet(m) ==
    /\ milestone[m].originalInvoice # None
    /\ invoice[milestone[m].originalInvoice].blockchainRef

CopyOK(item, copy) ==
    /\ Present(item)
    /\ item[1] = "contract" => ContractCopy(copy, contract[item[2]])
    /\ item[1] = "milestone" => MilestoneCopy(copy, milestone[item[2]])
    /\ item[1] = "invoice" => InvoiceCopy(copy, invoice[item[2]])
    /\ item[1] = "offer" => OfferCopy(copy, offer[item[2]])
    /\ item[1] = "reference" => copy \in BOOLEAN /\ (copy => ReferenceSet(item[2]))

GotOK(got) == \A item \in DOMAIN got : CopyOK(item, got[item])

\* What a store action has done or is about to see done, by its action
PageOK(page) ==
    /\ page \in Protocols \cup (Lists \X {None})
    /\ page \in Protocols => Present(page)
    /\ page[1] \in Lists => User \in DOMAIN participant

Signs(c) == c \in DOMAIN contract /\ contract[c].state # "createdBySupplier"

\* Request r closes milestone m.
Closing(r, m) ==
    /\ r \in Requests
    /\ request[r].from = m
    /\ request[r].step \notin {"unsent", "create"}
    /\ request[r].invoice # None => invoice[request[r].invoice].milestone = m

\* Milestone m is closed as far as the backend goes.
Closed(m) ==
    /\ milestone[m].state # "created"
    /\ milestone[m].originalInvoice # None
    /\ IncludeIpfs => ReferenceSet(m)

Purchased(o) == o.state = "bought" /\ o.offerBuyer = User

Issued(i) == invoice[i].state # "created"

ActionOK(q) ==
    /\ q.action = "sign" => q.page = <<"contract", q.about>> /\ Signs(q.about)
    /\ q.action = "complete" =>
          /\ q.page[1] = "contract"
          /\ Signs(q.page[2])
          /\ q.about \in contract[q.page[2]].milestones
          /\ IF q.step = "acting" THEN Closing(q.request, q.about) ELSE Closed(q.about)
    /\ q.action = "buy" =>
          /\ q.page = <<"portfolio", None>>
          /\ q.about \in DOMAIN offer
          /\ Purchased(offer[q.about])
    /\ q.action = "addInvoice" =>
          IF q.step = "acting" THEN q.request \in Requests
                               ELSE q.page[1] = "invoice" /\ Issued(q.page[2])
    /\ q.action = "verify" => q.about \in Files

\* Item has been read for the answer of q, or will be.
Comes(q, item) == item \in DOMAIN q.got \cup Range(q.todo)

\* What the page and the action of q say of the items and copies of its answer
OnPage(q, item) ==
    /\ q.page[1] = "contract" =>
          /\ item[1] = "contract" => item = q.page
          /\ item[1] \in {"milestone", "reference"} =>
                item[2] \in contract[q.page[2]].milestones
    /\ q.page[1] = "portfolio" /\ item[1] = "offer" => Purchased(offer[item[2]])

CopyFits(q, item, copy) ==
    /\ q.action \in {"sign", "complete"} /\ item = q.page => copy.state # "createdBySupplier"
    /\ q.action = "complete" /\ item = <<"milestone", q.about>> =>
          copy.state # "created" /\ copy.originalInvoice # None
    /\ q.action = "complete" /\ item = <<"reference", q.about>> => (IncludeIpfs => copy)
    /\ q.action = "addInvoice" /\ item = q.page => copy.state # "created"
    /\ q.page[1] = "portfolio" /\ item[1] = "offer" => Purchased(copy)

\* What the copies of one answer say of each other
ContractFits(q, copy) ==
    \A m \in copy.milestones :
        Comes(q, <<"milestone", m>>) /\ Comes(q, <<"reference", m>>)

OfferFits(q, i, copy) ==
    \/ <<"invoice", i>> \in Range(q.todo)
    \/ /\ <<"invoice", i>> \in DOMAIN q.got
       /\ LET inv == q.got[<<"invoice", i>>]
          IN  inv.state # "created" /\ (copy.state = "bought" => inv.state = "paid")

InvoiceFits(q, copy) ==
    LET m == copy.milestone
    IN  \/ <<"milestone", m>> \in Range(q.todo)
        \/ /\ <<"milestone", m>> \in DOMAIN q.got
           /\ q.got[<<"milestone", m>>].state # "created"
           /\ q.got[<<"milestone", m>>].originalInvoice # None
           /\ \/ <<"reference", m>> \in Range(q.todo)
              \/ /\ <<"reference", m>> \in DOMAIN q.got
                 /\ copy.blockchainRef => q.got[<<"reference", m>>]

FitsTogether(q, item, copy) ==
    /\ item[1] = "contract" => ContractFits(q, copy)
    /\ item[1] = "offer" => OfferFits(q, item[2], copy)
    /\ item[1] = "invoice" /\ q.page[1] \in {"invoices", "invoice"} /\ copy.milestone # None
          => InvoiceFits(q, copy)

\* A reference is read with the copy of its milestone.
InOrder(q) ==
    \A k \in DOMAIN q.todo : q.todo[k][1] = "reference" =>
        LET ms == <<"milestone", q.todo[k][2]>>
        IN  ms \in DOMAIN q.got \/ \E j \in 1..(k - 1) : q.todo[j] = ms

ReadOK(q) ==
    /\ q.todo \in Seq(Items)
    /\ \A item \in Range(q.todo) : Present(item) /\ OnPage(q, item)
    /\ \A item \in DOMAIN q.got :
          /\ CopyOK(item, q.got[item])
          /\ OnPage(q, item)
          /\ CopyFits(q, item, q.got[item])
          /\ FitsTogether(q, item, q.got[item])
    /\ InOrder(q)
    /\ q.page \in Protocols => Comes(q, q.page)
    /\ q.action = "buy" => Comes(q, <<"offer", q.about>>)

TaskOK(q) ==
    /\ q = [step |-> q.step, action |-> q.action, about |-> q.about, request |-> q.request,
            page |-> q.page, todo |-> q.todo, got |-> q.got]
    /\ q.step \in {"idle", "acting", "list", "read", "success", "failed"}
    /\ q.step # "read" => q.todo = <<>> /\ q.got = <<>>
    /\ \/ q.step \in {"list", "read"}
       \/ q.step = "acting" /\ q.action \notin {"addInvoice", "verify"}
       => PageOK(q.page)
    /\ q.step # "idle" => ActionOK(q) /\ User \in DOMAIN participant
    /\ q.step = "read" => ReadOK(q)
    /\ q.step \in {"success", "failed"} => q.action = "verify"
    /\ q.step = "success" => Authentic(q.about)

\* A contract is shown with all its milestones, and no others.
ContractWhole(got) ==
    \A c \in Contracts : <<"contract", c>> \in DOMAIN got =>
        {item \in DOMAIN got : item[1] = "milestone"}
            = {"milestone"} \X got[<<"contract", c>>].milestones

\* A contract of a list is shown with all its milestones.
MilestonesListed(got) ==
    \A c \in Contracts : <<"contract", c>> \in DOMAIN got =>
        \A m \in got[<<"contract", c>>].milestones : <<"milestone", m>> \in DOMAIN got

\* Where the user has been, there is something.
RouteOK ==
    /\ route # None \/ dialog # None => route \in visited
    /\ visited \subseteq Pages
    /\ \A page \in visited : Exists(page)
    /\ visited # {} => User \in DOMAIN participant

PagesOK ==
    /\ RouteOK
    /\ DOMAIN store = Slots
    /\ \A slot \in Slots : GotOK(store[slot])
    /\ ContractWhole(store.contractCurrent)
    /\ MilestonesListed(store.contracts)
    /\ DOMAIN task = Tasks
    /\ \A t \in Tasks : TaskOK(task[t])

PagesInv == ApiInv /\ PagesOK

-----------------------------------------------------------------------------
(* What a step of the backend leaves of it                                   *)

LEMMA InitApi == ApiInit => ApiInv
<1> SUFFICES ASSUME ApiInit PROVE ApiInv
  OBVIOUS
<1>1. Init
  BY DEF ApiInit
<1>2. OpenContracts
  BY <1>1 DEF Init, OpenContracts
<1>3. StoredRefs
  BY <1>1 DEF ApiInit, Init, StoredRefs, At
<1> QED
  BY <1>1, <1>2, <1>3, InitValue, InitTrade, InitRequests, InitHandlers DEF ApiInv

\* Whatever the backend does, it keeps what the pages rely on, and every instance goes on.
LEMMA StepApi ==
    ASSUME ApiInv, [ApiNext]_apiVars
    PROVE  [Next]_vars /\ ApiInv' /\ Advances
<1>0. TypeOK /\ ListedAsRequested
  BY Known
<1>1. [Next]_vars
  BY <1>0, StepIsTransaction DEF ApiInv
<1>2. ValueInv' /\ TradeInv'
  BY <1>1, StepValue, StepTrade DEF ApiInv
<1>3. RequestsOK' /\ HandlerInv'
  BY <1>0, StepRequests, StepHandlers DEF ApiInv
<1>4. OpenContracts'
  BY <1>0, <1>1, StepOpen DEF ApiInv
<1>5. StoredRefs'
  BY <1>0, StepStored DEF ApiInv
<1>6. ApiInv'
  BY <1>2, <1>3, <1>4, <1>5 DEF ApiInv
<1> QED
  BY <1>1, <1>6, StepAdvances

LEMMA KeepPresent ==
    ASSUME Advances
    PROVE  \A item : Present(item) => Present(item)'
  BY DEF Present, Advances

LEMMA KeepReference ==
    ASSUME ApiInv, Advances, NEW m \in DOMAIN milestone, ReferenceSet(m)
    PROVE  ReferenceSet(m)'
<1>1. MilestoneInvoicesAgree
  BY Known
<1>2. milestone'[m].originalInvoice = milestone[m].originalInvoice
  BY DEF Advances, MilestoneGoesOn, ReferenceSet
<1>3. milestone[m].originalInvoice \in DOMAIN invoice
  BY <1>1 DEF MilestoneInvoicesAgree, ReferenceSet
<1> QED
  BY <1>2, <1>3 DEF Advances, InvoiceGoesOn, ReferenceSet

\* A copy that was true stays true.
LEMMA KeepCopy ==
    ASSUME ApiInv, ApiInv', Advances, NEW item, NEW copy, CopyOK(item, copy)
    PROVE  CopyOK(item, copy)'
<1>0. Started /\ Started'
  BY Known, Typed, PTL
<1>1. Present(item) /\ Present(item)'
  BY KeepPresent DEF CopyOK
<1>2. ASSUME item[1] = "contract" PROVE ContractCopy(copy, contract'[item[2]])
  <2> DEFINE c == item[2]
  <2>1. /\ c \in DOMAIN contract /\ c \in DOMAIN contract'
        /\ ContractCopy(copy, contract[c])
    BY <1>1, <1>2 DEF Present, CopyOK
  <2> HIDE DEF c
  <2>2. /\ contract[c] \in Contract /\ contract'[c] \in Contract
        /\ ContractGoesOn(contract[c], contract'[c])
    BY <1>0, <2>1 DEF Started, Advances
  <2>3. ContractCopy(copy, contract'[c])
    BY <2>1, <2>2, GoesOnTransitive DEF ContractCopy
  <2> QED
    BY <2>3 DEF c
<1>3. ASSUME item[1] = "milestone" PROVE MilestoneCopy(copy, milestone'[item[2]])
  <2> DEFINE m == item[2]
  <2>1. /\ m \in DOMAIN milestone /\ m \in DOMAIN milestone'
        /\ MilestoneCopy(copy, milestone[m])
    BY <1>1, <1>3 DEF Present, CopyOK
  <2> HIDE DEF m
  <2>2. /\ milestone[m] \in Milestone /\ milestone'[m] \in Milestone
        /\ MilestoneGoesOn(milestone[m], milestone'[m])
    BY <1>0, <2>1 DEF Started, Advances
  <2>3. MilestoneCopy(copy, milestone'[m])
    BY <2>1, <2>2, GoesOnTransitive DEF MilestoneCopy
  <2> QED
    BY <2>3 DEF m
<1>4. ASSUME item[1] = "invoice" PROVE InvoiceCopy(copy, invoice'[item[2]])
  <2> DEFINE i == item[2]
  <2>1. /\ i \in DOMAIN invoice /\ i \in DOMAIN invoice'
        /\ InvoiceCopy(copy, invoice[i])
    BY <1>1, <1>4 DEF Present, CopyOK
  <2> HIDE DEF i
  <2>2. /\ invoice[i] \in Invoice /\ invoice'[i] \in Invoice
        /\ InvoiceGoesOn(invoice[i], invoice'[i])
    BY <1>0, <2>1 DEF Started, Advances
  <2>3. InvoiceCopy(copy, invoice'[i])
    BY <2>1, <2>2, GoesOnTransitive DEF InvoiceCopy
  <2> QED
    BY <2>3 DEF i
<1>5. ASSUME item[1] = "offer" PROVE OfferCopy(copy, offer'[item[2]])
  <2> DEFINE i == item[2]
  <2>1. /\ i \in DOMAIN offer /\ i \in DOMAIN offer'
        /\ OfferCopy(copy, offer[i])
    BY <1>1, <1>5 DEF Present, CopyOK
  <2> HIDE DEF i
  <2>2. /\ offer[i] \in Offer /\ offer'[i] \in Offer
        /\ OfferGoesOn(offer[i], offer'[i])
    BY <1>0, <2>1 DEF Started, Advances
  <2>3. OfferCopy(copy, offer'[i])
    BY <2>1, <2>2, GoesOnTransitive DEF OfferCopy
  <2> QED
    BY <2>3 DEF i
<1>6. ASSUME item[1] = "reference" PROVE copy \in BOOLEAN /\ (copy => ReferenceSet(item[2])')
  BY <1>1, <1>6, KeepReference DEF Present, CopyOK
<1> QED
  BY <1>1, <1>2, <1>3, <1>4, <1>5, <1>6 DEF CopyOK

\* A request that closes a milestone goes on closing that one.
LEMMA KeepClosing ==
    ASSUME ApiInv, [ApiNext]_apiVars, NEW r, NEW m, Closing(r, m)
    PROVE  Closing(r, m)'
<1>0. /\ RequestsOK /\ HandlerInv /\ Advances /\ r \in Requests
      /\ LocalsOK(request[r], invoice, milestone, ipfs)
  BY StepApi DEF ApiInv, HandlerInv, Closing
<1>1. ASSUME request'[r].from = request[r].from, request'[r].invoice = request[r].invoice,
             request'[r].step \notin {"unsent", "create"}
      PROVE  Closing(r, m)'
  BY <1>0, <1>1 DEF Closing, LocalsOK, Advances, InvoiceGoesOn
<1>2. CASE request'[r] = request[r]
  BY <1>1, <1>2 DEF Closing
<1>3. CASE UNCHANGED apiVars \/ OtherRequest
  BY <1>2, <1>3 DEF apiVars, OtherRequest
<1>4. ASSUME NEW s \in Requests, NEW new, request' = [request EXCEPT ![s] = new], s # r
      PROVE  Closing(r, m)'
  BY <1>0, <1>2, <1>4, OtherLocals
<1>5. ASSUME NEW s \in Requests, NEW to, Goto(s, to), to \notin {"unsent", "create"}
      PROVE  Closing(r, m)'
  <2>1. request' = [request EXCEPT ![s] = [request[s] EXCEPT !.step = to]]
    BY <1>5 DEF Goto
  <2>2. CASE s = r
    BY <1>0, <1>1, <1>5, <2>1, <2>2 DEF RequestsOK, Request
  <2> QED
    BY <1>4, <2>1, <2>2
<1>6. ASSUME NEW s \in Requests, Post(s) PROVE Closing(r, m)'
  <2>1. s # r
    BY <1>6 DEF Post, PostInvoice, PostClosure, At, Closing
  <2>2. ASSUME NEW p, NEW req, PostInvoice(s, p, req) PROVE Closing(r, m)'
    <3> DEFINE new == [request[s] EXCEPT !.step = "create", !.from = p, !.invoiceRequest = req]
    <3>1. request' = [request EXCEPT ![s] = new]
      BY <2>2 DEF PostInvoice
    <3> HIDE DEF new
    <3> QED
      BY <1>4, <2>1, <3>1
  <2>3. ASSUME NEW x, PostClosure(s, x) PROVE Closing(r, m)'
    BY <1>4, <2>1, <2>3 DEF PostClosure
  <2> QED
    BY <1>6, <2>2, <2>3 DEF Post
<1>7. ASSUME NEW s \in Requests, Proceed(s) PROVE Closing(r, m)'
  <2>1. CASE CreateInvoice(s)
    <3>1. s # r
      BY <2>1 DEF CreateInvoice, At, Closing
    <3>2. PICK i : Created(s, i)
      BY <2>1 DEF CreateInvoice
    <3> DEFINE to == IF IncludeIpfs THEN "upload" ELSE "finalise"
               new == [request[s] EXCEPT !.invoice = i, !.step = to]
    <3>3. request' = [request EXCEPT ![s] = new]
      BY <3>2 DEF Created
    <3> HIDE DEF new
    <3> QED
      BY <1>4, <3>1, <3>3
  <2>2. CASE BillMilestone(s)
    <3> DEFINE req == request[s].invoiceRequest
               to == IF IncludeIpfs THEN "upload" ELSE "finalise"
    <3>1. PICK i : /\ Created(s, i)
                   /\ NewInvoice(i, OriginalInvoice(request[s].from, req.document, req.amount,
                                                    req.creditorData))
      BY <2>2 DEF BillMilestone, CreateOriginalInvoice
    <3> DEFINE new == [request[s] EXCEPT !.invoice = i, !.step = to]
    <3>2. request' = [request EXCEPT ![s] = new]
      BY <3>1 DEF Created
    <3>3. invoice'[i].milestone = request[s].from
      BY <3>1 DEF NewInvoice, Create, OriginalInvoice
    <3>4. to \notin {"unsent", "create"}
      OBVIOUS
    <3> HIDE DEF to
    <3>5. /\ new.from = request[s].from /\ new.invoice = i
          /\ new.step \notin {"unsent", "create"}
      BY <1>0, <3>4 DEF RequestsOK, Request
    <3> HIDE DEF new
    <3>6. CASE s = r
      <4>1. request'[r] = new
        BY <1>0, <3>2, <3>6, OtherLocals
      <4> QED
        BY <3>3, <3>5, <3>6, <4>1 DEF Closing
    <3> QED
      BY <1>4, <3>2, <3>6
  <2>3. CASE ReadMilestone(s)
    <3> DEFINE ms == milestone[request[s].from]
               req == [document |-> ms.due, amount |-> ms.details.amount,
                       creditorData |->
                          participant[contract[ms.contract].supplier].paymentDetails,
                       toBeTraded |-> ms.details.invoiceToTrade,
                       offerAmount |-> ms.details.offerAmount]
               new == [request[s] EXCEPT !.step = "bill", !.invoiceRequest = req]
    <3>1. request' = [request EXCEPT ![s] = new]
      BY <2>3 DEF ReadMilestone
    <3> HIDE DEF req
    <3>2. /\ new.from = request[s].from /\ new.invoice = request[s].invoice
          /\ new.step = "bill"
      BY <1>0 DEF RequestsOK, Request
    <3> HIDE DEF new
    <3>3. CASE s = r
      BY <1>0, <1>1, <3>1, <3>2, <3>3, OtherLocals
    <3> QED
      BY <1>4, <3>1, <3>3
  <2>4. CASE ReachMilestone(s) \/ InvoiceRefused(s) \/ ReachRefused(s) \/ BillRefused(s)
    BY <1>5, <2>4 DEF ReachMilestone, InvoiceRefused, ReachRefused, BillRefused
  <2>5. CASE Upload(s) \/ Refer(s) \/ Finalise(s) \/ Respond(s)
    BY <1>5, <2>5 DEF Upload, Refer, Finalise, Respond
  <2> QED
    BY <1>7, <2>1, <2>2, <2>3, <2>4, <2>5 DEF Proceed
<1>8. ASSUME NEW s \in Requests, Fail(s) PROVE Closing(r, m)'
  BY <1>5, <1>8 DEF Fail
<1> QED
  BY <1>3, <1>6, <1>7, <1>8 DEF ApiNext

LEMMA KeepSigned ==
    ASSUME ApiInv, ApiInv', Advances, NEW c, Signs(c)
    PROVE  Signs(c)' /\ contract'[c].milestones = contract[c].milestones
<1>0. Started /\ Started'
  BY Known, Typed, PTL
<1>1. /\ c \in DOMAIN contract /\ c \in DOMAIN contract'
      /\ contract[c] \in Contract /\ contract'[c] \in Contract
      /\ ContractGoesOn(contract[c], contract'[c])
      /\ contract[c].state # "createdBySupplier"
  BY <1>0 DEF Signs, Started, Advances
<1>2. contract'[c].state # "createdBySupplier"
  <2>1. Rank[contract[c].state] > 0
    BY <1>1, Ranks
  <2>2. Rank[contract'[c].state] > 0
    <3>1. Rank[contract[c].state] \in Nat /\ Rank[contract'[c].state] \in Nat
      BY <1>1, Ranks
    <3> QED
      BY <1>1, <2>1, <3>1 DEF ContractGoesOn
  <2> QED
    BY <1>1, <2>2, Ranks
<1>3. contract'[c].milestones = contract[c].milestones
  BY <1>1 DEF ContractGoesOn, Contract
<1> QED
  BY <1>1, <1>2, <1>3 DEF Signs

LEMMA KeepMilestones ==
    ASSUME ApiInv, Advances, NEW c \in DOMAIN contract
    PROVE  contract'[c].milestones = contract[c].milestones
<1>0. Started
  BY Known, Typed
<1> QED
  BY <1>0 DEF Started, Advances, ContractGoesOn, Contract

LEMMA KeepClosed ==
    ASSUME ApiInv, ApiInv', Advances, NEW m \in DOMAIN milestone, Closed(m)
    PROVE  Closed(m)'
<1>0. Started /\ Started'
  BY Known, Typed, PTL
<1>1. /\ m \in DOMAIN milestone' /\ milestone[m] \in Milestone /\ milestone'[m] \in Milestone
      /\ MilestoneGoesOn(milestone[m], milestone'[m])
      /\ milestone[m].state # "created" /\ milestone[m].originalInvoice # None
  BY <1>0 DEF Closed, Started, Advances
<1>2. milestone'[m].state # "created"
  <2>1. Rank[milestone[m].state] > 0
    BY <1>1, Ranks
  <2>2. Rank[milestone[m].state] \in Nat /\ Rank[milestone'[m].state] \in Nat
    BY <1>1, Ranks
  <2>3. Rank[milestone'[m].state] > 0
    BY <1>1, <2>1, <2>2 DEF MilestoneGoesOn
  <2> QED
    BY <1>1, <2>3, Ranks
<1>3. milestone'[m].originalInvoice # None
  BY <1>1 DEF MilestoneGoesOn
<1>4. IncludeIpfs => ReferenceSet(m)'
  BY KeepReference DEF Closed
<1> QED
  BY <1>2, <1>3, <1>4 DEF Closed

LEMMA KeepIssued ==
    ASSUME ApiInv, ApiInv', Advances, NEW i \in DOMAIN invoice, Issued(i)
    PROVE  Issued(i)'
<1>0. Started /\ Started'
  BY Known, Typed, PTL
<1>1. /\ i \in DOMAIN invoice' /\ invoice[i] \in Invoice /\ invoice'[i] \in Invoice
      /\ InvoiceGoesOn(invoice[i], invoice'[i]) /\ invoice[i].state # "created"
  BY <1>0 DEF Issued, Started, Advances
<1>2. Rank[invoice[i].state] > 0
  BY <1>1, Ranks
<1>3. Rank[invoice[i].state] \in Nat /\ Rank[invoice'[i].state] \in Nat
  BY <1>1, Ranks
<1>4. Rank[invoice'[i].state] > 0
  BY <1>1, <1>2, <1>3 DEF InvoiceGoesOn
<1> QED
  BY <1>1, <1>4, Ranks DEF Issued

LEMMA KeepPurchased ==
    ASSUME Advances, NEW i \in DOMAIN offer, Purchased(offer[i])
    PROVE  i \in DOMAIN offer' /\ Purchased(offer'[i])
  BY DEF Purchased, Advances, OfferGoesOn

\* The protocol a page is about
LEMMA PageProtocol ==
    ASSUME NEW page, PageOK(page)
    PROVE  /\ page[1] \in {"contract", "milestone", "invoice", "offer"} =>
                 page \in Protocols /\ Present(page)
           /\ page[1] = "contract" => page[2] \in DOMAIN contract
           /\ page[1] = "invoice" => page[2] \in DOMAIN invoice
<1>1. page[1] \in {"contract", "milestone", "invoice", "offer"} => page \notin Lists \X {None}
  BY DEF Lists
<1> QED
  BY <1>1 DEF PageOK, Present

LEMMA KeepPage ==
    ASSUME Advances, NEW page, PageOK(page)
    PROVE  PageOK(page)'
  BY KeepPresent DEF PageOK, Advances

\* What a store action knows of what it is doing stays true.
LEMMA KeepAction ==
    ASSUME ApiInv, [ApiNext]_apiVars, NEW q, ActionOK(q),
           q.step = "acting" \/ q.action = "verify" \/ PageOK(q.page)
    PROVE  ActionOK(q)'
<1>0. /\ Advances /\ ApiInv' /\ GoodsCovered
  BY StepApi, Known
<1>1. ASSUME q.action = "sign" PROVE q.page = <<"contract", q.about>> /\ Signs(q.about)'
  BY <1>0, <1>1, KeepSigned DEF ActionOK
<1>2. ASSUME q.action = "complete"
      PROVE  /\ q.page[1] = "contract"
             /\ Signs(q.page[2])'
             /\ q.about \in contract'[q.page[2]].milestones
             /\ IF q.step = "acting" THEN Closing(q.request, q.about)' ELSE Closed(q.about)'
  <2>1. /\ q.page[1] = "contract" /\ Signs(q.page[2])
        /\ q.about \in contract[q.page[2]].milestones
        /\ IF q.step = "acting" THEN Closing(q.request, q.about) ELSE Closed(q.about)
    BY <1>2 DEF ActionOK
  <2>2. Signs(q.page[2])' /\ q.about \in contract'[q.page[2]].milestones
    BY <1>0, <2>1, KeepSigned
  <2>3. q.about \in DOMAIN milestone
    BY <1>0, <2>1 DEF GoodsCovered, Signs
  <2>4. CASE q.step = "acting"
    BY <2>1, <2>2, <2>4, KeepClosing
  <2>5. CASE q.step # "acting"
    BY <1>0, <2>1, <2>2, <2>3, <2>5, KeepClosed
  <2> QED
    BY <2>4, <2>5
<1>3. ASSUME q.action = "buy"
      PROVE  /\ q.page = <<"portfolio", None>>
             /\ q.about \in DOMAIN offer'
             /\ Purchased(offer'[q.about])
  BY <1>0, <1>3, KeepPurchased DEF ActionOK
<1>4. ASSUME q.action = "addInvoice"
      PROVE  IF q.step = "acting" THEN q.request \in Requests
                                  ELSE q.page[1] = "invoice" /\ Issued(q.page[2])'
  <2>1. CASE q.step = "acting"
    BY <1>4, <2>1 DEF ActionOK
  <2>2. CASE q.step # "acting"
    <3>1. q.page[1] = "invoice" /\ Issued(q.page[2]) /\ PageOK(q.page)
      BY <1>4, <2>2 DEF ActionOK
    <3>2. q.page[2] \in DOMAIN invoice
      BY <3>1, PageProtocol
    <3> QED
      BY <1>0, <2>2, <3>1, <3>2, KeepIssued
  <2> QED
    BY <2>1, <2>2
<1>5. q.action = "verify" => q.about \in Files
  BY DEF ActionOK
<1> QED
  BY <1>1, <1>2, <1>3, <1>4, <1>5 DEF ActionOK

\* An invoice that says what a file says goes on saying it.
LEMMA KeepAuthentic ==
    ASSUME Advances, NEW file, Authentic(file)
    PROVE  Authentic(file)'
<1>1. PICK i \in DOMAIN invoice :
         [document |-> invoice[i].document, amount |-> invoice[i].amount,
          creditorData |-> invoice[i].creditorData] = file
  BY DEF Authentic
<1>2. i \in DOMAIN invoice' /\ Content(invoice[i]) = Content(invoice'[i])
  BY DEF Advances, InvoiceGoesOn
<1>3. /\ invoice'[i].document = invoice[i].document /\ invoice'[i].amount = invoice[i].amount
      /\ invoice'[i].creditorData = invoice[i].creditorData
  BY <1>2 DEF Content
<1> QED
  BY <1>1, <1>2, <1>3 DEF Authentic

\* What a store action has read stays true.
LEMMA KeepRead ==
    ASSUME ApiInv, [ApiNext]_apiVars, NEW q, ReadOK(q), PageOK(q.page)
    PROVE  ReadOK(q)'
<1>0. Advances /\ ApiInv'
  BY StepApi
<1>1. ASSUME NEW item, Present(item), OnPage(q, item) PROVE OnPage(q, item)'
  <2>1. ASSUME q.page[1] = "contract"
        PROVE  contract'[q.page[2]].milestones = contract[q.page[2]].milestones
    BY <1>0, <2>1, PageProtocol, KeepMilestones
  <2>2. ASSUME item[1] = "offer", Purchased(offer[item[2]]) PROVE Purchased(offer'[item[2]])
    BY <1>0, <1>1, <2>2, KeepPurchased DEF Present
  <2> QED
    BY <1>1, <2>1, <2>2 DEF OnPage
<1>2. \A item \in Range(q.todo) : Present(item)' /\ OnPage(q, item)'
  BY <1>0, <1>1, KeepPresent DEF ReadOK
<1>3. \A item \in DOMAIN q.got : CopyOK(item, q.got[item])' /\ OnPage(q, item)'
  BY <1>0, <1>1, KeepCopy DEF ReadOK, CopyOK
<1> QED
  BY <1>2, <1>3 DEF ReadOK

LEMMA KeepTask ==
    ASSUME ApiInv, [ApiNext]_apiVars, NEW q, TaskOK(q)
    PROVE  TaskOK(q)'
<1>0. Advances
  BY StepApi
<1>1. PageOK(q.page) => PageOK(q.page)'
  BY <1>0, KeepPage
<1>2. q.step # "idle" => ActionOK(q)' /\ User \in DOMAIN participant'
  BY <1>0, KeepAction DEF TaskOK, Advances
<1>3. q.step = "read" => ReadOK(q)'
  BY KeepRead DEF TaskOK
<1>4. q.step = "success" => Authentic(q.about)'
  BY <1>0, KeepAuthentic DEF TaskOK
<1> QED
  BY <1>1, <1>2, <1>3, <1>4 DEF TaskOK

LEMMA KeepGot ==
    ASSUME ApiInv, [ApiNext]_apiVars, NEW got, GotOK(got)
    PROVE  GotOK(got)'
  BY StepApi, KeepCopy DEF GotOK

-----------------------------------------------------------------------------
(* The reads of an answer                                                    *)

\* A list of a set holds its members and no others.
LEMMA ListOfSet ==
    ASSUME NEW S, IsFiniteSet(S), NEW s \in SetToSeqs(S)
    PROVE  s \in Seq(S) /\ Range(s) = S
<1> DEFINE n == Cardinality(S)
<1>1. n \in Nat /\ IsFiniteSet(1..n) /\ Cardinality(1..n) = n
  BY FS_CardinalityType, FS_Interval
<1>2. s \in [1..n -> S] /\ \A i, j \in 1..n : i # j => s[i] # s[j]
  BY DEF SetToSeqs
<1> HIDE DEF n
<1>3. s \in Injection(1..n, S)
  BY <1>2 DEF Injection, IsInjective
<1>4. s \in Surjection(1..n, S)
  BY <1>1, <1>3, FS_Injection DEF n
<1>5. Range(s) = S
  BY <1>2, <1>4 DEF Surjection, Range
<1>6. s \in Seq(S)
  BY <1>1, <1>2
<1> QED
  BY <1>5, <1>6

LEMMA RangeOfTail ==
    ASSUME NEW S, NEW s \in Seq(S), s # <<>>
    PROVE  /\ Tail(s) \in Seq(S)
           /\ Head(s) \in Range(s)
           /\ Range(Tail(s)) \subseteq Range(s)
           /\ Range(s) \subseteq {Head(s)} \cup Range(Tail(s))
<1>1. /\ Len(s) \in Nat \ {0} /\ DOMAIN s = 1..Len(s)
      /\ Head(s) = s[1] /\ Tail(s) \in Seq(S) /\ Len(Tail(s)) = Len(s) - 1
      /\ \A i \in 1..(Len(s) - 1) : Tail(s)[i] = s[i + 1]
  BY HeadTailProperties, EmptySeq, LenProperties
<1>2. DOMAIN Tail(s) = 1..(Len(s) - 1)
  BY <1>1, LenProperties
<1>3. Range(Tail(s)) \subseteq Range(s)
  BY <1>1, <1>2 DEF Range
<1>4. ASSUME NEW k \in 1..Len(s), k # 1 PROVE s[k] \in Range(Tail(s))
  <2>1. k - 1 \in 1..(Len(s) - 1) /\ Tail(s)[k - 1] = s[(k - 1) + 1] /\ (k - 1) + 1 = k
    BY <1>1, <1>4
  <2> QED
    BY <1>2, <2>1 DEF Range
<1> QED
  BY <1>1, <1>3, <1>4 DEF Range

LEMMA RangeOfConcat ==
    ASSUME NEW S, NEW s \in Seq(S), NEW t \in Seq(S)
    PROVE  Range(s \o t) = Range(s) \cup Range(t)
  BY RangeConcatenation

\* What a load starts from is there.
LEMMA ListedItems ==
    ASSUME ApiInv, NEW page, PageOK(page)
    PROVE  /\ IsFiniteSet(Listed(page)) /\ Listed(page) \subseteq Items
           /\ \A item \in Listed(page) : Present(item) /\ item[1] # "reference"
           /\ page \in Protocols => Listed(page) = {page}
           /\ page[1] = "portfolio" => \A item \in Listed(page) :
                 item[1] = "offer" => Purchased(offer[item[2]])
<1>0. /\ HeapsOK /\ RegistriesOK /\ HoldersAgree /\ OpenContracts
      /\ \A p \in DOMAIN participant : participant[p].boughtOffers \subseteq DOMAIN offer
  BY Known DEF ApiInv, TradeInv
<1>1. /\ DOMAIN contract \subseteq Contracts /\ DOMAIN invoice \subseteq Invoices
      /\ DOMAIN offer \subseteq DOMAIN invoice
  BY <1>0 DEF HeapsOK, HeapOK
<1>2. ASSUME NEW kind, NEW S, NEW T, IsFiniteSet(T), S \subseteq T
      PROVE  IsFiniteSet({kind} \X S)
  BY <1>2, FS_Subset, FS_Product, FS_Singleton
<1>3. CASE page \in Protocols
  <2>1. page[1] \in {"contract", "milestone", "invoice", "offer"}
    BY <1>3 DEF Protocols
  <2>2. Listed(page) = {page}
    BY <2>1 DEF Listed
  <2>3. Present(page)
    BY <2>1, PageProtocol
  <2> QED
    BY <2>1, <2>2, <2>3, FS_Singleton DEF Present
<1>4. CASE page \notin Protocols
  <2>1. page \in Lists \X {None} /\ User \in DOMAIN participant
    BY <1>4 DEF PageOK
  <2>2. CASE page[1] = "contracts"
    <3>1. Listed(page) = {"contract"} \X participant[User].contracts
      BY <2>2 DEF Listed, MyContracts
    <3>2. participant[User].contracts \subseteq DOMAIN contract
      BY <1>0, <2>1 DEF OpenContracts
    <3>3. IsFiniteSet(Listed(page))
      BY <1>1, <1>2, <3>1, <3>2, FiniteContracts
    <3> QED
      BY <1>1, <1>4, <2>2, <3>1, <3>2, <3>3 DEF Present, Items
  <2>3. CASE page[1] = "invoices"
    <3>1. Listed(page) = {"invoice"} \X participant[User].issuedInvoices
      BY <2>3 DEF Listed, IssuedInvoices
    <3>2. participant[User].issuedInvoices \subseteq DOMAIN invoice
      BY <1>0, <2>1 DEF RegistriesOK
    <3>3. IsFiniteSet(Listed(page))
      BY <1>1, <1>2, <3>1, <3>2, FiniteInvoices
    <3> QED
      BY <1>1, <1>4, <2>3, <3>1, <3>2, <3>3 DEF Present, Items
  <2>4. ASSUME NEW S, S \subseteq DOMAIN offer, Listed(page) = {"offer"} \X S
        PROVE  /\ IsFiniteSet(Listed(page)) /\ Listed(page) \subseteq Items
               /\ \A item \in Listed(page) : Present(item) /\ item[1] # "reference"
    <3>1. IsFiniteSet(Listed(page))
      BY <1>1, <1>2, <2>4, FiniteInvoices
    <3> QED
      BY <1>1, <2>4, <3>1 DEF Present, Items
  <2>5. CASE page[1] = "marketplace"
    <3>1. Listed(page) = {"offer"} \X GetOpenOffers
      BY <2>5 DEF Listed, OpenOffers
    <3>2. GetOpenOffers \subseteq DOMAIN offer
      BY DEF GetOpenOffers, ReturnMyIssuedOffers
    <3> QED
      BY <1>4, <2>4, <2>5, <3>1, <3>2
  <2>6. CASE page[1] = "offers"
    <3>1. Listed(page) = {"offer"} \X ReturnMyIssuedOffers(User)
      BY <2>6 DEF Listed, MyIssuedOffers
    <3>2. ReturnMyIssuedOffers(User) \subseteq DOMAIN offer
      BY DEF ReturnMyIssuedOffers
    <3> QED
      BY <1>4, <2>4, <2>6, <3>1, <3>2
  <2>7. CASE page[1] = "portfolio"
    <3>1. Listed(page) = {"offer"} \X participant[User].boughtOffers
      BY <2>7 DEF Listed, MyBoughtOffers
    <3>2. participant[User].boughtOffers \subseteq DOMAIN offer
      BY <1>0, <2>1
    <3>3. \A i \in participant[User].boughtOffers : Purchased(offer[i])
      BY <1>0, <2>1, <3>2 DEF HoldersAgree, Purchased
    <3> QED
      BY <1>4, <2>4, <2>7, <3>1, <3>2, <3>3
  <2> QED
    BY <2>1, <2>2, <2>3, <2>5, <2>6, <2>7 DEF Lists
<1> QED
  BY <1>3, <1>4

\* A load that has listed what to read
LEMMA StartsReading ==
    ASSUME ApiInv, NEW q, TaskOK(q), q.step = "list",
           NEW items \in SetToSeqs(Listed(q.page)), NEW new,
           new = [q EXCEPT !.step = "read", !.todo = items]
    PROVE  TaskOK(new)
<1> DEFINE page == q.page
<1>0. /\ q = [step |-> q.step, action |-> q.action, about |-> q.about, request |-> q.request,
              page |-> q.page, todo |-> q.todo, got |-> q.got]
      /\ q.got = <<>> /\ PageOK(page) /\ ActionOK(q)
  BY DEF TaskOK
<1>1. /\ new.step = "read" /\ new.action = q.action /\ new.about = q.about
      /\ new.request = q.request /\ new.page = page /\ new.todo = items /\ new.got = <<>>
      /\ new = [step |-> new.step, action |-> new.action, about |-> new.about,
                request |-> new.request, page |-> new.page, todo |-> new.todo,
                got |-> new.got]
  BY <1>0
<1>2. items \in Seq(Items) /\ Range(items) = Listed(page)
  BY <1>0, ListedItems, ListOfSet, SeqMonotonic
<1>3. DOMAIN new.got = {}
  BY <1>1
<1> HIDE DEF page
<1>4. \A item \in Listed(page) : Present(item) /\ OnPage(new, item)
  <2>1. ASSUME page[1] = "contract" PROVE Listed(page) = {page}
    BY <1>0, <2>1, PageProtocol, ListedItems
  <2>2. ASSUME NEW item \in Listed(page) PROVE OnPage(new, item)
    BY <1>0, <1>1, <2>1, ListedItems DEF OnPage
  <2> QED
    BY <1>0, <2>2, ListedItems
<1>5. InOrder(new)
  <2>1. \A k \in DOMAIN items : items[k] \in Listed(page)
    BY <1>2 DEF Range
  <2> QED
    BY <1>0, <1>1, <2>1, ListedItems DEF InOrder
<1>6. page \in Protocols => Comes(new, page)
  BY <1>0, <1>1, <1>2, ListedItems DEF Comes
<1>7. q.action = "buy" => Comes(new, <<"offer", q.about>>)
  <2> SUFFICES ASSUME q.action = "buy" PROVE <<"offer", q.about>> \in Listed(page)
    BY <1>1, <1>2 DEF Comes
  <2>1. page = <<"portfolio", None>> /\ q.about \in DOMAIN offer /\ Purchased(offer[q.about])
    BY <1>0 DEF ActionOK, page
  <2>2. User \in DOMAIN participant /\ HoldersAgree
    BY <1>0, <2>1, Known DEF PageOK, Lists
  <2>3. q.about \in participant[User].boughtOffers
    BY <2>1, <2>2 DEF HoldersAgree, Purchased
  <2> QED
    BY <2>1, <2>3 DEF Listed, MyBoughtOffers
<1>8. ReadOK(new)
  BY <1>1, <1>2, <1>3, <1>4, <1>5, <1>6, <1>7 DEF ReadOK
<1>9. ActionOK(new)
  BY <1>0, <1>1 DEF ActionOK, page
<1> QED
  BY <1>0, <1>1, <1>8, <1>9 DEF TaskOK

\* A milestone's copy names the invoice that the milestone has.
LEMMA CopiedReference ==
    ASSUME ApiInv, NEW m, NEW ms, CopyOK(<<"milestone", m>>, ms)
    PROVE  /\ BlockchainRef(ms) \in BOOLEAN
           /\ BlockchainRef(ms) => ReferenceSet(m)
           /\ ms.originalInvoice # None /\ ReferenceSet(m) => BlockchainRef(ms)
<1>0. /\ MilestoneInvoicesAgree /\ Started
  BY Known, Typed
<1>1. m \in DOMAIN milestone /\ MilestoneGoesOn(ms, milestone[m])
  BY DEF CopyOK, Present, MilestoneCopy
<1>2. ms.originalInvoice # None => /\ ms.originalInvoice = milestone[m].originalInvoice
                                   /\ ms.originalInvoice \in DOMAIN invoice
  BY <1>0, <1>1 DEF MilestoneGoesOn, MilestoneInvoicesAgree
<1>3. ms.originalInvoice # None => invoice[ms.originalInvoice].blockchainRef \in BOOLEAN
  BY <1>0, <1>2 DEF Started, Invoice
<1> QED
  BY <1>2, <1>3 DEF BlockchainRef, ReferenceSet

\* The first of what is left to read, and the copy that is made of it
LEMMA FreshCopy ==
    ASSUME ApiInv, NEW q, ReadOK(q), q.todo # <<>>,
           NEW item, item = Head(q.todo), NEW copy, copy = Copy(item, q.got)
    PROVE  /\ item \in Range(q.todo) /\ Present(item) /\ OnPage(q, item)
           /\ CopyOK(item, copy)
           /\ item[1] = "contract" => copy = contract[item[2]]
           /\ item[1] = "milestone" => copy = milestone[item[2]]
           /\ item[1] = "invoice" => copy = invoice[item[2]]
           /\ item[1] = "offer" => copy = offer[item[2]]
           /\ item[1] = "reference" =>
                 /\ <<"milestone", item[2]>> \in DOMAIN q.got
                 /\ copy = BlockchainRef(q.got[<<"milestone", item[2]>>])
<1>0. /\ Started /\ OpenContracts /\ HandlerInv
  BY Known, Typed DEF ApiInv
<1>1. item \in Range(q.todo) /\ Present(item) /\ OnPage(q, item)
  BY RangeOfTail DEF ReadOK
<1>2. ASSUME item[1] = "contract"
      PROVE  copy = contract[item[2]] /\ ContractCopy(copy, contract[item[2]])
  <2>1. copy = contract[item[2]] /\ item[2] \in DOMAIN contract
    BY <1>1, <1>2 DEF Copy, Present
  <2> QED
    BY <1>0, <2>1, GoesOnReflexive DEF ContractCopy, Started, OpenContracts
<1>3. ASSUME item[1] = "milestone"
      PROVE  copy = milestone[item[2]] /\ MilestoneCopy(copy, milestone[item[2]])
  <2>1. copy = milestone[item[2]] /\ item[2] \in DOMAIN milestone
    BY <1>1, <1>3 DEF Copy, Present
  <2> QED
    BY <1>0, <2>1, GoesOnReflexive DEF MilestoneCopy, Started, OpenContracts
<1>4. ASSUME item[1] = "invoice"
      PROVE  copy = invoice[item[2]] /\ InvoiceCopy(copy, invoice[item[2]])
  <2>1. copy = invoice[item[2]] /\ item[2] \in DOMAIN invoice
    BY <1>1, <1>4 DEF Copy, Present
  <2> QED
    BY <1>0, <2>1, GoesOnReflexive DEF InvoiceCopy, Started, HandlerInv, FinalisedIsPublished
<1>5. ASSUME item[1] = "offer"
      PROVE  copy = offer[item[2]] /\ OfferCopy(copy, offer[item[2]])
  <2>1. copy = offer[item[2]] /\ item[2] \in DOMAIN offer
    BY <1>1, <1>5 DEF Copy, Present
  <2> QED
    BY <1>0, <2>1, GoesOnReflexive DEF OfferCopy, Started
<1>6. ASSUME item[1] = "reference"
      PROVE  /\ <<"milestone", item[2]>> \in DOMAIN q.got
             /\ copy = BlockchainRef(q.got[<<"milestone", item[2]>>])
             /\ copy \in BOOLEAN /\ (copy => ReferenceSet(item[2]))
  <2>1. 1 \in DOMAIN q.todo /\ q.todo[1] = item
    BY LenProperties, EmptySeq DEF ReadOK
  <2>2. <<"milestone", item[2]>> \in DOMAIN q.got
    BY <1>6, <2>1 DEF ReadOK, InOrder
  <2>3. copy = BlockchainRef(q.got[<<"milestone", item[2]>>])
    BY <1>6 DEF Copy
  <2> QED
    BY <2>2, <2>3, CopiedReference DEF ReadOK
<1> QED
  BY <1>1, <1>2, <1>3, <1>4, <1>5, <1>6 DEF CopyOK

\* A copy that is made after the action shows what the action did.
LEMMA FreshFits ==
    ASSUME ApiInv, NEW q, ReadOK(q), ActionOK(q), q.step = "read", q.todo # <<>>,
           NEW item, item = Head(q.todo), NEW copy, copy = Copy(item, q.got)
    PROVE  CopyFits(q, item, copy)
<1>1. ASSUME q.action \in {"sign", "complete"}, item = q.page
      PROVE  copy.state # "createdBySupplier"
  <2>1. item[1] = "contract" /\ contract[item[2]].state # "createdBySupplier"
    BY <1>1 DEF ActionOK, Signs
  <2> QED
    BY <2>1, FreshCopy
<1>2. ASSUME q.action = "complete" PROVE Closed(q.about)
  BY <1>2 DEF ActionOK
<1>3. ASSUME q.action = "complete", item = <<"milestone", q.about>>
      PROVE  copy.state # "created" /\ copy.originalInvoice # None
  <2>1. copy = milestone[q.about]
    BY <1>3, FreshCopy
  <2> QED
    BY <1>2, <1>3, <2>1 DEF Closed
<1>4. ASSUME q.action = "complete", item = <<"reference", q.about>>, IncludeIpfs PROVE copy
  <2> DEFINE ms == <<"milestone", q.about>>
  <2>1. ms \in DOMAIN q.got /\ copy = BlockchainRef(q.got[ms])
    BY <1>4, FreshCopy
  <2>2. q.got[ms].originalInvoice # None /\ CopyOK(ms, q.got[ms])
    BY <1>4, <2>1 DEF ReadOK, CopyFits
  <2>3. ReferenceSet(q.about)
    BY <1>2, <1>4 DEF Closed
  <2> QED
    BY <2>1, <2>2, <2>3, CopiedReference
<1>5. ASSUME q.action = "addInvoice", item = q.page PROVE copy.state # "created"
  <2>1. item[1] = "invoice" /\ Issued(item[2])
    BY <1>5 DEF ActionOK
  <2> QED
    BY <2>1, FreshCopy DEF Issued
<1>6. ASSUME q.page[1] = "portfolio", item[1] = "offer" PROVE Purchased(copy)
  <2>1. OnPage(q, item) /\ copy = offer[item[2]]
    BY <1>6, FreshCopy
  <2> QED
    BY <1>6, <2>1 DEF OnPage
<1> QED
  BY <1>1, <1>3, <1>4, <1>5, <1>6 DEF CopyFits

\* The references of a contract's milestones are read after the milestones.
LEMMA ContractReadsDef ==
    ASSUME NEW S \in SUBSET Milestones, NEW c, c.milestones = S, NEW next \in ContractReads(c)
    PROVE  /\ next \in Seq(Items)
           /\ Range(next) = {"milestone", "reference"} \X S
           /\ \A k \in DOMAIN next : next[k][1] = "reference" =>
                 \E j \in 1..(k - 1) : next[j] = <<"milestone", next[k][2]>>
<1>1. PICK ms \in SetToSeqs(S) : next = [k \in 1..Len(ms) |-> <<"milestone", ms[k]>>]
                                           \o [k \in 1..Len(ms) |-> <<"reference", ms[k]>>]
  BY DEF ContractReads
<1>2. ms \in Seq(S) /\ Range(ms) = S
  BY <1>1, ListOfSet, FiniteMilestones, FS_Subset
<1> DEFINE n == Len(ms)
           a == [k \in 1..n |-> <<"milestone", ms[k]>>]
           b == [k \in 1..n |-> <<"reference", ms[k]>>]
<1>3. n \in Nat /\ DOMAIN ms = 1..n /\ \A k \in 1..n : ms[k] \in S
  BY <1>2, LenProperties, ElementOfSeq
<1>4. next = a \o b
  BY <1>1
<1> HIDE DEF n
<1>5. /\ a \in Seq(Items) /\ Len(a) = n /\ \A k \in 1..n : a[k] = <<"milestone", ms[k]>>
      /\ b \in Seq(Items) /\ Len(b) = n /\ \A k \in 1..n : b[k] = <<"reference", ms[k]>>
  BY <1>3 DEF Items
<1> HIDE DEF a, b
<1>6. /\ next \in Seq(Items) /\ Len(next) = n + n
      /\ \A k \in 1..(n + n) : next[k] = IF k <= n THEN a[k] ELSE b[k - n]
  BY <1>3, <1>4, <1>5, ConcatProperties
<1>7. DOMAIN next = 1..(n + n)
  BY <1>6, LenProperties
<1>8. /\ \A k \in 1..n : next[k] = <<"milestone", ms[k]>>
      /\ \A k \in 1..n : n + k \in 1..(n + n) /\ next[n + k] = <<"reference", ms[k]>>
      /\ \A k \in 1..(n + n) : k \notin 1..n => k - n \in 1..n /\ k = n + (k - n)
  BY <1>3, <1>5, <1>6
<1>9. Range(next) = {"milestone", "reference"} \X S
  <2>1. ASSUME NEW k \in 1..(n + n) PROVE next[k] \in {"milestone", "reference"} \X S
    <3>1. CASE k \in 1..n
      <4>1. next[k] = <<"milestone", ms[k]>> /\ ms[k] \in S
        BY <1>3, <1>8, <3>1
      <4> QED
        BY <4>1
    <3>2. CASE k \notin 1..n
      <4>1. k - n \in 1..n /\ next[n + (k - n)] = <<"reference", ms[k - n]>> /\ k = n + (k - n)
        BY <1>8, <2>1, <3>2
      <4>2. next[k] = <<"reference", ms[k - n]>> /\ ms[k - n] \in S
        BY <1>3, <4>1
      <4> QED
        BY <4>2
    <3> QED
      BY <3>1, <3>2
  <2>2. ASSUME NEW m \in S PROVE <<"milestone", m>> \in Range(next)
                                 /\ <<"reference", m>> \in Range(next)
    <3>1. PICK k \in 1..n : ms[k] = m
      BY <1>2, <1>3 DEF Range
    <3>2. k \in 1..(n + n)
      BY <1>3, <3>1
    <3> QED
      BY <1>7, <1>8, <3>1, <3>2 DEF Range
  <2> QED
    BY <1>7, <2>1, <2>2 DEF Range
<1>10. ASSUME NEW k \in DOMAIN next, next[k][1] = "reference"
       PROVE  \E j \in 1..(k - 1) : next[j] = <<"milestone", next[k][2]>>
  <2>1. k \notin 1..n
    BY <1>8, <1>10
  <2>2. k - n \in 1..n /\ next[n + (k - n)] = <<"reference", ms[k - n]>> /\ k = n + (k - n)
    BY <1>7, <1>8, <2>1
  <2>3. k - n \in 1..(k - 1) /\ next[k - n] = <<"milestone", ms[k - n]>>
    BY <1>3, <1>8, <2>1, <2>2
  <2> QED
    BY <2>2, <2>3
<1> QED
  BY <1>6, <1>9, <1>10

\* The reads that follow that of an item
ReadsOf(item, copy, page, next) ==
    /\ next \in Seq(Items)
    /\ \A x \in Range(next) :
          Present(x) /\ x[1] \in {"milestone", "reference", "invoice"}
    /\ item[1] = "contract" => Range(next) = {"milestone", "reference"} \X copy.milestones
    /\ page[1] \in {"contracts", "contract"} /\ item[1] # "contract" =>
          \A x \in Range(next) : x[1] = "invoice"
    /\ item[1] = "milestone" /\ page[1] \in {"invoices", "invoice"} =>
          <<"reference", item[2]>> \in Range(next)
    /\ item[1] = "invoice" /\ page[1] \in {"invoices", "invoice"} /\ copy.milestone # None =>
          <<"milestone", copy.milestone>> \in Range(next)
    /\ item[1] = "offer" => <<"invoice", item[2]>> \in Range(next)
    /\ \A k \in DOMAIN next : next[k][1] = "reference" =>
          \/ item = <<"milestone", next[k][2]>>
          \/ \E j \in 1..(k - 1) : next[j] = <<"milestone", next[k][2]>>

LEMMA NextReads ==
    ASSUME ApiInv, NEW item, NEW copy, CopyOK(item, copy), NEW page,
           NEW next \in Further(item, copy, page)
    PROVE  ReadsOf(item, copy, page, next)
<1>0. HeapsOK /\ ReferencesOK /\ GoodsCovered /\ Started
  BY Known, Typed
<1>1. Present(item) /\ item \in Items
  BY DEF CopyOK, Present
<1>2. CASE item[1] = "contract"
  <2>1. next \in ContractReads(copy)
    BY <1>2 DEF Further
  <2>2. item[2] \in DOMAIN contract /\ ContractCopy(copy, contract[item[2]])
    BY <1>1, <1>2 DEF CopyOK, Present
  <2>3. copy.milestones = contract[item[2]].milestones
    BY <1>0, <2>2 DEF ContractCopy, ContractGoesOn, Contract
  <2>4. copy.milestones \subseteq DOMAIN milestone /\ copy.milestones \in SUBSET Milestones
    BY <1>0, <2>2, <2>3 DEF GoodsCovered, HeapsOK, HeapOK
  <2>5. /\ next \in Seq(Items)
        /\ Range(next) = {"milestone", "reference"} \X copy.milestones
        /\ \A k \in DOMAIN next : next[k][1] = "reference" =>
              \E j \in 1..(k - 1) : next[j] = <<"milestone", next[k][2]>>
    BY <2>1, <2>4, ContractReadsDef
  <2>6. \A x \in Range(next) : Present(x) /\ x[1] \in {"milestone", "reference", "invoice"}
    BY <2>4, <2>5 DEF Present, Items
  <2> QED
    BY <1>2, <2>5, <2>6 DEF ReadsOf
<1>3. ASSUME next = <<>> PROVE next \in Seq(Items) /\ Range(next) = {} /\ DOMAIN next = {}
  BY <1>3 DEF Range
<1>4. ASSUME NEW x \in Items, next = <<x>>
      PROVE  next \in Seq(Items) /\ Range(next) = {x} /\ DOMAIN next = {1} /\ next[1] = x
  BY <1>4 DEF Range
<1>5. CASE item[1] = "milestone" /\ page[1] \notin {"contracts", "contract"}
  <2> DEFINE x == <<"reference", item[2]>>
  <2>1. next = <<x>>
    BY <1>5 DEF Further, MilestoneReads
  <2>2. Present(x) /\ x \in Items
    BY <1>1, <1>5 DEF Present, Items
  <2>3. item = <<"milestone", item[2]>>
    BY <1>1, <1>5 DEF Items
  <2> QED
    BY <1>4, <1>5, <2>1, <2>2, <2>3 DEF ReadsOf
<1>6. CASE item[1] = "invoice" /\ page[1] \in {"invoices", "invoice"}
  <2>0. item[2] \in DOMAIN invoice /\ copy.milestone = invoice[item[2]].milestone
    BY <1>1, <1>6 DEF CopyOK, Present, InvoiceCopy, InvoiceGoesOn
  <2>1. CASE copy.milestone = None
    <3>1. next = <<>>
      BY <1>6, <2>1 DEF Further, InvoiceReads
    <3> QED
      BY <1>3, <1>6, <2>1, <3>1 DEF ReadsOf
  <2>2. CASE copy.milestone # None
    <3> DEFINE x == <<"milestone", copy.milestone>>
    <3>1. next = <<x>>
      BY <1>6, <2>2 DEF Further, InvoiceReads
    <3>2. copy.milestone \in DOMAIN milestone
      BY <1>0, <2>0, <2>2 DEF ReferencesOK
    <3>3. Present(x) /\ x \in Items
      BY <1>0, <3>2 DEF Present, Items, HeapsOK, HeapOK
    <3> QED
      BY <1>4, <1>6, <3>1, <3>3 DEF ReadsOf
  <2> QED
    BY <2>1, <2>2
<1>7. CASE item[1] = "offer"
  <2> DEFINE x == <<"invoice", item[2]>>
  <2>1. next = <<x>>
    BY <1>7 DEF Further, OfferReads
  <2>2. item[2] \in DOMAIN invoice /\ item[2] \in Invoices
    BY <1>0, <1>1, <1>7 DEF Present, HeapsOK, HeapOK
  <2>3. Present(x) /\ x \in Items
    BY <2>2 DEF Present, Items
  <2> QED
    BY <1>4, <1>7, <2>1, <2>3 DEF ReadsOf
<1>8. CASE \/ item[1] = "reference"
           \/ item[1] = "milestone" /\ page[1] \in {"contracts", "contract"}
           \/ item[1] = "invoice" /\ page[1] \notin {"invoices", "invoice"}
  <2>1. next = <<>>
    BY <1>8 DEF Further
  <2> QED
    BY <1>3, <1>8, <2>1 DEF ReadsOf
<1> QED
  BY <1>1, <1>2, <1>5, <1>6, <1>7, <1>8 DEF Items

\* The copies of the offer, the invoice and the milestone that are read one after another
\* fit together.
LEMMA FreshInvoice ==
    ASSUME ApiInv, NEW i, NEW copy, CopyOK(<<"offer", i>>, copy)
    PROVE  /\ invoice[i].state # "created"
           /\ copy.state = "bought" => invoice[i].state = "paid"
<1>0. ListedAsRequested /\ PaidAgrees /\ HeapsOK
  BY Known
<1>1. /\ i \in DOMAIN offer /\ i \in DOMAIN invoice
      /\ copy.state = "bought" => offer[i].state = "bought"
  BY <1>0 DEF CopyOK, Present, OfferCopy, OfferGoesOn, HeapsOK, HeapOK
<1> QED
  BY <1>0, <1>1 DEF ListedAsRequested, PaidAgrees

LEMMA FreshMilestone ==
    ASSUME ApiInv, NEW i, NEW copy, CopyOK(<<"invoice", i>>, copy), copy.milestone # None
    PROVE  LET m == copy.milestone
           IN  /\ milestone[m].state # "created" /\ milestone[m].originalInvoice # None
               /\ copy.blockchainRef => ReferenceSet(m)
<1> DEFINE m == copy.milestone
<1>0. MilestoneInvoicesAgree /\ MilestoneBilledOnce /\ HeapsOK /\ ReferencesOK
  BY Known
<1>1. /\ i \in DOMAIN invoice /\ invoice[i].milestone = m
      /\ copy.blockchainRef => invoice[i].blockchainRef
  BY DEF CopyOK, Present, InvoiceCopy, InvoiceGoesOn
<1>2. m \in DOMAIN milestone /\ milestone[m].state # "created"
      /\ milestone[m].originalInvoice # None
  BY <1>0, <1>1 DEF MilestoneInvoicesAgree, ReferencesOK
<1>3. milestone[m].originalInvoice = i
  BY <1>0, <1>1, <1>2 DEF MilestoneInvoicesAgree, MilestoneBilledOnce
<1> QED
  BY <1>1, <1>2, <1>3 DEF ReferenceSet

\* Reading on keeps what is known of the reads.
LEMMA ReadsOn ==
    ASSUME ApiInv, NEW q, ReadOK(q), ActionOK(q), q.step = "read", q.todo # <<>>,
           NEW item, item = Head(q.todo), NEW copy, copy = Copy(item, q.got),
           NEW next \in Further(item, copy, q.page),
           NEW new, new.page = q.page, new.action = q.action, new.about = q.about,
           new.todo = next \o Tail(q.todo), new.got = Create(q.got, item, copy)
    PROVE  ReadOK(new)
<1> DEFINE todo == q.todo
           got == q.got
           page == q.page
           rest == Tail(todo)
<1>1. /\ todo \in Seq(Items) /\ InOrder(q)
      /\ \A x \in Range(todo) : Present(x) /\ OnPage(q, x)
  BY DEF ReadOK
<1>2. ASSUME NEW x \in DOMAIN got
      PROVE  /\ CopyOK(x, got[x]) /\ OnPage(q, x) /\ CopyFits(q, x, got[x])
             /\ FitsTogether(q, x, got[x])
  BY <1>2 DEF ReadOK
<1>3. /\ item \in Range(todo) /\ CopyOK(item, copy) /\ OnPage(q, item)
      /\ CopyFits(q, item, copy)
      /\ item[1] = "contract" => copy = contract[item[2]]
      /\ item[1] = "milestone" => copy = milestone[item[2]]
      /\ item[1] = "invoice" => copy = invoice[item[2]]
      /\ item[1] = "reference" =>
            copy = BlockchainRef(got[<<"milestone", item[2]>>])
  BY FreshCopy, FreshFits
<1>a. ReadsOf(item, copy, page, next)
  BY <1>3, NextReads
<1>4. /\ next \in Seq(Items)
      /\ \A x \in Range(next) :
            Present(x) /\ x[1] \in {"milestone", "reference", "invoice"}
      /\ item[1] = "contract" => Range(next) = {"milestone", "reference"} \X copy.milestones
      /\ page[1] \in {"contracts", "contract"} /\ item[1] # "contract" =>
            \A x \in Range(next) : x[1] = "invoice"
      /\ item[1] = "milestone" /\ page[1] \in {"invoices", "invoice"} =>
            <<"reference", item[2]>> \in Range(next)
      /\ item[1] = "invoice" /\ page[1] \in {"invoices", "invoice"} /\ copy.milestone # None =>
            <<"milestone", copy.milestone>> \in Range(next)
      /\ item[1] = "offer" => <<"invoice", item[2]>> \in Range(next)
  BY <1>a DEF ReadsOf
<1>5. /\ rest \in Seq(Items) /\ Range(rest) \subseteq Range(todo)
      /\ Range(todo) \subseteq {item} \cup Range(rest)
  BY <1>1, RangeOfTail
<1>6. new.todo \in Seq(Items) /\ Range(new.todo) = Range(next) \cup Range(rest)
  <2>1. next \o rest \in Seq(Items)
    BY <1>4, <1>5, ConcatProperties
  <2>2. next \in Seq(Items) /\ rest \in Seq(Items)
    BY <1>4, <1>5
  <2> HIDE DEF rest
  <2>3. Range(next \o rest) = Range(next) \cup Range(rest)
    BY <2>2, RangeOfConcat
  <2> QED
    BY <2>1, <2>3 DEF rest
<1>7. /\ DOMAIN new.got = DOMAIN got \cup {item}
      /\ new.got[item] = copy
      /\ \A x \in DOMAIN got : x # item => new.got[x] = got[x]
  BY DEF Create
<1>8. ASSUME NEW x, Comes(q, x) PROVE Comes(new, x)
  BY <1>5, <1>6, <1>7, <1>8 DEF Comes
<1>9. \A x : OnPage(q, x) => OnPage(new, x)
  BY DEF OnPage
<1>10. ASSUME NEW x \in Range(new.todo) PROVE Present(x) /\ OnPage(new, x)
  <2>1. CASE x \in Range(rest)
    BY <1>1, <1>5, <1>9, <2>1
  <2>2. CASE x \in Range(next)
    <3>1. Present(x) /\ x[1] \in {"milestone", "reference", "invoice"}
      BY <1>4, <2>2
    <3>2. ASSUME page[1] = "contract", x[1] \in {"milestone", "reference"}
          PROVE  x[2] \in contract[page[2]].milestones
      <4>1. item[1] = "contract"
        BY <1>4, <2>2, <3>2
      <4>2. item = page /\ copy = contract[page[2]]
        BY <1>3, <3>2, <4>1 DEF OnPage
      <4> QED
        BY <1>4, <2>2, <4>1, <4>2
    <3> QED
      BY <3>1, <3>2 DEF OnPage
  <2> QED
    BY <1>6, <2>1, <2>2
<1>11. ASSUME NEW x \in DOMAIN new.got
       PROVE  /\ CopyOK(x, new.got[x]) /\ OnPage(new, x) /\ CopyFits(new, x, new.got[x])
  <2>1. CASE x = item
    BY <1>3, <1>7, <1>9, <2>1 DEF CopyFits
  <2>2. CASE x # item
    BY <1>2, <1>7, <1>9, <2>2 DEF CopyFits
  <2> QED
    BY <2>1, <2>2
<1>12. ASSUME NEW x \in DOMAIN new.got, x[1] = "contract" PROVE ContractFits(new, new.got[x])
  <2>1. CASE x = item
    <3>1. \A m \in copy.milestones : /\ <<"milestone", m>> \in Range(next)
                                     /\ <<"reference", m>> \in Range(next)
      BY <1>4, <1>12, <2>1
    <3> QED
      BY <1>6, <1>7, <2>1, <3>1 DEF ContractFits, Comes
  <2>2. CASE x # item
    <3>1. x \in DOMAIN got /\ new.got[x] = got[x] /\ ContractFits(q, got[x])
      BY <1>2, <1>7, <1>12, <2>2 DEF FitsTogether
    <3> QED
      BY <1>8, <3>1 DEF ContractFits
  <2> QED
    BY <2>1, <2>2
<1>13. ASSUME NEW x \in DOMAIN new.got, x[1] = "offer"
       PROVE  OfferFits(new, x[2], new.got[x])
  <2> DEFINE inv == <<"invoice", x[2]>>
  <2>0. x = <<"offer", x[2]>> /\ CopyOK(x, new.got[x])
    BY <1>11, <1>13 DEF CopyOK, Present, Items
  <2>1. CASE x = item
    BY <1>4, <1>6, <1>13, <2>1 DEF OfferFits
  <2>2. CASE inv = item
    <3>1. item[1] = "invoice" /\ item[2] = x[2]
      BY <2>2
    <3>2. copy = invoice[x[2]]
      BY <1>3, <3>1
    <3>3. new.got[inv] = copy /\ inv \in DOMAIN new.got
      BY <1>7, <2>2
    <3> QED
      BY <2>0, <3>2, <3>3, FreshInvoice DEF OfferFits
  <2>3. CASE x # item /\ inv # item
    <3>1. x \in DOMAIN got /\ new.got[x] = got[x] /\ OfferFits(q, x[2], got[x])
      BY <1>2, <1>7, <1>13, <2>3 DEF FitsTogether
    <3>2. CASE inv \in Range(todo)
      BY <1>5, <1>6, <2>3, <3>2 DEF OfferFits
    <3>3. CASE inv \notin Range(todo)
      BY <1>7, <2>3, <3>1, <3>3 DEF OfferFits
    <3> QED
      BY <3>2, <3>3
  <2> QED
    BY <2>1, <2>2, <2>3
<1>14. ASSUME NEW x \in DOMAIN new.got, x[1] = "invoice", page[1] \in {"invoices", "invoice"},
              new.got[x].milestone # None
       PROVE  InvoiceFits(new, new.got[x])
  <2> DEFINE m == new.got[x].milestone
             ms == <<"milestone", m>>
             ref == <<"reference", m>>
  <2>0. x = <<"invoice", x[2]>> /\ CopyOK(x, new.got[x])
    BY <1>11, <1>14 DEF CopyOK, Present, Items
  <2>1. CASE x = item
    BY <1>4, <1>6, <1>7, <1>14, <2>1 DEF InvoiceFits
  <2>2. CASE x # item
    <3>1. x \in DOMAIN got /\ new.got[x] = got[x] /\ InvoiceFits(q, got[x])
      BY <1>2, <1>7, <1>14, <2>2 DEF FitsTogether
    <3>2. CASE ms = item
      <4>1. ms \in DOMAIN new.got /\ new.got[ms] = copy /\ copy = milestone[m]
        BY <1>3, <1>7, <3>2
      <4>2. milestone[m].state # "created" /\ milestone[m].originalInvoice # None
        BY <1>14, <2>0, FreshMilestone
      <4>3. ref \in Range(new.todo)
        <5>1. item[1] = "milestone" /\ item[2] = m
          BY <3>2
        <5>2. <<"reference", item[2]>> \in Range(next)
          BY <1>4, <1>14, <5>1
        <5> QED
          BY <1>6, <5>1, <5>2
      <4> QED
        BY <4>1, <4>2, <4>3 DEF InvoiceFits
    <3>3. CASE ms \in Range(todo) /\ ms # item
      BY <1>5, <1>6, <3>3 DEF InvoiceFits
    <3>4. CASE ms \notin Range(todo)
      <4>1. /\ ms \in DOMAIN got /\ ms # item /\ new.got[ms] = got[ms] /\ ms \in DOMAIN new.got
            /\ got[ms].state # "created" /\ got[ms].originalInvoice # None
        BY <1>3, <1>7, <3>1, <3>4 DEF InvoiceFits
      <4>2. \/ ref \in Range(todo)
            \/ ref \in DOMAIN got /\ (new.got[x].blockchainRef => got[ref])
        BY <3>1, <3>4 DEF InvoiceFits
      <4>3. CASE ref = item
        <5>0. item[1] = "reference" /\ <<"milestone", item[2]>> = ms
          BY <4>3
        <5>1. copy = BlockchainRef(got[ms]) /\ CopyOK(ms, got[ms])
          BY <1>2, <1>3, <4>1, <5>0
        <5>2. new.got[x].blockchainRef => ReferenceSet(m)
          BY <1>14, <2>0, FreshMilestone
        <5>3. new.got[x].blockchainRef => copy
          BY <4>1, <5>1, <5>2, CopiedReference
        <5> QED
          BY <1>7, <4>1, <4>3, <5>3 DEF InvoiceFits
      <4>4. CASE ref # item
        BY <1>5, <1>6, <1>7, <4>1, <4>2, <4>4 DEF InvoiceFits
      <4> QED
        BY <4>3, <4>4
    <3> QED
      BY <3>2, <3>3, <3>4
  <2> QED
    BY <2>1, <2>2
<1>15. \A x \in DOMAIN new.got : FitsTogether(new, x, new.got[x])
  BY <1>12, <1>13, <1>14 DEF FitsTogether
<1>16. InOrder(new)
  <2> DEFINE n == Len(next)
             l == Len(todo)
  <2>1. /\ n \in Nat /\ DOMAIN next = 1..n /\ l \in Nat \ {0} /\ DOMAIN todo = 1..l
        /\ Len(rest) = l - 1
        /\ \A k \in 1..(l - 1) : rest[k] = todo[k + 1]
        /\ todo[1] = item
    BY <1>1, <1>4, LenProperties, EmptySeq, HeadTailProperties
  <2>2. /\ Len(new.todo) = n + (l - 1)
        /\ \A k \in 1..(n + (l - 1)) :
              new.todo[k] = IF k <= n THEN next[k] ELSE rest[k - n]
        /\ DOMAIN new.todo = 1..(n + (l - 1))
    BY <1>4, <1>5, <1>6, <2>1, ConcatProperties, LenProperties
  <2> HIDE DEF n, l, rest
  <2>3. ASSUME NEW k \in 1..n PROVE k \in 1..(n + (l - 1)) /\ new.todo[k] = next[k]
    BY <2>1, <2>2
  <2>5. ASSUME NEW k \in 1..(l - 1)
        PROVE  /\ n + k \in 1..(n + (l - 1)) /\ k + 1 \in 1..l
               /\ new.todo[n + k] = todo[k + 1]
    <3>1. /\ n + k \in 1..(n + (l - 1)) /\ k + 1 \in 1..l
          /\ ~(n + k <= n) /\ (n + k) - n = k
      BY <2>1
    <3>2. new.todo[n + k] = rest[(n + k) - n]
      BY <2>2, <3>1
    <3> QED
      BY <2>1, <3>1, <3>2
  <2>6. ASSUME NEW k \in 1..(n + (l - 1)), k \notin 1..n
        PROVE  k - n \in 1..(l - 1) /\ k = n + (k - n)
    BY <2>1, <2>6
  <2>4. ASSUME NEW k \in DOMAIN new.todo, new.todo[k][1] = "reference"
        PROVE  LET ms == <<"milestone", new.todo[k][2]>>
               IN  ms \in DOMAIN new.got \/ \E j \in 1..(k - 1) : new.todo[j] = ms
    <3> DEFINE ms == <<"milestone", new.todo[k][2]>>
    <3>1. CASE k \in 1..n
      <4>1. new.todo[k] = next[k] /\ k \in DOMAIN next
        BY <2>1, <2>3, <3>1
      <4>4. next[k][1] = "reference" /\ ms = <<"milestone", next[k][2]>>
        BY <2>4, <4>1
      <4>5. \A x \in DOMAIN next : next[x][1] = "reference" =>
               \/ item = <<"milestone", next[x][2]>>
               \/ \E j \in 1..(x - 1) : next[j] = <<"milestone", next[x][2]>>
        BY <1>a DEF ReadsOf
      <4> HIDE DEF ms
      <4>2. item = ms \/ \E j \in 1..(k - 1) : next[j] = ms
        BY <4>1, <4>4, <4>5
      <4>3. \A j \in 1..(k - 1) : j \in 1..n /\ new.todo[j] = next[j]
        BY <2>1, <2>3, <3>1
      <4>6. item = ms => ms \in DOMAIN new.got
        BY <1>7
      <4> QED
        BY <4>2, <4>3, <4>6 DEF ms
    <3>2. CASE k \notin 1..n
      <4> DEFINE h == (k - n) + 1
      <4>1. k - n \in 1..(l - 1) /\ k = n + (k - n) /\ h \in 1..l /\ new.todo[k] = todo[h]
        BY <2>2, <2>5, <2>6, <3>2
      <4>4. todo[h][1] = "reference" /\ ms = <<"milestone", todo[h][2]>> /\ h \in DOMAIN todo
        BY <2>1, <2>4, <4>1
      <4>2. ms \in DOMAIN got \/ \E j \in 1..(h - 1) : todo[j] = ms
        BY <1>1, <4>4 DEF InOrder
      <4>3. ASSUME NEW j \in 1..(h - 1), todo[j] = ms, j # 1
            PROVE  \E g \in 1..(k - 1) : new.todo[g] = ms
        <5>1. /\ j - 1 \in 1..(l - 1) /\ n + (j - 1) \in 1..(k - 1)
              /\ (j - 1) + 1 = j
          BY <2>1, <4>1, <4>3
        <5>2. new.todo[n + (j - 1)] = todo[(j - 1) + 1]
          BY <2>5, <5>1
        <5> QED
          BY <4>3, <5>1, <5>2
      <4> QED
        BY <1>7, <2>1, <4>2, <4>3
    <3> QED
      BY <3>1, <3>2
  <2> QED
    BY <2>4 DEF InOrder
<1>17. /\ page \in Protocols => Comes(new, page)
       /\ q.action = "buy" => Comes(new, <<"offer", q.about>>)
  BY <1>8 DEF ReadOK
<1> QED
  BY <1>6, <1>10, <1>11, <1>15, <1>16, <1>17 DEF ReadOK

-----------------------------------------------------------------------------
(* A tab makes the backend's requests only                                   *)

LEMMA PageIds ==
    ASSUME ApiInv
    PROVE  /\ DOMAIN contract \subseteq Contracts /\ DOMAIN milestone \subseteq Milestones
           /\ DOMAIN invoice \subseteq Invoices /\ DOMAIN offer \subseteq DOMAIN invoice
           /\ User \in Participants
  BY Known, PageParameters DEF HeapsOK, HeapOK

\* The backend rests while a store action goes on.
LEMMA RunsRestBackend == ASSUME NEW t, Runs(t) PROVE UNCHANGED apiVars
<1>1. CASE Answered(t) \/ MoveOn(t) \/ Rejected(t)
  BY <1>1 DEF Answered, MoveOn, Rejected
<1>2. CASE ListIds(t) \/ ReadNext(t) \/ StoreAnswer(t) \/ LoadFails(t)
  BY <1>2 DEF ListIds, ReadNext, StoreAnswer, LoadFails
<1>3. CASE ServeVerify(t) \/ VerifyFails(t) \/ ShowStatus(t)
  BY <1>3 DEF ServeVerify, VerifyFails, ShowStatus
<1> QED
  BY <1>1, <1>2, <1>3 DEF Runs

\* What a button does to the smart contracts is a request of the API.
LEMMA StepIsRequest ==
    ASSUME PagesInv, [PageNext]_allVars
    PROVE  [ApiNext]_apiVars
<1>0. /\ ApiInv /\ DOMAIN contract \subseteq Contracts /\ DOMAIN milestone \subseteq Milestones
      /\ DOMAIN offer \subseteq Invoices /\ User \in Participants
      /\ DOMAIN store = Slots /\ \A slot \in Slots : GotOK(store[slot])
  BY PageIds DEF PagesInv, PagesOK
<1>1. CASE UNCHANGED allVars
  BY <1>1 DEF allVars
<1>2. CASE ApiNext
  BY <1>2
<1>3. ASSUME NEW form, OpenForm(form) PROVE UNCHANGED apiVars
  BY <1>3 DEF OpenForm
<1>4. ASSUME \/ \E button \in Dialogs : OpenDialog(button)
             \/ SaveInvoiceStep \/ SaveContractStep \/ VerifyFileAgain
      PROVE  UNCHANGED apiVars
  BY <1>4 DEF OpenDialog, SaveInvoiceStep, SaveContractStep, VerifyFileAgain
<1>5. ASSUME NEW t, Runs(t) PROVE UNCHANGED apiVars
  BY <1>5, RunsRestBackend
<1>6. ASSUME NEW t \in Tasks, Click(t) PROVE [ApiNext]_apiVars
  <2>1. ASSUME NEW page, Reload(t, page) \/ Visit(t, page) PROVE UNCHANGED apiVars
    BY <2>1 DEF Reload, Visit
  <2>2. CASE Sign(t)
    <3>1. FinaliseCreation(route[2]) /\ UNCHANGED <<request, ipfs>>
      BY <2>2 DEF Sign
    <3>2. route[2] \in Contracts
      BY <1>0, <3>1 DEF FinaliseCreation
    <3> QED
      BY <3>1, <3>2 DEF ApiNext, OtherRequest, SignRequest
  <2>3. ASSUME NEW c, NEW m \in Milestones, NEW r \in Requests, Complete(t, c, m, r)
        PROVE  ApiNext
    BY <2>3 DEF Complete, ApiNext, Post
  <2>4. CASE Buy(t)
    <3>1. BuyOffer(User, route[2]) /\ UNCHANGED <<request, ipfs>>
      BY <2>4 DEF Buy
    <3>2. route[2] \in Invoices
      BY <1>0, <3>1 DEF BuyOffer, IsOpen
    <3> QED
      BY <1>0, <3>1, <3>2 DEF ApiNext, OtherRequest, PurchaseRequest
  <2>5. ASSUME NEW ask \in Asks, EditOfferPrice(t, ask) PROVE ApiNext
    <3>1. UpdateOfferPrice(User, route[2], ask.amount) /\ UNCHANGED <<request, ipfs>>
      BY <2>5 DEF EditOfferPrice
    <3>2. route[2] \in Invoices
      BY <1>0, <3>1 DEF UpdateOfferPrice, IsOpen
    <3> QED
      BY <1>0, <3>1, <3>2 DEF ApiNext, OtherRequest, OfferPriceRequest
  <2>6. ASSUME NEW ask \in Asks, EditMilestonePrice(t, ask) PROVE ApiNext
    <3>1. PICK ms \in CurrentMilestone :
             UpdateOfferAmount(route[2], [ask EXCEPT !.ccy = ms.details.amount.ccy])
      BY <2>6 DEF EditMilestonePrice
    <3> DEFINE got == store["milestoneCurrent"]
    <3>2. PICK item \in DOMAIN got : item[1] = "milestone" /\ ms = got[item]
      BY DEF CurrentMilestone, Held
    <3>3. "milestoneCurrent" \in Slots
      <4>1. "milestone" \in DOMAIN SlotOf /\ SlotOf["milestone"] = "milestoneCurrent"
        BY DEF SlotOf
      <4> QED
        BY <4>1 DEF Slots
    <3>4. ms \in Milestone
      BY <1>0, <3>2, <3>3 DEF GotOK, CopyOK, MilestoneCopy
    <3>5. ms.details.amount.ccy \in Currencies
      BY <3>4 DEF Milestone, MilestoneDetails, Amount
    <3>6. [ask EXCEPT !.ccy = ms.details.amount.ccy] \in Asks
      BY <3>5, PageParameters
    <3>7. route[2] \in Milestones
      BY <1>0, <3>1 DEF UpdateOfferAmount
    <3>8. UNCHANGED <<request, ipfs>>
      BY <2>6 DEF EditMilestonePrice
    <3> QED
      BY <3>1, <3>6, <3>7, <3>8 DEF ApiNext, OtherRequest, MilestonePriceRequest
  <2>7. ASSUME NEW r \in Requests, NEW req \in PostedRequest, AddInvoice(t, r, req)
        PROVE  ApiNext
    BY <1>0, <2>7 DEF AddInvoice, ApiNext, Post
  <2>8. ASSUME NEW c \in Contracts, NEW goodsValue \in Amounts, NEW ms \in SUBSET Milestones,
               NEW inputs \in [ms -> MilestoneInputs], AddContract(t, c, inputs, goodsValue)
        PROVE  ApiNext
    <3>1. CreateContract(User, c, inputs, goodsValue) /\ UNCHANGED <<request, ipfs>>
      BY <2>8 DEF AddContract
    <3>2. ContractRequest
      BY <1>0, <3>1 DEF ContractRequest
    <3> QED
      BY <3>1, <3>2 DEF ApiNext, OtherRequest
  <2>9. ASSUME NEW file, VerifyFile(t, file) PROVE UNCHANGED apiVars
    BY <2>9 DEF VerifyFile
  <2> QED
    BY <1>6, <2>1, <2>2, <2>3, <2>4, <2>5, <2>6, <2>7, <2>8, <2>9 DEF Click
<1> QED
  BY <1>1, <1>2, <1>3, <1>4, <1>5, <1>6 DEF PageNext

-----------------------------------------------------------------------------
(* What a step of the tab leaves of what it knows                            *)

\* A step that changes one store action
LEMMA TasksGoOn ==
    ASSUME PagesInv, [ApiNext]_apiVars,
           NEW t, NEW new, task' = [task EXCEPT ![t] = new], TaskOK(new)'
    PROVE  DOMAIN task' = Tasks /\ \A s \in Tasks : TaskOK(task[s])'
<1>0. /\ ApiInv /\ DOMAIN task = Tasks /\ \A s \in Tasks : TaskOK(task[s])
  BY DEF PagesInv, PagesOK
<1>1. \A q : TaskOK(q) => TaskOK(q)'
  BY <1>0, KeepTask
<1>2. ASSUME NEW s \in Tasks PROVE TaskOK(task[s])'
  <2>1. CASE s = t
    <3>1. task'[s] = new
      BY <1>0, <2>1
    <3> QED
      BY <3>1
  <2>2. CASE s # t
    <3>1. task'[s] = task[s]
      BY <1>0, <2>2
    <3> QED
      BY <1>0, <1>1, <3>1
  <2> QED
    BY <2>1, <2>2
<1> QED
  BY <1>0, <1>2

\* ... none
LEMMA TasksStay ==
    ASSUME PagesInv, [ApiNext]_apiVars, UNCHANGED task
    PROVE  DOMAIN task' = Tasks /\ \A s \in Tasks : TaskOK(task[s])'
<1>0. /\ ApiInv /\ DOMAIN task = Tasks /\ \A s \in Tasks : TaskOK(task[s])
  BY DEF PagesInv, PagesOK
<1>1. \A q : TaskOK(q) => TaskOK(q)'
  BY <1>0, KeepTask
<1> QED
  BY <1>0, <1>1

\* ... no slot
LEMMA SlotsStay ==
    ASSUME PagesInv, [ApiNext]_apiVars, UNCHANGED store
    PROVE  /\ DOMAIN store' = Slots
           /\ \A slot \in Slots : GotOK(store[slot])'
           /\ ContractWhole(store.contractCurrent)'
           /\ MilestonesListed(store.contracts)'
<1>0. /\ ApiInv /\ DOMAIN store = Slots /\ \A slot \in Slots : GotOK(store[slot])
      /\ ContractWhole(store.contractCurrent) /\ MilestonesListed(store.contracts)
  BY DEF PagesInv, PagesOK
<1>1. \A got : GotOK(got) => GotOK(got)'
  BY <1>0, KeepGot
<1> QED
  BY <1>0, <1>1 DEF ContractWhole, MilestonesListed

\* An idle store action knows nothing.
LEMMA IdleOK == TaskOK(Idle)
  BY DEF TaskOK, Idle

LEMMA Ending ==
    ASSUME PagesInv, UNCHANGED apiVars, NEW t, Ends(t)
    PROVE  DOMAIN task' = Tasks /\ \A s \in Tasks : TaskOK(task[s])'
<1>1. TaskOK(Idle)'
  BY IdleOK, PTL
<1>2. task' = [task EXCEPT ![t] = Idle]
  BY DEF Ends
<1> QED
  BY <1>1, <1>2, TasksGoOn

\* The protocols of a page that is open
LEMMA OpenPage ==
    ASSUME NEW page \in Pages, Exists(page), page[1] \notin Unloaded,
           User \in DOMAIN participant, ApiInv
    PROVE  PageOK(page)
<1>1. page \in Protocols \cup (Lists \X {None})
  BY DEF Pages
<1>2. page \in Protocols => Present(page)
  <2> SUFFICES ASSUME page \in Protocols PROVE Present(page)
    OBVIOUS
  <2>1. page[1] \in {"contract", "milestone", "invoice", "offer"} /\ page \in Items
    BY DEF Protocols, Items
  <2> QED
    BY <2>1 DEF Exists, Present, Lists, Unloaded, Forms
<1> QED
  BY <1>1, <1>2 DEF PageOK

\* A store action that starts to load a page
LEMMA Visiting ==
    ASSUME NEW page, PageOK(page), User \in DOMAIN participant
    PROVE  TaskOK(OnMounted(page))
<1>1. PICK new : new = OnMounted(page)
  OBVIOUS
<1>2. /\ new.step = "list" /\ new.action = "visit" /\ new.page = page /\ new.todo = <<>>
      /\ new.got = <<>>
      /\ new = [step |-> new.step, action |-> new.action, about |-> new.about,
                request |-> new.request, page |-> new.page, todo |-> new.todo,
                got |-> new.got]
  BY <1>1 DEF OnMounted, Idle
<1>3. TaskOK(new)
  BY <1>2 DEF TaskOK, ActionOK
<1> QED
  BY <1>1, <1>3

LEMMA Starting ==
    ASSUME PagesInv, UNCHANGED apiVars, NEW t, NEW page, Starts(t, page),
           PageOK(page), User \in DOMAIN participant
    PROVE  DOMAIN task' = Tasks /\ \A s \in Tasks : TaskOK(task[s])'
<1>0. PICK new : new = OnMounted(page)
  OBVIOUS
<1>1. task' = [task EXCEPT ![t] = new]
  BY <1>0 DEF Starts
<1>2. TaskOK(new)
  BY <1>0, Visiting
<1>3. TaskOK(new)'
  BY <1>2, KeepTask DEF PagesInv
<1> QED
  BY <1>1, <1>3, TasksGoOn

\* A request that has been sent has done what can be seen at once.
Sent(action, about, r, page) ==
    /\ User \in DOMAIN participant
    /\ action \notin {"addInvoice", "verify"} => PageOK(page)
    /\ action = "sign" => page = <<"contract", about>> /\ Signs(about)
    /\ action = "complete" =>
          /\ page[1] = "contract" /\ Signs(page[2])
          /\ about \in contract[page[2]].milestones
          /\ Closing(r, about)
    /\ action = "buy" => /\ page = <<"portfolio", None>>
                         /\ about \in DOMAIN offer /\ Purchased(offer[about])
    /\ action = "addInvoice" => r \in Requests
    /\ action = "verify" => about \in Files

LEMMA SentOK ==
    ASSUME NEW action, NEW about, NEW r, NEW page, Sent(action, about, r, page)
    PROVE  TaskOK([Idle EXCEPT !.step = "acting", !.action = action,
                               !.about = about, !.request = r, !.page = page])
<1> DEFINE new == [Idle EXCEPT !.step = "acting", !.action = action,
                               !.about = about, !.request = r, !.page = page]
<1>0. new = [Idle EXCEPT !.step = "acting", !.action = action,
                         !.about = about, !.request = r, !.page = page]
  OBVIOUS
<1> HIDE DEF new
<1>1. /\ new.step = "acting" /\ new.action = action /\ new.about = about
      /\ new.request = r /\ new.page = page /\ new.todo = <<>> /\ new.got = <<>>
      /\ new = [step |-> new.step, action |-> new.action, about |-> new.about,
                request |-> new.request, page |-> new.page, todo |-> new.todo,
                got |-> new.got]
  BY <1>0 DEF Idle
<1>2. ActionOK(new)
  BY <1>1 DEF ActionOK, Sent
<1>3. TaskOK(new)
  BY <1>1, <1>2 DEF TaskOK, Sent
<1> QED
  BY <1>3 DEF new

LEMMA Sending ==
    ASSUME PagesInv, [ApiNext]_apiVars, NEW t, NEW action, NEW about, NEW r, NEW page,
           Sends(t, action, about, r, page), Sent(action, about, r, page)'
    PROVE  DOMAIN task' = Tasks /\ \A s \in Tasks : TaskOK(task[s])'
<1> DEFINE new == [Idle EXCEPT !.step = "acting", !.action = action,
                               !.about = about, !.request = r, !.page = page]
<1>1. task' = [task EXCEPT ![t] = new]
  BY DEF Sends
<1>2. TaskOK(new)'
  BY SentOK, PTL
<1> HIDE DEF new
<1> QED
  BY <1>1, <1>2, TasksGoOn

\* A store action that goes on while the backend rests
LEMMA TaskMoves ==
    ASSUME PagesInv, UNCHANGED apiVars, NEW t, NEW new,
           task' = [task EXCEPT ![t] = new], TaskOK(new)
    PROVE  DOMAIN task' = Tasks /\ \A s \in Tasks : TaskOK(task[s])'
<1>1. TaskOK(new)'
  BY KeepTask DEF PagesInv
<1> QED
  BY <1>1, TasksGoOn

\* A store action whose request was answered
LEMMA Loading ==
    ASSUME PagesInv, UNCHANGED apiVars, NEW t \in Tasks, NEW page, Load(t, page),
           PageOK(page), ActionOK([task[t] EXCEPT !.step = "list", !.page = page]),
           Is(t, "acting")
    PROVE  DOMAIN task' = Tasks /\ \A s \in Tasks : TaskOK(task[s])'
<1>0. PICK q : q = task[t]
  OBVIOUS
<1>1. /\ q = [step |-> q.step, action |-> q.action, about |-> q.about, request |-> q.request,
              page |-> q.page, todo |-> q.todo, got |-> q.got]
      /\ q.step = "acting" /\ q.todo = <<>> /\ q.got = <<>> /\ User \in DOMAIN participant
  BY <1>0 DEF PagesInv, PagesOK, TaskOK, Is
<1>2. PICK new : new = [q EXCEPT !.step = "list", !.page = page]
  OBVIOUS
<1>3. /\ new.step = "list" /\ new.page = page /\ new.todo = <<>> /\ new.got = <<>>
      /\ new = [step |-> new.step, action |-> new.action, about |-> new.about,
                request |-> new.request, page |-> new.page, todo |-> new.todo,
                got |-> new.got]
  BY <1>1, <1>2
<1>4. ActionOK(new)
  BY <1>0, <1>2
<1>5. TaskOK(new)
  BY <1>1, <1>3, <1>4 DEF TaskOK
<1>6. task' = [task EXCEPT ![t] = new]
  BY <1>0, <1>2 DEF Load
<1> QED
  BY <1>5, <1>6, TaskMoves

\* A contract's answer, when all of it is read
LEMMA WholeAnswer ==
    ASSUME ApiInv, NEW q, ReadOK(q), q.todo = <<>>, PageOK(q.page), q.page[1] = "contract"
    PROVE  ContractWhole(q.got)
<1> SUFFICES ASSUME NEW c \in Contracts, <<"contract", c>> \in DOMAIN q.got
             PROVE  {item \in DOMAIN q.got : item[1] = "milestone"}
                        = {"milestone"} \X q.got[<<"contract", c>>].milestones
  BY DEF ContractWhole
<1> DEFINE it == <<"contract", c>>
           copy == q.got[it]
<1>0. Started
  BY Known, Typed
<1>1. /\ CopyOK(it, copy) /\ OnPage(q, it) /\ FitsTogether(q, it, copy)
      /\ \A item \in DOMAIN q.got : OnPage(q, item) /\ Present(item)
  BY DEF ReadOK, CopyOK
<1>2. it = q.page
  BY <1>1 DEF OnPage
<1>3. c \in DOMAIN contract /\ ContractCopy(copy, contract[c])
  BY <1>1 DEF CopyOK, Present
<1>4. copy.milestones = contract[c].milestones
  BY <1>0, <1>3 DEF ContractCopy, ContractGoesOn, Contract, Started
<1>5. ASSUME NEW item \in DOMAIN q.got, item[1] = "milestone"
      PROVE  item \in {"milestone"} \X copy.milestones
  <2>1. item = <<"milestone", item[2]>>
    BY <1>1, <1>5 DEF Present, Items
  <2>2. q.page[2] = c
    BY <1>2
  <2>3. item[2] \in contract[c].milestones
    BY <1>1, <1>5, <2>2 DEF OnPage
  <2> QED
    BY <1>4, <2>1, <2>3
<1>6. ASSUME NEW m \in copy.milestones PROVE <<"milestone", m>> \in DOMAIN q.got
  <2>1. Range(q.todo) = {}
    BY DEF Range
  <2>2. ContractFits(q, copy)
    BY <1>1 DEF FitsTogether
  <2> QED
    BY <2>1, <2>2 DEF ContractFits, Comes
<1> HIDE DEF copy
<1>7. \A item \in {"milestone"} \X copy.milestones :
         item[1] = "milestone" /\ item \in DOMAIN q.got
  BY <1>6
<1>8. {item \in DOMAIN q.got : item[1] = "milestone"} = {"milestone"} \X copy.milestones
  BY <1>5, <1>7
<1> QED
  BY <1>8 DEF copy

\* The answer for a list of contracts, when all of it is read
LEMMA ListedAnswer ==
    ASSUME NEW q, ReadOK(q), q.todo = <<>>
    PROVE  MilestonesListed(q.got)
<1> SUFFICES ASSUME NEW c \in Contracts, <<"contract", c>> \in DOMAIN q.got,
                    NEW m \in q.got[<<"contract", c>>].milestones
             PROVE  <<"milestone", m>> \in DOMAIN q.got
  BY DEF MilestonesListed
<1>1. PICK it : it = <<"contract", c>>
  OBVIOUS
<1>2. it \in DOMAIN q.got /\ it[1] = "contract" /\ m \in q.got[it].milestones
  BY <1>1
<1>3. ContractFits(q, q.got[it])
  BY <1>2 DEF ReadOK, FitsTogether
<1>4. Range(q.todo) = {}
  BY DEF Range
<1> QED
  BY <1>2, <1>3, <1>4 DEF ContractFits, Comes

\* A milestone whose request was answered "ok" has an invoice with its reference.
LEMMA ClosedByRequest ==
    ASSUME ApiInv, NEW r, NEW m \in DOMAIN milestone, Closing(r, m), At(r, "ok")
    PROVE  Closed(m)
<1> DEFINE i == request[r].invoice
<1>0. /\ MilestoneInvoicesAgree /\ MilestoneBilledOnce /\ FinalisedIsPublished /\ HeapsOK
      /\ LocalsOK(request[r], invoice, milestone, ipfs)
  BY Known DEF ApiInv, HandlerInv, Closing
<1>1. m # None
  BY <1>0, NoneIsDistinct DEF HeapsOK, HeapOK
<1>2. i # None /\ i \in DOMAIN invoice /\ invoice[i].state # "created"
  BY <1>0 DEF LocalsOK, At
<1>3. invoice[i].milestone = m
  BY <1>2 DEF Closing
<1>4. /\ milestone[m].state # "created" /\ milestone[m].originalInvoice # None
      /\ milestone[m].originalInvoice \in DOMAIN invoice
      /\ invoice[milestone[m].originalInvoice].milestone = m
  BY <1>0, <1>1, <1>2, <1>3 DEF MilestoneInvoicesAgree
<1>5. milestone[m].originalInvoice = i
  BY <1>0, <1>1, <1>2, <1>3, <1>4 DEF MilestoneBilledOnce
<1>6. IncludeIpfs => invoice[i].blockchainRef
  BY <1>0, <1>2 DEF FinalisedIsPublished
<1> QED
  BY <1>4, <1>5, <1>6 DEF Closed, ReferenceSet

LEMMA IssuedByRequest ==
    ASSUME ApiInv, NEW r \in Requests, At(r, "ok")
    PROVE  /\ request[r].invoice \in DOMAIN invoice /\ Issued(request[r].invoice)
           /\ PageOK(<<"invoice", request[r].invoice>>)
<1> DEFINE i == request[r].invoice
<1>1. LocalsOK(request[r], invoice, milestone, ipfs) /\ DOMAIN invoice \subseteq Invoices
  BY PageIds DEF ApiInv, HandlerInv
<1>2. i \in DOMAIN invoice /\ invoice[i].state # "created"
  BY <1>1 DEF LocalsOK, At
<1>3. PageOK(<<"invoice", i>>)
  BY <1>1, <1>2 DEF PageOK, Protocols, Present, Items, Lists
<1> QED
  BY <1>2, <1>3 DEF Issued

-----------------------------------------------------------------------------
(* What a load and an answer leave                                           *)

\* The part of the invariant that is about tasks, and that about slots
TasksOK == DOMAIN task = Tasks /\ \A t \in Tasks : TaskOK(task[t])

SlotsOK ==
    /\ DOMAIN store = Slots
    /\ \A slot \in Slots : GotOK(store[slot])
    /\ ContractWhole(store.contractCurrent)
    /\ MilestonesListed(store.contracts)

\* What exists goes on existing.
LEMMA KeepExists ==
    ASSUME Advances
    PROVE  \A page : Exists(page) => Exists(page)'
  BY DEF Exists, Advances

\* The tab stays at the page it shows ...
LEMMA RouteStays ==
    ASSUME PagesInv, [ApiNext]_apiVars, UNCHANGED route, UNCHANGED visited,
           dialog' # None => route # None \/ dialog # None
    PROVE  RouteOK'
<1>1. Advances /\ RouteOK
  BY StepApi DEF PagesInv, PagesOK
<1> QED
  BY <1>1, KeepExists DEF RouteOK, Advances

\* ... or goes to another.
LEMMA RouteMoves ==
    ASSUME PagesInv, [ApiNext]_apiVars, NEW page \in Pages, Exists(page), Shown(page),
           User \in DOMAIN participant
    PROVE  RouteOK'
<1>1. Advances /\ RouteOK
  BY StepApi DEF PagesInv, PagesOK
<1>2. route' = page /\ visited' = visited \cup {page}
  BY DEF Shown
<1>3. \A x \in visited' : Exists(x)
  BY <1>1, <1>2 DEF RouteOK
<1>4. \A x \in visited' : Exists(x)'
  BY <1>1, <1>3, KeepExists
<1>5. User \in DOMAIN participant'
  BY <1>1 DEF Advances
<1> QED
  BY <1>1, <1>2, <1>4, <1>5 DEF RouteOK

\* Where the user is
LEMMA HereNow ==
    ASSUME PagesInv, route # None \/ dialog # None
    PROVE  route \in Pages /\ Exists(route) /\ User \in DOMAIN participant
  BY DEF PagesInv, PagesOK, RouteOK

\* A page that a store action loads is one of the tab's.
LEMMA LoadedPage ==
    ASSUME NEW page, PageOK(page)
    PROVE  page \in Pages /\ Exists(page)
<1>1. CASE page \in Lists \X {None}
  BY <1>1 DEF Pages, Exists
<1>2. CASE page \in Protocols
  <2>1. Present(page) /\ page[1] \in {"contract", "milestone", "invoice", "offer"}
    BY <1>2 DEF PageOK, Protocols
  <2> QED
    BY <1>2, <2>1 DEF Pages, Present, Exists
<1> QED
  BY <1>1, <1>2 DEF PageOK

\* What an answer is about exists.
LEMMA IdsExist ==
    ASSUME ApiInv, NEW got, GotOK(got)
    PROVE  /\ Ids(got, "contract") \subseteq DOMAIN contract
           /\ Ids(got, "milestone") \subseteq DOMAIN milestone
           /\ Ids(got, "invoice") \subseteq DOMAIN invoice
           /\ Ids(got, "offer") \subseteq DOMAIN offer
  BY DEF Ids, GotOK, CopyOK, Present

\* The rows of a list are about what its answer is about.
LEMMA RowsOfAnswer ==
    ASSUME NEW got
    PROVE  /\ \A row \in ContractRows(got) :
                 /\ row.uuid \in Ids(got, "contract")
                 /\ row.completionPercentage = CompletionPercentage(got, row.uuid)
           /\ \A row \in InvoiceRows(got) : row.uuid \in Ids(got, "invoice")
           /\ \A row \in OfferRows(got) : row.uuid \in Ids(got, "offer")
<1>1. ASSUME NEW row \in ContractRows(got)
      PROVE  /\ row.uuid \in Ids(got, "contract")
             /\ row.completionPercentage = CompletionPercentage(got, row.uuid)
  <2>1. PICK c \in Ids(got, "contract") :
           row = [uuid |-> c, value |-> got[<<"contract", c>>].goodsValue,
                  completionPercentage |-> CompletionPercentage(got, c)]
    BY <1>1 DEF ContractRows
  <2> QED
    BY <2>1
<1>2. ASSUME NEW row \in InvoiceRows(got) PROVE row.uuid \in Ids(got, "invoice")
  <2>1. PICK i \in Ids(got, "invoice") :
           row = [uuid |-> i, value |-> got[<<"invoice", i>>].amount,
                  status |-> got[<<"invoice", i>>].state]
    BY <1>2 DEF InvoiceRows
  <2> QED
    BY <2>1
<1>3. ASSUME NEW row \in OfferRows(got) PROVE row.uuid \in Ids(got, "offer")
  <2>1. PICK i \in Ids(got, "offer") :
           row = [uuid |-> i, price |-> got[<<"offer", i>>].amount,
                  amount |-> got[<<"invoice", i>>].amount]
    BY <1>3 DEF OfferRows
  <2> QED
    BY <2>1
<1> QED
  BY <1>1, <1>2, <1>3

LEMMA SlotNames ==
    /\ "contracts" \in Slots /\ "contractCurrent" \in Slots /\ "milestoneCurrent" \in Slots
    /\ "invoices" \in Slots /\ "offers" \in Slots /\ "offerCurrent" \in Slots
<1>1. /\ SlotOf["contracts"] = "contracts" /\ SlotOf["contract"] = "contractCurrent"
      /\ SlotOf["milestone"] = "milestoneCurrent" /\ SlotOf["invoices"] = "invoices"
      /\ SlotOf["offers"] = "offers" /\ SlotOf["offer"] = "offerCurrent"
      /\ {"contracts", "contract", "milestone", "invoices", "offers", "offer"}
            \subseteq DOMAIN SlotOf
  BY DEF SlotOf
<1> QED
  BY <1>1 DEF Slots

\* Every link leads to a page of something that exists.
LEMMA LinksLead ==
    ASSUME PagesInv, NEW page \in Links
    PROVE  page \in Pages /\ Exists(page) /\ User \in DOMAIN participant
<1>0. ApiInv /\ \A slot \in Slots : GotOK(store[slot])
  BY DEF PagesInv, PagesOK
<1>1. ASSUME NEW slot \in Slots, NEW i \in Ids(store[slot], "contract"), page = <<"contract", i>>
      PROVE  page \in Pages /\ Exists(page)
  BY <1>0, <1>1, IdsExist, PageIds DEF Pages, Protocols, Exists
<1>2. ASSUME NEW slot \in Slots, NEW i \in Ids(store[slot], "milestone"), page = <<"milestone", i>>
      PROVE  page \in Pages /\ Exists(page)
  BY <1>0, <1>2, IdsExist, PageIds DEF Pages, Protocols, Exists
<1>3. ASSUME NEW slot \in Slots, NEW i \in Ids(store[slot], "invoice"), page = <<"invoice", i>>
      PROVE  page \in Pages /\ Exists(page)
  BY <1>0, <1>3, IdsExist, PageIds DEF Pages, Protocols, Exists
<1>4. ASSUME NEW slot \in Slots, NEW i \in Ids(store[slot], "offer"), page = <<"offer", i>>
      PROVE  page \in Pages /\ Exists(page)
  BY <1>0, <1>4, IdsExist, PageIds DEF Pages, Protocols, Exists
<1>5. ASSUME page \in (Lists \cup Unloaded) \X {None} PROVE page \in Pages /\ Exists(page)
  BY <1>5 DEF Pages, Exists
<1>6. ASSUME page \in SideBar \cup TopBar PROVE page \in Pages /\ Exists(page)
  BY <1>5, <1>6 DEF SideBar, TopBar, Unloaded
<1>7. ASSUME page \in ContractsListView PROVE page \in Pages /\ Exists(page)
  <2>1. CASE page = <<"newContract", None>>
    BY <1>5, <2>1 DEF Unloaded, Forms
  <2>2. CASE page \in TableContract(ContractRows(store.contracts))
    <3>1. PICK i \in Ids(store["contracts"], "contract") : page = <<"contract", i>>
      BY <2>2, RowsOfAnswer DEF TableContract
    <3> QED
      BY <1>1, <3>1, SlotNames
  <2> QED
    BY <1>7, <2>1, <2>2 DEF ContractsListView
<1>8. ASSUME page \in InvoicesListView PROVE page \in Pages /\ Exists(page)
  <2>1. CASE page = <<"newInvoice", None>>
    BY <1>5, <2>1 DEF Unloaded, Forms
  <2>2. CASE page \in TableInvoice(InvoiceRows(store.invoices))
    <3>1. PICK i \in Ids(store["invoices"], "invoice") : page = <<"invoice", i>>
      BY <2>2, RowsOfAnswer DEF TableInvoice
    <3> QED
      BY <1>3, <3>1, SlotNames
  <2> QED
    BY <1>8, <2>1, <2>2 DEF InvoicesListView
<1>9. ASSUME page \in MarketplaceView PROVE page \in Pages /\ Exists(page)
  <2>1. PICK i \in Ids(store["offers"], "offer") : page = <<"offer", i>>
    BY <1>9, RowsOfAnswer DEF MarketplaceView, TableMarketplace
  <2> QED
    BY <1>4, <2>1, SlotNames
<1>10. ASSUME page \in MilestonesComponent PROVE page \in Pages /\ Exists(page)
  <2>1. PICK i \in Ids(store["contractCurrent"], "milestone") : page = <<"milestone", i>>
    BY <1>10 DEF MilestonesComponent
  <2> QED
    BY <1>2, <2>1, SlotNames
<1>11. route # None
  BY DEF Links
<1>12. User \in DOMAIN participant
  BY <1>11, HereNow
<1>13. \/ page \in SideBar \cup TopBar
       \/ page \in ContractsListView \/ page \in InvoicesListView
       \/ page \in MarketplaceView \/ page \in MilestonesComponent
  BY DEF Links, OffersView, PortfolioView
<1> QED
  BY <1>6, <1>7, <1>8, <1>9, <1>10, <1>12, <1>13

\* Wherever a link or the history leads, there is something to see.
LEMMA WayLeads ==
    ASSUME PagesInv, NEW page \in Links \cup visited
    PROVE  page \in Pages /\ Exists(page) /\ User \in DOMAIN participant
<1>1. CASE page \in Links
  BY <1>1, LinksLead
<1>2. CASE page \in visited
  BY <1>2 DEF PagesInv, PagesOK, RouteOK
<1> QED
  BY <1>1, <1>2

LEMMA StepAnswered ==
    ASSUME PagesInv, NEW t \in Tasks, Answered(t)
    PROVE  TasksOK'
<1>0. PICK q : q = task[t]
  OBVIOUS
<1>1. /\ UNCHANGED apiVars /\ Is(t, "acting") /\ q.step = "acting"
      /\ q.action \in {"sign", "complete", "price"}
      /\ q.request # None => At(q.request, "ok")
      /\ Load(t, q.page)
  BY <1>0 DEF Answered, Is
<1>2. PageOK(q.page) /\ ActionOK(q) /\ ApiInv
  BY <1>0, <1>1 DEF PagesInv, PagesOK, TaskOK
<1>3. PICK new : new = [q EXCEPT !.step = "list", !.page = q.page]
  OBVIOUS
<1>4. /\ new.step = "list" /\ new.page = q.page /\ new.action = q.action
      /\ new.about = q.about
  <2>1. q = [step |-> q.step, action |-> q.action, about |-> q.about, request |-> q.request,
              page |-> q.page, todo |-> q.todo, got |-> q.got]
    BY <1>0 DEF PagesInv, PagesOK, TaskOK
  <2> QED
    BY <1>3, <2>1
<1>5. ASSUME q.action = "complete" PROVE Closed(q.about)
  <2>1. /\ Closing(q.request, q.about) /\ Signs(q.page[2])
        /\ q.about \in contract[q.page[2]].milestones
    BY <1>1, <1>2, <1>5 DEF ActionOK
  <2>2. q.request # None
    BY <2>1, PageParameters DEF Closing
  <2>3. q.about \in DOMAIN milestone
    BY <1>2, <2>1, Known DEF GoodsCovered, Signs
  <2> QED
    BY <1>1, <1>2, <2>1, <2>2, <2>3, ClosedByRequest
<1>6. ActionOK(new)
  BY <1>1, <1>2, <1>4, <1>5 DEF ActionOK
<1>7. ActionOK([task[t] EXCEPT !.step = "list", !.page = q.page])
  BY <1>0, <1>3, <1>6
<1> QED
  BY <1>1, <1>2, <1>7, Loading DEF TasksOK

\* The page a store action moves on to
LEMMA NextPage ==
    ASSUME PagesInv, NEW t \in Tasks, MoveOn(t), NEW page,
           page = IF task[t].action = "addInvoice"
                  THEN <<"invoice", request[task[t].request].invoice>>
                  ELSE task[t].page
    PROVE  PageOK(page) /\ ActionOK([task[t] EXCEPT !.step = "list", !.page = page])
<1>0. PICK q : q = task[t]
  OBVIOUS
<1>1. /\ q.step = "acting" /\ q.action \in {"buy", "addInvoice", "addContract"}
      /\ q.request # None => At(q.request, "ok")
  BY <1>0 DEF MoveOn, Is
<1>2. /\ ActionOK(q) /\ ApiInv /\ (q.action # "addInvoice" => PageOK(q.page))
      /\ q = [step |-> q.step, action |-> q.action, about |-> q.about, request |-> q.request,
              page |-> q.page, todo |-> q.todo, got |-> q.got]
  BY <1>0, <1>1 DEF PagesInv, PagesOK, TaskOK
<1>3. PICK new : new = [q EXCEPT !.step = "list", !.page = page]
  OBVIOUS
<1>4. /\ new.step = "list" /\ new.page = page /\ new.action = q.action
      /\ new.about = q.about
  BY <1>2, <1>3
<1>5. CASE q.action = "addInvoice"
  <2>1. q.request \in Requests /\ q.request # None
    BY <1>1, <1>2, <1>5, PageParameters DEF ActionOK
  <2>2. page = <<"invoice", request[q.request].invoice>>
    BY <1>0, <1>5
  <2>3. PageOK(page) /\ Issued(page[2]) /\ page[1] = "invoice"
    BY <1>1, <1>2, <2>1, <2>2, IssuedByRequest
  <2>4. ActionOK(new)
    BY <1>4, <1>5, <2>3 DEF ActionOK
  <2> QED
    BY <1>0, <1>3, <2>3, <2>4
<1>6. CASE q.action # "addInvoice"
  <2>1. page = q.page
    BY <1>0, <1>6
  <2>2. ActionOK(new)
    BY <1>1, <1>2, <1>4, <1>6, <2>1 DEF ActionOK
  <2> QED
    BY <1>0, <1>2, <1>3, <1>6, <2>1, <2>2
<1> QED
  BY <1>5, <1>6

LEMMA StepMoveOn ==
    ASSUME PagesInv, NEW t \in Tasks, MoveOn(t)
    PROVE  TasksOK' /\ RouteOK'
<1>0. PICK page : page = IF task[t].action = "addInvoice"
                         THEN <<"invoice", request[task[t].request].invoice>>
                         ELSE task[t].page
  OBVIOUS
<1>1. PageOK(page) /\ ActionOK([task[t] EXCEPT !.step = "list", !.page = page])
  BY <1>0, NextPage
<1>2. /\ UNCHANGED apiVars /\ Is(t, "acting")
      /\ Shown(page) /\ (Ends(t) \/ Load(t, page))
  BY <1>0 DEF MoveOn, Mounted
<1>3. TasksOK'
  <2>1. CASE Ends(t)
    BY <1>2, <2>1, Ending DEF TasksOK
  <2>2. CASE Load(t, page)
    BY <1>1, <1>2, <2>2, Loading DEF TasksOK
  <2> QED
    BY <1>2, <2>1, <2>2
<1>4. page \in Pages /\ Exists(page)
  BY <1>1, LoadedPage
<1>5. User \in DOMAIN participant
  BY <1>2 DEF PagesInv, PagesOK, TaskOK, Is
<1>6. RouteOK'
  BY <1>2, <1>4, <1>5, RouteMoves
<1> QED
  BY <1>3, <1>6

\* A file is answered to be authentic if an invoice says what it says.
LEMMA StepVerify ==
    ASSUME PagesInv, NEW t \in Tasks, ServeVerify(t) \/ VerifyFails(t)
    PROVE  TasksOK'
<1>0. PICK q : q = task[t]
  OBVIOUS
<1>1. /\ UNCHANGED apiVars /\ q.step = "acting" /\ q.action = "verify"
  BY <1>0 DEF ServeVerify, VerifyFails, Is
<1>2. /\ q = [step |-> q.step, action |-> q.action, about |-> q.about, request |-> q.request,
              page |-> q.page, todo |-> q.todo, got |-> q.got]
      /\ q.todo = <<>> /\ q.got = <<>> /\ q.about \in Files /\ User \in DOMAIN participant
  BY <1>0, <1>1 DEF PagesInv, PagesOK, TaskOK, ActionOK
<1>3. PICK step : /\ task' = [task EXCEPT ![t].step = step]
                  /\ \/ step = "failed"
                     \/ /\ step = "success"
                        /\ \E p \in Holders(q.about.creditorData) :
                              VerifyAuthenticity(p, q.about.document, q.about.amount,
                                                 q.about.creditorData)
  <2>1. CASE VerifyFails(t)
    BY <2>1 DEF VerifyFails
  <2>2. CASE ServeVerify(t)
    BY <1>0, <2>2 DEF ServeVerify
  <2> QED
    BY <2>1, <2>2
<1>4. step = "success" => Authentic(q.about)
  <2> SUFFICES ASSUME NEW p \in Holders(q.about.creditorData),
                      VerifyAuthenticity(p, q.about.document, q.about.amount,
                                         q.about.creditorData)
               PROVE  Authentic(q.about)
    BY <1>3
  <2> DEFINE found == Matching(p, q.about.document, q.about.amount, q.about.creditorData)
  <2>1. Cardinality(found) = 1
    BY DEF VerifyAuthenticity
  <2>2. found # {}
    BY <2>1, FS_EmptySet
  <2>3. PICK i \in participant[p].issuedInvoices :
           /\ invoice[i].document = q.about.document
           /\ invoice[i].amount = q.about.amount
           /\ invoice[i].creditorData = q.about.creditorData
    BY <2>2 DEF Matching
  <2>4. p \in DOMAIN participant
    BY Known DEF PagesInv, HeapsOK, Holders
  <2>5. i \in DOMAIN invoice
    BY <2>3, <2>4, Known DEF PagesInv, RegistriesOK
  <2>6. q.about = [document |-> q.about.document, amount |-> q.about.amount,
                   creditorData |-> q.about.creditorData]
    BY <1>2 DEF Files
  <2> QED
    BY <2>3, <2>5, <2>6 DEF Authentic
<1>5. PICK new : new = [q EXCEPT !.step = step]
  OBVIOUS
<1>6. /\ new.step = step /\ new.action = "verify" /\ new.about = q.about /\ new.todo = <<>>
      /\ new.got = <<>>
      /\ new = [step |-> new.step, action |-> new.action, about |-> new.about,
                request |-> new.request, page |-> new.page, todo |-> new.todo,
                got |-> new.got]
  BY <1>1, <1>2, <1>5
<1>7. ActionOK(new)
  BY <1>2, <1>6 DEF ActionOK
<1>8. TaskOK(new)
  BY <1>2, <1>3, <1>4, <1>6, <1>7 DEF TaskOK
<1>9. task' = [task EXCEPT ![t] = new]
  BY <1>0, <1>3, <1>5
<1> QED
  BY <1>1, <1>8, <1>9, TaskMoves DEF TasksOK

LEMMA StepReading ==
    ASSUME PagesInv, NEW t \in Tasks, ListIds(t) \/ ReadNext(t)
    PROVE  TasksOK'
<1>0. PICK q : q = task[t]
  OBVIOUS
<1>1. /\ TaskOK(q) /\ ApiInv
      /\ q = [step |-> q.step, action |-> q.action, about |-> q.about, request |-> q.request,
              page |-> q.page, todo |-> q.todo, got |-> q.got]
  BY <1>0 DEF PagesInv, PagesOK, TaskOK
<1>2. CASE ListIds(t)
  <2>1. PICK items \in SetToSeqs(Listed(q.page)) :
           task' = [task EXCEPT ![t].step = "read", ![t].todo = items]
    BY <1>0, <1>2 DEF ListIds
  <2>2. PICK new : new = [q EXCEPT !.step = "read", !.todo = items]
    OBVIOUS
  <2>3. task' = [task EXCEPT ![t] = new]
    BY <1>0, <2>1, <2>2
  <2>4. UNCHANGED apiVars /\ q.step = "list"
    BY <1>0, <1>2 DEF ListIds, Is
  <2>5. TaskOK(new)
    BY <1>1, <2>2, <2>4, StartsReading
  <2> QED
    BY <2>3, <2>4, <2>5, TaskMoves DEF TasksOK
<1>3. CASE ReadNext(t)
  <2>1. PICK item : item = Head(q.todo)
    OBVIOUS
  <2>2. PICK copy : copy = Copy(item, q.got)
    OBVIOUS
  <2>3. PICK next \in Further(item, copy, q.page) :
           task' = [task EXCEPT ![t].todo = next \o Tail(@),
                                ![t].got = Create(@, item, copy)]
    BY <1>0, <1>3, <2>1, <2>2 DEF ReadNext
  <2>4. PICK new : new = [q EXCEPT !.todo = next \o Tail(q.todo),
                                   !.got = Create(q.got, item, copy)]
    OBVIOUS
  <2>5. task' = [task EXCEPT ![t] = new]
    BY <1>0, <2>3, <2>4
  <2>6. UNCHANGED apiVars /\ q.step = "read" /\ q.todo # <<>>
    BY <1>0, <1>3 DEF ReadNext, Is
  <2>7. /\ new.step = q.step /\ new.action = q.action /\ new.about = q.about
        /\ new.request = q.request /\ new.page = q.page
        /\ new.todo = next \o Tail(q.todo) /\ new.got = Create(q.got, item, copy)
        /\ new = [step |-> new.step, action |-> new.action, about |-> new.about,
                  request |-> new.request, page |-> new.page, todo |-> new.todo,
                  got |-> new.got]
    BY <1>1, <2>4
  <2>8. ReadOK(q) /\ ActionOK(q) /\ PageOK(q.page)
    BY <1>1, <2>6 DEF TaskOK
  <2>9. ReadOK(new)
    BY <1>1, <2>1, <2>2, <2>6, <2>7, <2>8, ReadsOn
  <2>10. ActionOK(new)
    BY <2>6, <2>7, <2>8 DEF ActionOK
  <2>11. TaskOK(new)
    BY <1>1, <2>6, <2>7, <2>8, <2>9, <2>10 DEF TaskOK
  <2> QED
    BY <2>5, <2>6, <2>11, TaskMoves DEF TasksOK
<1> QED
  BY <1>2, <1>3

LEMMA StepStores ==
    ASSUME PagesInv, NEW t \in Tasks, StoreAnswer(t)
    PROVE  TasksOK' /\ SlotsOK'
<1>0. PICK q : q = task[t]
  OBVIOUS
<1>1. /\ q.step = "read" /\ q.todo = <<>> /\ UNCHANGED apiVars /\ Ends(t)
      /\ store' = [store EXCEPT ![SlotOf[q.page[1]]] = q.got]
  BY <1>0 DEF StoreAnswer, Is
<1>2. /\ ReadOK(q) /\ PageOK(q.page) /\ ApiInv
      /\ DOMAIN store = Slots /\ \A slot \in Slots : GotOK(store[slot])
      /\ ContractWhole(store.contractCurrent) /\ MilestonesListed(store.contracts)
  BY <1>0, <1>1 DEF PagesInv, PagesOK, TaskOK
<1>3. PICK name : name = q.page[1]
  OBVIOUS
<1>4. name \in {"contract", "milestone", "invoice", "offer"} \cup Lists
  BY <1>2, <1>3 DEF PageOK, Protocols
<1>5. /\ name \in DOMAIN SlotOf
      /\ SlotOf[name] = "contractCurrent" <=> name = "contract"
      /\ SlotOf[name] = "contracts" <=> name = "contracts"
  BY <1>4 DEF SlotOf, Lists
<1>6. SlotOf[name] \in Slots
  BY <1>5 DEF Slots
<1>7. \A got : GotOK(got) => GotOK(got)'
  BY <1>1, <1>2, KeepGot
<1>8. GotOK(q.got)
  BY <1>2 DEF ReadOK, GotOK
<1>9. ASSUME NEW slot \in Slots PROVE GotOK(store[slot])'
  <2>1. store'[slot] = IF slot = SlotOf[name] THEN q.got ELSE store[slot]
    BY <1>1, <1>2, <1>3
  <2>2. GotOK(store'[slot])
    BY <1>2, <1>8, <2>1
  <2> QED
    BY <1>7, <2>2
<1>10. ContractWhole(store'.contractCurrent)
  <2>1. CASE name = "contract"
    <3>1. store'["contractCurrent"] = q.got
      BY <1>1, <1>2, <1>3, <1>5, SlotNames, <2>1
    <3> QED
      BY <1>1, <1>2, <1>3, <2>1, <3>1, WholeAnswer
  <2>2. CASE name # "contract"
    <3>1. store'["contractCurrent"] = store["contractCurrent"]
      BY <1>1, <1>2, <1>3, <1>5, <2>2
    <3> QED
      BY <1>2, <3>1
  <2> QED
    BY <2>1, <2>2
<1>11. ContractWhole(store.contractCurrent)'
  BY <1>10 DEF ContractWhole
<1>12. MilestonesListed(store'.contracts)
  <2>1. CASE name = "contracts"
    <3>1. store'["contracts"] = q.got
      BY <1>1, <1>2, <1>3, <1>5, SlotNames, <2>1
    <3> QED
      BY <1>1, <1>2, <3>1, ListedAnswer
  <2>2. CASE name # "contracts"
    <3>1. store'["contracts"] = store["contracts"]
      BY <1>1, <1>2, <1>3, <1>5, <2>2
    <3> QED
      BY <1>2, <3>1
  <2> QED
    BY <2>1, <2>2
<1>13. MilestonesListed(store.contracts)'
  BY <1>12 DEF MilestonesListed
<1>14. TasksOK'
  BY <1>1, Ending DEF TasksOK
<1> QED
  BY <1>1, <1>2, <1>9, <1>11, <1>13, <1>14 DEF SlotsOK

\* What a store action of the tab leaves
LEMMA StepRuns ==
    ASSUME PagesInv, NEW t \in Tasks, Runs(t)
    PROVE  PagesOK'
<1>0. UNCHANGED apiVars
  BY RunsRestBackend
<1>1. ASSUME UNCHANGED route, UNCHANGED visited, UNCHANGED dialog PROVE RouteOK'
  BY <1>0, <1>1, RouteStays
<1>2. ASSUME UNCHANGED store PROVE SlotsOK'
  BY <1>0, <1>2, SlotsStay DEF SlotsOK
<1>3. ASSUME RouteOK', TasksOK', SlotsOK' PROVE PagesOK'
  BY <1>3 DEF PagesOK, TasksOK, SlotsOK
<1>4. CASE Answered(t)
  BY <1>1, <1>2, <1>3, <1>4, StepAnswered DEF Answered
<1>5. CASE MoveOn(t)
  BY <1>2, <1>3, <1>5, StepMoveOn DEF MoveOn
<1>6. CASE Rejected(t) \/ LoadFails(t)
  <2>1. UNCHANGED store /\ UNCHANGED route /\ UNCHANGED visited /\ UNCHANGED dialog /\ Ends(t)
    BY <1>6 DEF Rejected, LoadFails
  <2>2. TasksOK'
    BY <1>0, <2>1, Ending DEF TasksOK
  <2> QED
    BY <1>1, <1>2, <1>3, <2>1, <2>2
<1>7. CASE ListIds(t) \/ ReadNext(t)
  BY <1>1, <1>2, <1>3, <1>7, StepReading DEF ListIds, ReadNext
<1>8. CASE StoreAnswer(t)
  BY <1>1, <1>3, <1>8, StepStores DEF StoreAnswer
<1>9. CASE ServeVerify(t) \/ VerifyFails(t)
  BY <1>1, <1>2, <1>3, <1>9, StepVerify DEF ServeVerify, VerifyFails
<1>10. CASE ShowStatus(t)
  <2>1. /\ UNCHANGED store /\ UNCHANGED route /\ UNCHANGED visited /\ Ends(t)
        /\ dialog' # dialog => dialog = t
    BY <1>10 DEF ShowStatus
  <2>2. TasksOK'
    BY <1>0, <2>1, Ending DEF TasksOK
  <2>3. t # None
    BY PageParameters
  <2>4. RouteOK'
    BY <1>0, <2>1, <2>3, RouteStays
  <2> QED
    BY <1>2, <1>3, <2>1, <2>2, <2>4
<1> QED
  BY <1>4, <1>5, <1>6, <1>7, <1>8, <1>9, <1>10 DEF Runs

-----------------------------------------------------------------------------
(* What the user's clicks leave                                              *)

\* A page of a protocol that exists
Shows(page) ==
    /\ page[1] \in {"contract", "milestone", "invoice", "offer"}
    /\ page[1] = "contract" => page[2] \in DOMAIN contract
    /\ page[1] = "milestone" => page[2] \in DOMAIN milestone
    /\ page[1] = "invoice" => page[2] \in DOMAIN invoice
    /\ page[1] = "offer" => page[2] \in DOMAIN offer

ProtocolPages == \A x \in Pages : Shows(x) => PageOK(x) /\ x = <<x[1], x[2]>>

LEMMA ProtocolPage == ProtocolPages
<1> SUFFICES ASSUME NEW page \in Pages, Shows(page)
             PROVE  PageOK(page) /\ page = <<page[1], page[2]>>
  BY DEF ProtocolPages
<1>1. page \in Protocols
  BY DEF Pages, Lists, Unloaded, Forms, Shows
<1>2. page \in Items /\ page = <<page[1], page[2]>> /\ page[1] \notin Lists
  BY <1>1 DEF Protocols, Items, Lists
<1> QED
  BY <1>1, <1>2 DEF PageOK, Present, Shows

\* The tab's tasks are in order, and it is at a page of its own.
LEMMA AfterClick ==
    ASSUME PagesInv, [ApiNext]_apiVars, UNCHANGED store, TasksOK', RouteOK'
    PROVE  PagesOK'
<1>1. SlotsOK'
  BY SlotsStay DEF PagesInv, SlotsOK
<1> QED
  BY <1>1 DEF PagesInv, PagesOK, TasksOK, SlotsOK

\* A click sends a request.
LEMMA AfterSending ==
    ASSUME PagesInv, [ApiNext]_apiVars, NEW t, NEW action, NEW about, NEW r, NEW page,
           Sends(t, action, about, r, page), Sent(action, about, r, page)',
           UNCHANGED store, UNCHANGED route, UNCHANGED visited,
           dialog' # None => route # None \/ dialog # None
    PROVE  PagesOK'
<1>1. TasksOK'
  BY Sending DEF TasksOK
<1>2. RouteOK'
  BY RouteStays
<1> QED
  BY <1>1, <1>2, AfterClick

\* Who can click is a participant, and goes on being one.
LEMMA UserStays ==
    ASSUME PagesInv, [ApiNext]_apiVars, route # None \/ dialog # None
    PROVE  User \in DOMAIN participant'
<1>1. Advances /\ User \in DOMAIN participant
  BY StepApi, HereNow DEF PagesInv
<1> QED
  BY <1>1 DEF Advances

LEMMA StepSign ==
    ASSUME PagesInv, [ApiNext]_apiVars, NEW t \in Tasks, Sign(t)
    PROVE  PagesOK'
<1>0. PICK page : page = route
  OBVIOUS
<1>1. /\ page \in Pages /\ page[1] = "contract"
      /\ FinaliseCreation(page[2]) /\ Sends(t, "sign", page[2], None, page)
      /\ UNCHANGED store /\ UNCHANGED route /\ UNCHANGED visited /\ UNCHANGED dialog
      /\ User \in DOMAIN participant'
  BY <1>0, HereNow, UserStays DEF Sign
<1>2. /\ page[2] \in DOMAIN contract' /\ contract'[page[2]].state = "creationFinalised"
  <2>1. \A c \in DOMAIN contract : contract[c] \in Contract
    BY Known, Typed DEF PagesInv, Started
  <2> QED
    BY <1>1, <2>1 DEF FinaliseCreation, Contract
<1>a. ProtocolPages'
  BY ProtocolPage, PTL
<1>3. PageOK(page)' /\ page = <<"contract", page[2]>>
  BY <1>1, <1>2, <1>a DEF Shows, ProtocolPages
<1>4. Signs(page[2])'
  BY <1>2 DEF Signs
<1>5. Sent("sign", page[2], None, page)'
  BY <1>1, <1>3, <1>4 DEF Sent
<1> QED
  BY <1>1, <1>5, AfterSending

LEMMA StepComplete ==
    ASSUME PagesInv, [ApiNext]_apiVars, NEW t \in Tasks, NEW c, NEW m, NEW r \in Requests,
           Complete(t, c, m, r)
    PROVE  PagesOK'
<1> DEFINE page == <<"contract", c>>
           shown == store.contractCurrent
<1>0. ApiInv /\ ApiInv' /\ Advances /\ Started /\ RequestsOK /\ HandlerInv
  BY StepApi, Known, Typed DEF PagesInv, ApiInv
<1>a. /\ <<c, m>> \in CompleteButtons
      /\ PostClosure(r, m) /\ Sends(t, "complete", m, r, page)
      /\ UNCHANGED store /\ UNCHANGED route /\ UNCHANGED visited /\ UNCHANGED dialog
      /\ User \in DOMAIN participant'
  BY UserStays DEF Complete
<1>2. GotOK(shown) /\ ContractWhole(shown)
  BY SlotNames DEF PagesInv, PagesOK
<1>b. /\ c \in Ids(shown, "contract") /\ m \in Ids(shown, "milestone")
      /\ shown[<<"contract", c>>].state = "creationFinalised"
  BY <1>a DEF CompleteButtons
<1>c. page \in DOMAIN shown /\ <<"milestone", m>> \in DOMAIN shown
  <2>1. \A item \in DOMAIN shown : item = <<item[1], item[2]>>
    BY <1>2 DEF GotOK, CopyOK, Present, Items
  <2> QED
    BY <1>b, <2>1 DEF Ids
<1>1. /\ page \in DOMAIN shown /\ shown[page].state = "creationFinalised"
      /\ <<"milestone", m>> \in DOMAIN shown
      /\ PostClosure(r, m) /\ Sends(t, "complete", m, r, page)
  BY <1>a, <1>b, <1>c
<1>3. /\ c \in DOMAIN contract /\ c \in Contracts /\ ContractCopy(shown[page], contract[c])
      /\ contract[c] \in Contract
  <2>1. CopyOK(page, shown[page])
    BY <1>1, <1>2 DEF GotOK
  <2>2. page[1] = "contract" /\ page[2] = c
    OBVIOUS
  <2> HIDE DEF page, shown
  <2> QED
    BY <1>0, <2>1, <2>2, PageIds DEF CopyOK, Present, Started
<1>4. Signs(c)
  <2>1. Rank[shown[page].state] > 0 /\ shown[page] \in Contract
    BY <1>1, <1>3, Ranks DEF ContractCopy
  <2>2. Rank[shown[page].state] \in Nat /\ Rank[contract[c].state] \in Nat
    BY <1>3, <2>1, Ranks
  <2>3. Rank[contract[c].state] > 0
    BY <1>3, <2>1, <2>2 DEF ContractCopy, ContractGoesOn
  <2> QED
    BY <1>3, <2>3, Ranks DEF Signs
<1>5. m \in contract[c].milestones
  <2>1. shown[page].milestones = contract[c].milestones
    BY <1>3 DEF ContractCopy, ContractGoesOn, Contract
  <2>2. <<"milestone", m>> \in {"milestone"} \X shown[page].milestones
    <3>1. <<"milestone", m>> \in {item \in DOMAIN shown : item[1] = "milestone"}
      BY <1>1
    <3> HIDE DEF shown
    <3> QED
      BY <1>1, <1>2, <1>3, <3>1 DEF ContractWhole
  <2> QED
    BY <2>1, <2>2
<1>6. Signs(c)' /\ m \in contract'[c].milestones
  BY <1>0, <1>4, <1>5, KeepSigned
<1>7. Closing(r, m)'
  <2>1. /\ request[r].step = "unsent"
        /\ request' = [request EXCEPT ![r].step = "reach", ![r].from = m]
    BY <1>1 DEF PostClosure, At
  <2>2. request[r].invoice = None
    BY <1>0, <2>1 DEF HandlerInv, LocalsOK
  <2>3. request[r] \in Request /\ r \in DOMAIN request
    BY <1>0 DEF RequestsOK
  <2>4. /\ request'[r].step = "reach" /\ request'[r].from = m /\ request'[r].invoice = None
    BY <2>1, <2>2, <2>3 DEF Request
  <2> QED
    BY <2>4 DEF Closing
<1>8. PageOK(page)'
  <2>1. page \in Pages
    BY <1>3 DEF Pages, Protocols
  <2>2. c \in DOMAIN contract'
    BY <1>6 DEF Signs
  <2>3. page[1] = "contract" /\ page[2] = c
    OBVIOUS
  <2>4. ProtocolPages'
    BY ProtocolPage, PTL
  <2> HIDE DEF page
  <2> QED
    BY <2>1, <2>2, <2>3, <2>4 DEF Shows, ProtocolPages
<1>9. Sent("complete", m, r, page)'
  BY <1>a, <1>6, <1>7, <1>8 DEF Sent
<1> QED
  BY <1>1, <1>a, <1>9, AfterSending

LEMMA StepBuy ==
    ASSUME PagesInv, [ApiNext]_apiVars, NEW t \in Tasks, Buy(t)
    PROVE  PagesOK'
<1>0. PICK i : i = route[2]
  OBVIOUS
<1> DEFINE page == <<"portfolio", None>>
<1>1. /\ BuyOffer(User, i) /\ Sends(t, "buy", i, None, page)
      /\ UNCHANGED store /\ UNCHANGED route /\ UNCHANGED visited /\ UNCHANGED dialog
  BY <1>0 DEF Buy
<1>2. /\ i \in DOMAIN offer /\ offer[i] \in Offer
  BY <1>1, Known DEF BuyOffer, IsOpen, PagesInv, HeapsOK, HeapOK
<1>3. i \in DOMAIN offer' /\ Purchased(offer'[i])
  BY <1>1, <1>2 DEF BuyOffer, Bought, Offer, Purchased
<1>4. User \in DOMAIN participant'
  BY <1>1 DEF BuyOffer
<1>5. PageOK(page)'
  BY <1>4 DEF PageOK, Protocols, Lists
<1>6. Sent("buy", i, None, page)'
  BY <1>3, <1>4, <1>5 DEF Sent
<1> QED
  BY <1>1, <1>6, AfterSending

LEMMA StepPrice ==
    ASSUME PagesInv, [ApiNext]_apiVars, NEW t \in Tasks, NEW ask,
           EditOfferPrice(t, ask) \/ EditMilestonePrice(t, ask)
    PROVE  PagesOK'
<1>0. PICK page : page = route
  OBVIOUS
<1>1. /\ Sends(t, "price", page[2], None, page) /\ UNCHANGED store /\ UNCHANGED route
      /\ UNCHANGED visited /\ dialog = "price" /\ dialog' = None
  BY <1>0 DEF EditOfferPrice, EditMilestonePrice
<1>2. page \in Pages /\ User \in DOMAIN participant'
  <2>1. dialog # None
    BY <1>1, PageParameters DEF Dialogs
  <2> QED
    BY <1>0, <2>1, HereNow, UserStays
<1>3. \/ page[1] = "offer" /\ page[2] \in DOMAIN offer
      \/ page[1] = "milestone" /\ page[2] \in DOMAIN milestone
  BY <1>0 DEF EditOfferPrice, EditMilestonePrice, UpdateOfferPrice, UpdateOfferAmount, IsOpen
<1>4. Advances
  BY StepApi DEF PagesInv
<1>5. Shows(page)'
  BY <1>3, <1>4 DEF Shows, Advances
<1>6. ProtocolPages'
  BY ProtocolPage, PTL
<1>7. PageOK(page)'
  BY <1>2, <1>5, <1>6 DEF ProtocolPages
<1>8. Sent("price", page[2], None, page)'
  BY <1>2, <1>7 DEF Sent
<1> QED
  BY <1>1, <1>8, AfterSending

LEMMA StepAdd ==
    ASSUME PagesInv, [ApiNext]_apiVars, NEW t \in Tasks,
           \/ \E r \in Requests, req \in PostedRequest : AddInvoice(t, r, req)
           \/ \E c \in Contracts, goodsValue \in Amounts, ms \in SUBSET Milestones :
                 \E inputs \in [ms -> MilestoneInputs] : AddContract(t, c, inputs, goodsValue)
    PROVE  PagesOK'
<1>1. ASSUME NEW r \in Requests, NEW req \in PostedRequest, AddInvoice(t, r, req)
      PROVE  PagesOK'
  <2>1. /\ Sends(t, "addInvoice", None, r, None)
        /\ UNCHANGED store /\ UNCHANGED route /\ UNCHANGED visited /\ dialog = "step3"
    BY <1>1 DEF AddInvoice
  <2>a. dialog # None
    BY <2>1, PageParameters DEF Steps
  <2>2. Sent("addInvoice", None, r, None)'
    BY <2>a, UserStays DEF Sent
  <2> QED
    BY <2>1, <2>2, <2>a, AfterSending
<1>2. ASSUME NEW c \in Contracts, NEW goodsValue, NEW inputs,
             AddContract(t, c, inputs, goodsValue)
      PROVE  PagesOK'
  <2> DEFINE page == <<"contract", c>>
  <2>1. /\ Sends(t, "addContract", c, None, page)
        /\ UNCHANGED store /\ UNCHANGED route /\ UNCHANGED visited /\ dialog = "step3"
        /\ CreateContract(User, c, inputs, goodsValue)
    BY <1>2 DEF AddContract
  <2>a. dialog # None
    BY <2>1, PageParameters DEF Steps
  <2>2. c \in DOMAIN contract'
    BY <2>1 DEF CreateContract, Create
  <2>3. page \in Pages /\ page[1] = "contract" /\ page[2] = c
    BY DEF Pages, Protocols
  <2> HIDE DEF page
  <2>4. Shows(page)'
    BY <2>2, <2>3 DEF Shows
  <2>5. ProtocolPages'
    BY ProtocolPage, PTL
  <2>6. PageOK(page)'
    BY <2>3, <2>4, <2>5 DEF ProtocolPages
  <2>7. Sent("addContract", c, None, page)'
    BY <2>6, <2>a, UserStays DEF Sent
  <2> QED
    BY <2>1, <2>7, <2>a, AfterSending
<1> QED
  BY <1>1, <1>2

\* A file that is sent
LEMMA StepVerifyFile ==
    ASSUME PagesInv, NEW t \in Tasks, NEW file \in Files, VerifyFile(t, file)
    PROVE  PagesOK'
<1>1. /\ UNCHANGED apiVars /\ UNCHANGED store /\ UNCHANGED route /\ UNCHANGED visited
      /\ dialog = "readyForUpload" /\ Sends(t, "verify", file, None, route)
  BY DEF VerifyFile
<1>2. dialog # None
  BY <1>1, PageParameters DEF FileStatus
<1>3. PICK page : page = route
  OBVIOUS
<1>4. User \in DOMAIN participant'
  BY <1>1, <1>2, UserStays
<1>5. Sent("verify", file, None, page)'
  BY <1>4 DEF Sent
<1> QED
  BY <1>1, <1>2, <1>3, <1>5, AfterSending

LEMMA StepVisit ==
    ASSUME PagesInv, NEW t \in Tasks, NEW page \in Pages, Visit(t, page)
    PROVE  PagesOK'
<1>1. /\ page[1] \notin Unloaded /\ page \in Links \cup visited
      /\ Shown(page) /\ (UNCHANGED task \/ Starts(t, page))
      /\ UNCHANGED apiVars /\ UNCHANGED store
  BY DEF Visit, Mounted
<1>2. Exists(page) /\ User \in DOMAIN participant
  BY <1>1, WayLeads
<1>3. PageOK(page)
  BY <1>1, <1>2, OpenPage DEF PagesInv
<1>4. TasksOK'
  BY <1>1, <1>2, <1>3, Starting, TasksStay DEF TasksOK
<1>5. RouteOK'
  BY <1>1, <1>2, RouteMoves
<1> QED
  BY <1>1, <1>4, <1>5, AfterClick

LEMMA StepOpenForm ==
    ASSUME PagesInv, NEW form \in Unloaded, OpenForm(form)
    PROVE  PagesOK'
<1>1. PICK page : page = <<form, None>>
  OBVIOUS
<1>2. /\ page \in Links \cup visited /\ Shown(page)
      /\ UNCHANGED apiVars /\ UNCHANGED store /\ UNCHANGED task
  BY <1>1 DEF OpenForm, Mounted
<1>3. TasksOK'
  BY <1>2, TasksStay DEF TasksOK
<1>4. RouteOK'
  BY <1>2, WayLeads, RouteMoves
<1> QED
  BY <1>2, <1>3, <1>4, AfterClick

\* A tab that starts anew knows nothing.
LEMMA StepReload ==
    ASSUME PagesInv, NEW t \in Tasks, NEW page \in Pages, Reload(t, page)
    PROVE  PagesOK'
<1>0. PICK first : first = OnMounted(page)
  OBVIOUS
<1>1. /\ User \in DOMAIN participant /\ Exists(page)
      /\ route' = page /\ visited' = {page}
      /\ store' = [slot \in Slots |-> <<>>]
      /\ task' = [s \in Tasks |->
                    IF s = t /\ page[1] \notin Unloaded THEN first ELSE Idle]
      /\ UNCHANGED apiVars
  BY <1>0 DEF Reload
<1>2. User \in DOMAIN participant' /\ Exists(page)'
  <2>1. Advances
    BY <1>1, StepApi DEF PagesInv
  <2> QED
    BY <1>1, <2>1, KeepExists DEF Advances
<1>3. RouteOK'
  BY <1>1, <1>2 DEF RouteOK
<1>4. page[1] \notin Unloaded => TaskOK(first)
  BY <1>0, <1>1, OpenPage, Visiting DEF PagesInv
<1>5. \A q : TaskOK(q) => TaskOK(q)'
  BY <1>1, KeepTask DEF PagesInv
<1>6. TasksOK'
  <2>1. ASSUME NEW s \in Tasks PROVE TaskOK(task'[s])
    BY <1>1, <1>4, IdleOK
  <2>2. ASSUME NEW s \in Tasks PROVE TaskOK(task[s])'
    BY <1>5, <2>1
  <2> QED
    BY <1>1, <2>2 DEF TasksOK
<1>7. SlotsOK'
  <2>1. /\ DOMAIN store' = Slots /\ \A slot \in Slots : store'[slot] = <<>>
        /\ store'.contractCurrent = <<>> /\ store'.contracts = <<>>
    BY <1>1, SlotNames
  <2>2. \A slot \in Slots : GotOK(store[slot])'
    BY <2>1 DEF GotOK
  <2>3. ContractWhole(store.contractCurrent)' /\ MilestonesListed(store.contracts)'
    BY <2>1 DEF ContractWhole, MilestonesListed
  <2> QED
    BY <2>1, <2>2, <2>3 DEF SlotsOK
<1> QED
  BY <1>3, <1>6, <1>7 DEF PagesOK, TasksOK, SlotsOK

\* The dialogs and the steps of the forms
LEMMA StepDialogs ==
    ASSUME PagesInv,
           \/ \E button \in Dialogs : OpenDialog(button)
           \/ SaveInvoiceStep \/ SaveContractStep \/ VerifyFileAgain
    PROVE  PagesOK'
<1>1. /\ UNCHANGED apiVars /\ UNCHANGED store /\ UNCHANGED task
      /\ UNCHANGED route /\ UNCHANGED visited
      /\ \/ route # None
         \/ dialog \in DOMAIN Saved \/ dialog \in {"success", "failed"}
  BY DEF OpenDialog, SaveInvoiceStep, SaveContractStep, VerifyFileAgain
<1>2. route # None \/ dialog # None
  BY <1>1, PageParameters DEF Saved, Steps, FileStatus
<1>3. TasksOK'
  BY <1>1, TasksStay DEF TasksOK
<1>4. RouteOK'
  BY <1>1, <1>2, RouteStays
<1> QED
  BY <1>1, <1>3, <1>4, AfterClick

\* The tab's own invariant is kept by every step.
LEMMA StepPages == PagesInv /\ [PageNext]_allVars => PagesInv'
<1> SUFFICES ASSUME PagesInv, [PageNext]_allVars PROVE PagesInv'
  OBVIOUS
<1>0. [ApiNext]_apiVars /\ ApiInv'
  BY StepIsRequest, StepApi DEF PagesInv
<1>1. ASSUME UNCHANGED pageVars PROVE PagesOK'
  <2>1. /\ UNCHANGED store /\ UNCHANGED task
        /\ UNCHANGED route /\ UNCHANGED visited /\ UNCHANGED dialog
    BY <1>1 DEF pageVars
  <2>2. TasksOK' /\ RouteOK'
    BY <1>0, <2>1, TasksStay, RouteStays DEF TasksOK
  <2> QED
    BY <1>0, <2>1, <2>2, AfterClick
<1>2. ASSUME \/ \E button \in Dialogs : OpenDialog(button)
             \/ SaveInvoiceStep \/ SaveContractStep \/ VerifyFileAgain
      PROVE  PagesOK'
  BY <1>2, StepDialogs
<1>3. ASSUME NEW t \in Tasks, Click(t) PROVE PagesOK'
  BY <1>0, <1>3, StepReload, StepVisit, StepSign, StepComplete, StepBuy, StepPrice, StepAdd,
     StepVerifyFile DEF Click
<1>4. ASSUME NEW form \in Unloaded, OpenForm(form) PROVE PagesOK'
  BY <1>4, StepOpenForm
<1>5. ASSUME NEW t \in Tasks, Runs(t) PROVE PagesOK'
  BY <1>5, StepRuns
<1>6. ASSUME UNCHANGED allVars PROVE PagesOK'
  <2>1. UNCHANGED pageVars
    BY <1>6 DEF allVars
  <2> QED
    BY <1>1, <2>1
<1>7. ASSUME PageNext PROVE PagesOK'
  <2>1. \/ UNCHANGED pageVars
        \/ \E form \in Unloaded : OpenForm(form)
        \/ \E button \in Dialogs : OpenDialog(button)
        \/ SaveInvoiceStep \/ SaveContractStep \/ VerifyFileAgain
        \/ \E t \in Tasks : Click(t)
        \/ \E t \in Tasks : Runs(t)
    BY <1>7, Zenon DEF PageNext
  <2> QED
    BY <2>1, <1>1, <1>2, <1>3, <1>4, <1>5, Zenon
<1>8. PagesOK'
  BY <1>6, <1>7
<1> QED
  BY <1>0, <1>8 DEF PagesInv

LEMMA InitPages == PageInit => PagesInv
<1> SUFFICES ASSUME PageInit PROVE PagesInv
  OBVIOUS
<1>1. ApiInv
  BY InitApi DEF PageInit
<1>2. /\ route = None /\ dialog = None /\ visited = {} /\ store = [slot \in Slots |-> <<>>]
      /\ task = [t \in Tasks |-> Idle]
  BY DEF PageInit
<1>3. GotOK(<<>>) /\ ContractWhole(<<>>) /\ MilestonesListed(<<>>)
  BY DEF GotOK, ContractWhole, MilestonesListed
<1>4. RouteOK
  BY <1>2 DEF RouteOK
<1> QED
  BY <1>1, <1>2, <1>3, <1>4, IdleOK, SlotNames DEF PagesInv, PagesOK

LEMMA PagesInvariant == PageSpec => []PagesInv
<1>1. PageInit => PagesInv
  BY InitPages
<1>2. PagesInv /\ [PageNext]_allVars => PagesInv'
  BY StepPages
<1> QED
  BY <1>1, <1>2, PTL DEF PageSpec

-----------------------------------------------------------------------------
(* Theorems                                                                  *)

\* The pages make only requests that the API answers, one at a time as a click sends them:
\* every behaviour of a tab is one of the backend, so that what is proved of the backend
\* holds behind every page (stores/contract.ts, invoice.ts and offer.ts).
THEOREM PagesAreClients == PageSpec => ApiSpec
<1>1. PageInit => ApiInit
  BY DEF PageInit
<1>2. PagesInv /\ [PageNext]_allVars => [ApiNext]_apiVars
  BY StepIsRequest
<1> QED
  BY <1>1, <1>2, PagesInvariant, PTL DEF PageSpec, ApiSpec

\* A true copy still holds of what it was made of.
LEMMA CopiesHold == ASSUME NEW item, NEW copy, CopyOK(item, copy) PROVE StillHolds(item, copy)
<1>1. item[1] \in {"contract", "milestone", "invoice", "offer", "reference"}
  BY DEF CopyOK, Present, Items
<1>2. CASE item[1] = "contract"
  BY <1>2 DEF StillHolds, CopyOK, ContractCopy, ContractGoesOn
<1>3. CASE item[1] = "milestone"
  BY <1>3 DEF StillHolds, CopyOK, MilestoneCopy, MilestoneGoesOn
<1>4. CASE item[1] = "invoice"
  BY <1>4 DEF StillHolds, CopyOK, InvoiceCopy, InvoiceGoesOn
<1>5. CASE item[1] = "offer"
  BY <1>5 DEF StillHolds, CopyOK, OfferCopy, OfferGoesOn
<1>6. CASE item[1] = "reference"
  BY <1>6 DEF StillHolds, CopyOK, ReferenceSet
<1> QED
  BY <1>1, <1>2, <1>3, <1>4, <1>5, <1>6

\* Only a part that is the whole makes a hundred per cent of it.
LEMMA HundredPercent ==
    ASSUME NEW S, IsFiniteSet(S), NEW T \in SUBSET S,
           (Cardinality(T) * 100) \div Cardinality(S) = 100
    PROVE  T = S
<1> DEFINE n == Cardinality(S)
           k == Cardinality(T)
<1>1. n \in Nat /\ k \in Nat /\ k <= n /\ IsFiniteSet(T) /\ (k = n => T = S)
  BY FS_CardinalityType, FS_Subset
<1>2. CASE n = 0
  BY <1>1, <1>2
<1>3. CASE n # 0
  <2> HIDE DEF n, k
  <2>1. n \in Nat \ {0} /\ k \in Nat /\ (k * 100) \div n = 100
    BY <1>1, <1>3 DEF n, k
  <2>2. k * 100 >= n * 100
    BY <2>1
  <2>3. k >= n
    BY <2>1, <2>2
  <2> QED
    BY <1>1, <2>1, <2>3
<1> QED
  BY <1>2, <1>3

\* A milestone whose copy was reached has been reached.
LEMMA ReachedStays ==
    ASSUME Started, NEW m \in DOMAIN milestone, NEW copy, MilestoneCopy(copy, milestone[m]),
           copy.state # "created"
    PROVE  milestone[m].state # "created"
<1>1. copy \in Milestone /\ milestone[m] \in Milestone /\ MilestoneGoesOn(copy, milestone[m])
  BY DEF Started, MilestoneCopy
<1>2. Rank[copy.state] > 0 /\ Rank[copy.state] \in Nat /\ Rank[milestone[m].state] \in Nat
  BY <1>1, Ranks
<1>3. Rank[milestone[m].state] > 0
  BY <1>1, <1>2 DEF MilestoneGoesOn
<1> QED
  BY <1>1, <1>3, Ranks

\* A contract that is listed as complete is complete.
LEMMA CompleteIsComplete ==
    ASSUME ApiInv, NEW got, GotOK(got), MilestonesListed(got),
           NEW c \in Ids(got, "contract"), CompletionPercentage(got, c) = 100,
           NEW m \in contract[c].milestones
    PROVE  milestone[m].state # "created"
<1> DEFINE ms == got[<<"contract", c>>].milestones
           completed == {n \in ms : got[<<"milestone", n>>].state \in {"reached", "closed"}}
<1>0. Started /\ HeapsOK /\ GoodsCovered
  BY Known, Typed
<1>1. /\ c \in DOMAIN contract /\ c \in Contracts /\ <<"contract", c>> \in DOMAIN got
      /\ ContractCopy(got[<<"contract", c>>], contract[c])
  <2>1. PICK item \in DOMAIN got : item[1] = "contract" /\ item[2] = c
    BY DEF Ids
  <2>2. item = <<"contract", c>> /\ CopyOK(item, got[item])
    BY <2>1 DEF GotOK, CopyOK, Present, Items
  <2> QED
    BY <2>1, <2>2, PageIds DEF CopyOK, Present
<1>2. ms = contract[c].milestones
  BY <1>0, <1>1 DEF ContractCopy, ContractGoesOn, Contract, Started
<1>3. m \in DOMAIN milestone /\ contract[c].milestones \subseteq Milestones
  BY <1>0, <1>1 DEF GoodsCovered, HeapsOK, HeapOK
<1>4. IsFiniteSet(ms)
  BY <1>2, <1>3, FiniteMilestones, FS_Subset
<1>5. (Cardinality(completed) * 100) \div Cardinality(ms) = 100
  BY <1>2 DEF CompletionPercentage
<1>6. completed = ms
  <2>1. completed \in SUBSET ms
    OBVIOUS
  <2> HIDE DEF ms, completed
  <2> QED
    BY <1>4, <1>5, <2>1, HundredPercent
<1>7. PICK it : it = <<"milestone", m>>
  OBVIOUS
<1>8. it \in DOMAIN got /\ got[it].state # "created"
  BY <1>1, <1>2, <1>6, <1>7 DEF MilestonesListed
<1>9. it[1] = "milestone" /\ it[2] = m
  BY <1>7
<1>10. MilestoneCopy(got[it], milestone[m])
  BY <1>8, <1>9 DEF GotOK, CopyOK
<1> QED
  BY <1>0, <1>3, <1>8, <1>10, ReachedStays

\* However late its answer arrived and whatever ran between its reads, what a page shows as
\* done is done, a contract that is listed as complete is complete, and a file that is
\* answered to be authentic says what an issued invoice says (ContractHandler.kt:106-136 and
\* 257-284, OfferHandler.kt:131-144, stores/offer.ts:88-95, InvoiceHandler.kt:138-200).
THEOREM PagesShowWhatHappened == PageSpec => []ShownHasHappened
<1>1. PagesInv => ShownHasHappened
  <2> SUFFICES ASSUME PagesInv PROVE ShownHasHappened
    OBVIOUS
  <2>1. \A slot \in Slots : GotOK(store[slot])
    BY DEF PagesInv, PagesOK
  <2>2. MilestonesListed(store.contracts) /\ ApiInv /\ GotOK(store.contracts)
    BY <2>1, SlotNames DEF PagesInv, PagesOK
  <2>3. \A slot \in Slots : \A item \in DOMAIN store[slot] : StillHolds(item, store[slot][item])
    BY <2>1, CopiesHold DEF GotOK
  <2>4. ASSUME NEW row \in ContractRows(store.contracts), row.completionPercentage = 100,
               NEW m \in contract[row.uuid].milestones
        PROVE  milestone[m].state # "created"
    <3>1. /\ row.uuid \in Ids(store.contracts, "contract")
          /\ CompletionPercentage(store.contracts, row.uuid) = 100
      BY <2>4, RowsOfAnswer
    <3> QED
      BY <2>2, <2>4, <3>1, CompleteIsComplete
  <2>5. \A t \in Tasks : Is(t, "success") => Authentic(task[t].about)
    BY DEF PagesInv, PagesOK, TaskOK, Is
  <2> QED
    BY <2>3, <2>4, <2>5 DEF ShownHasHappened
<1> QED
  BY <1>1, PagesInvariant, PTL

\* Every blockchain reference a page shows leads to a document on IPFS that says what the
\* invoice says, although the reference, the invoice and the milestone of one page are read
\* at different times (Milestone.kt:12-18, InvoiceHandler.kt:203-216,
\* OfferHandler.kt:131-144).
THEOREM PagesShowStoredReferences == PageSpec => []ShownReferencesAreStored
<1>1. PagesInv => ShownReferencesAreStored
  <2> SUFFICES ASSUME PagesInv, NEW slot \in Slots
               PROVE  LET got == store[slot]
                      IN  /\ \A inv \in Held(got, "invoice") :
                                inv.blockchainRef => Content(inv) \in ipfs
                          /\ \A m \in Milestones :
                                <<"reference", m>> \in DOMAIN got /\ got[<<"reference", m>>]
                                   => Content(invoice[milestone[m].originalInvoice]) \in ipfs
    BY DEF ShownReferencesAreStored
  <2>0. PICK got : got = store[slot]
    OBVIOUS
  <2>1. GotOK(got) /\ StoredRefs /\ MilestoneInvoicesAgree
    BY <2>0, Known DEF PagesInv, PagesOK, ApiInv
  <2>2. ASSUME NEW item \in DOMAIN got, item[1] = "invoice", got[item].blockchainRef
        PROVE  Content(got[item]) \in ipfs
    <3>1. item[2] \in DOMAIN invoice /\ InvoiceGoesOn(got[item], invoice[item[2]])
      BY <2>1, <2>2 DEF GotOK, CopyOK, Present, InvoiceCopy
    <3> QED
      BY <2>1, <2>2, <3>1 DEF InvoiceGoesOn, StoredRefs
  <2>3. ASSUME NEW m \in Milestones, NEW item \in DOMAIN got, item = <<"reference", m>>,
               got[item]
        PROVE  Content(invoice[milestone[m].originalInvoice]) \in ipfs
    <3>1. item[1] = "reference" /\ item[2] = m
      BY <2>3
    <3>2. m \in DOMAIN milestone /\ ReferenceSet(m)
      BY <2>1, <2>3, <3>1 DEF GotOK, CopyOK, Present
    <3>3. milestone[m].originalInvoice \in DOMAIN invoice
      BY <2>1, <3>2 DEF ReferenceSet, MilestoneInvoicesAgree
    <3> QED
      BY <2>1, <3>2, <3>3 DEF ReferenceSet, StoredRefs
  <2>4. \A inv \in Held(got, "invoice") : inv.blockchainRef => Content(inv) \in ipfs
    BY <2>2 DEF Held
  <2> QED
    BY <2>0, <2>3, <2>4
<1> QED
  BY <1>1, PagesInvariant, PTL

\* An answer of which everything is read
LEMMA AllRead ==
    ASSUME PagesInv, NEW t \in Tasks, Is(t, "read"), task[t].todo = <<>>, NEW q, q = task[t]
    PROVE  /\ ReadOK(q) /\ ActionOK(q) /\ PageOK(q.page) /\ q.step = "read"
           /\ Range(q.todo) = {}
           /\ \A item : Comes(q, item) => item \in DOMAIN q.got
<1>1. /\ ReadOK(q) /\ ActionOK(q) /\ PageOK(q.page) /\ q.step = "read"
  BY DEF PagesInv, PagesOK, TaskOK, Is
<1>2. Range(q.todo) = {}
  BY DEF Range
<1> QED
  BY <1>1, <1>2 DEF Comes

\* Whoever signs a contract, completes a milestone, buys an offer or issues an invoice is
\* answered with a page that shows it (stores/contract.ts:135-142, stores/offer.ts:96-99,
\* stores/invoice.ts:76-79).
THEOREM PagesShowTheChange == PageSpec => []LoadShowsTheChange
<1>1. PagesInv => LoadShowsTheChange
  <2> SUFFICES ASSUME PagesInv, NEW t \in Tasks, Is(t, "read"), task[t].todo = <<>>
               PROVE  LET got == task[t].got
                          about == task[t].about
                      IN  /\ task[t].action = "sign" =>
                                got[<<"contract", about>>].state = "creationFinalised"
                          /\ task[t].action = "complete" =>
                                /\ got[<<"milestone", about>>].state = "reached"
                                /\ IncludeIpfs => got[<<"reference", about>>]
                                /\ got[<<"contract", task[t].page[2]>>].state
                                      = "creationFinalised"
                          /\ task[t].action = "buy" =>
                                /\ <<"offer", about>> \in DOMAIN got
                                /\ got[<<"offer", about>>].offerBuyer = User
                          /\ task[t].action = "addInvoice" =>
                                LET inv == got[<<"invoice", task[t].page[2]>>]
                                IN  /\ inv.state \in {"finalised", "paid"}
                                    /\ IncludeIpfs => inv.blockchainRef
    BY DEF LoadShowsTheChange, InvoiceView
  <2>0. PICK q : q = task[t]
    OBVIOUS
  <2>1. /\ ReadOK(q) /\ ActionOK(q) /\ PageOK(q.page) /\ q.step = "read"
        /\ \A item : Comes(q, item) => item \in DOMAIN q.got
        /\ Started
    BY <2>0, AllRead, Known, Typed DEF PagesInv
  <2>2. \A item \in DOMAIN q.got :
           /\ CopyOK(item, q.got[item]) /\ CopyFits(q, item, q.got[item])
           /\ FitsTogether(q, item, q.got[item])
    BY <2>1 DEF ReadOK
  <2>3. ASSUME q.page[1] \in {"contract", "invoice"}
        PROVE  /\ q.page \in DOMAIN q.got /\ q.page = <<q.page[1], q.page[2]>>
               /\ Present(q.page)
    <3>1. q.page \in Protocols /\ Present(q.page)
      BY <2>1, <2>3, PageProtocol
    <3>2. q.page = <<q.page[1], q.page[2]>>
      BY <3>1 DEF Protocols
    <3> QED
      BY <2>1, <3>1, <3>2 DEF ReadOK
  <2>4. ASSUME q.action \in {"sign", "complete"}, q.page[1] = "contract"
        PROVE  /\ q.got[q.page].state = "creationFinalised"
               /\ q.got[q.page].milestones = contract[q.page[2]].milestones
    <3>1. /\ q.page \in DOMAIN q.got /\ q.page[2] \in DOMAIN contract
          /\ ContractCopy(q.got[q.page], contract[q.page[2]])
          /\ q.got[q.page].state # "createdBySupplier"
      BY <2>2, <2>3, <2>4 DEF CopyOK, Present, CopyFits
    <3>2. contract[q.page[2]] \in Contract
      BY <2>1, <3>1 DEF Started
    <3> QED
      BY <3>1, <3>2 DEF ContractCopy, ContractGoesOn, Contract
  <2>5. ASSUME q.action = "sign"
        PROVE  q.got[<<"contract", q.about>>].state = "creationFinalised"
    <3>1. q.page = <<"contract", q.about>>
      BY <2>1, <2>5 DEF ActionOK
    <3>2. q.page[1] = "contract"
      BY <3>1
    <3> QED
      BY <2>4, <2>5, <3>1, <3>2
  <2>6. ASSUME q.action = "complete"
        PROVE  /\ q.got[<<"milestone", q.about>>].state = "reached"
               /\ IncludeIpfs => q.got[<<"reference", q.about>>]
               /\ q.got[<<"contract", q.page[2]>>].state = "creationFinalised"
    <3>1. q.page[1] = "contract" /\ q.about \in contract[q.page[2]].milestones
      BY <2>1, <2>6 DEF ActionOK
    <3>2. PICK ms : ms = <<"milestone", q.about>>
      OBVIOUS
    <3>3. PICK ref : ref = <<"reference", q.about>>
      OBVIOUS
    <3>4. ms \in DOMAIN q.got /\ ref \in DOMAIN q.got
      <4>1. ContractFits(q, q.got[q.page])
        BY <2>2, <2>3, <3>1 DEF FitsTogether
      <4>2. q.about \in q.got[q.page].milestones
        BY <2>4, <2>6, <3>1
      <4> QED
        BY <2>1, <3>2, <3>3, <4>1, <4>2 DEF ContractFits
    <3>5. MilestoneCopy(q.got[ms], milestone[q.about]) /\ q.got[ms].state # "created"
      <4>1. ms[1] = "milestone" /\ ms[2] = q.about
        BY <3>2
      <4> QED
        BY <2>2, <2>6, <3>2, <3>4, <4>1 DEF CopyOK, CopyFits
    <3>6. q.got[ms].state = "reached"
      BY <3>5 DEF MilestoneCopy, Milestone
    <3>7. IncludeIpfs => q.got[ref]
      BY <2>2, <2>6, <3>3, <3>4 DEF CopyFits
    <3>8. q.got[<<"contract", q.page[2]>>].state = "creationFinalised"
      BY <2>3, <2>4, <2>6, <3>1
    <3> QED
      BY <3>2, <3>3, <3>6, <3>7, <3>8
  <2>7. ASSUME q.action = "buy"
        PROVE  /\ <<"offer", q.about>> \in DOMAIN q.got
               /\ q.got[<<"offer", q.about>>].offerBuyer = User
    <3>1. PICK item : item = <<"offer", q.about>>
      OBVIOUS
    <3>2. item \in DOMAIN q.got /\ item[1] = "offer"
      BY <2>1, <2>7, <3>1 DEF ReadOK
    <3>3. q.page[1] = "portfolio"
      BY <2>1, <2>7 DEF ActionOK
    <3> QED
      BY <2>2, <3>1, <3>2, <3>3 DEF CopyFits, Purchased
  <2>8. ASSUME q.action = "addInvoice"
        PROVE  LET inv == q.got[<<"invoice", q.page[2]>>]
               IN  inv.state \in {"finalised", "paid"} /\ (IncludeIpfs => inv.blockchainRef)
    <3>1. q.page[1] = "invoice"
      BY <2>1, <2>8 DEF ActionOK
    <3>2. q.page \in DOMAIN q.got /\ q.page = <<"invoice", q.page[2]>>
      BY <2>3, <3>1
    <3>3. InvoiceCopy(q.got[q.page], invoice[q.page[2]]) /\ q.got[q.page].state # "created"
      BY <2>2, <2>8, <3>1, <3>2 DEF CopyOK, CopyFits
    <3> QED
      BY <3>2, <3>3 DEF InvoiceCopy, Invoice
  <2> QED
    BY <2>0, <2>5, <2>6, <2>7, <2>8
<1> QED
  BY <1>1, PagesInvariant, PTL

\* The protocols of one answer fit together, although each is read at a time of its own
\* (OfferHandler.kt:131-144, InvoiceHandler.kt:203-216).
THEOREM PagesFitTogether == PageSpec => []AnswersFitTogether
<1>1. PagesInv => AnswersFitTogether
  <2> SUFFICES ASSUME PagesInv, NEW t \in Tasks, Is(t, "read"), task[t].todo = <<>>,
                      NEW item \in DOMAIN task[t].got
               PROVE  LET got == task[t].got
                      IN  /\ item[1] = "offer" =>
                                LET inv == got[<<"invoice", item[2]>>]
                                IN  /\ inv.state # "created"
                                    /\ IncludeIpfs => inv.blockchainRef
                                    /\ got[item].state = "bought" => inv.state = "paid"
                                    /\ task[t].page[1] = "portfolio" =>
                                          /\ got[item].state = "bought"
                                          /\ got[item].offerBuyer = User
                          /\ (/\ task[t].page[1] \in {"invoices", "invoice"}
                              /\ item[1] = "invoice" /\ got[item].milestone # None) =>
                                LET m == got[item].milestone
                                IN  /\ got[<<"milestone", m>>].state # "created"
                                    /\ got[item].blockchainRef => got[<<"reference", m>>]
    BY DEF AnswersFitTogether
  <2>0. PICK q : q = task[t]
    OBVIOUS
  <2>1. /\ ReadOK(q) /\ Range(q.todo) = {} /\ item \in DOMAIN q.got
    BY <2>0, AllRead
  <2>2. \A it \in DOMAIN q.got :
           /\ CopyOK(it, q.got[it]) /\ CopyFits(q, it, q.got[it])
           /\ FitsTogether(q, it, q.got[it])
    BY <2>1 DEF ReadOK
  <2>3. ASSUME item[1] = "offer"
        PROVE  LET inv == q.got[<<"invoice", item[2]>>]
               IN  /\ inv.state # "created"
                   /\ IncludeIpfs => inv.blockchainRef
                   /\ q.got[item].state = "bought" => inv.state = "paid"
                   /\ q.page[1] = "portfolio" =>
                         q.got[item].state = "bought" /\ q.got[item].offerBuyer = User
    <3>1. PICK it : it = <<"invoice", item[2]>>
      OBVIOUS
    <3>2. OfferFits(q, item[2], q.got[item])
      BY <2>1, <2>2, <2>3 DEF FitsTogether
    <3>3. /\ it \in DOMAIN q.got /\ q.got[it].state # "created"
          /\ q.got[item].state = "bought" => q.got[it].state = "paid"
      BY <2>1, <3>1, <3>2 DEF OfferFits
    <3>4. it[1] = "invoice"
      BY <3>1
    <3>5. IncludeIpfs => q.got[it].blockchainRef
      BY <2>2, <3>3, <3>4 DEF CopyOK, InvoiceCopy
    <3>6. q.page[1] = "portfolio" => Purchased(q.got[item])
      BY <2>1, <2>2, <2>3 DEF CopyFits
    <3> QED
      BY <3>1, <3>3, <3>5, <3>6 DEF Purchased
  <2>4. ASSUME q.page[1] \in {"invoices", "invoice"}, item[1] = "invoice",
               q.got[item].milestone # None
        PROVE  LET m == q.got[item].milestone
               IN  /\ q.got[<<"milestone", m>>].state # "created"
                   /\ q.got[item].blockchainRef => q.got[<<"reference", m>>]
    <3>1. InvoiceFits(q, q.got[item])
      BY <2>1, <2>2, <2>4 DEF FitsTogether
    <3> QED
      BY <2>1, <3>1 DEF InvoiceFits
  <2> QED
    BY <2>0, <2>3, <2>4
<1> QED
  BY <1>1, PagesInvariant, PTL
=============================================================================
