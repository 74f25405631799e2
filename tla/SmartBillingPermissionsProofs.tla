-------------------- MODULE SmartBillingPermissionsProofs --------------------
(* What the smart contracts guarantee when the platform records payments and   *)
(* suppliers decide late whether to trade, for every value of the constants.   *)
EXTENDS SmartBillingPermissions, SmartBillingProofs

-----------------------------------------------------------------------------
(* Types                                                                       *)

LEMMA PayParticipants ==
    ASSUME TypeOK, NEW i, Pay(i)
    PROVE  /\ HeapOK(participant', Participants, Participant)
           /\ DOMAIN participant' = DOMAIN participant
           /\ \A p \in DOMAIN participant :
                 /\ participant'[p].paymentDetails = participant[p].paymentDetails
                 /\ participant'[p].issuedInvoices = participant[p].issuedInvoices
<1>1. HeapOK(participant, Participants, Participant)
  BY DEF TypeOK, HeapsOK
<1>2. participant' = [q \in DOMAIN participant |-> ParticipantAfterPay(q, i)]
  BY DEF Pay
<1>3. ASSUME NEW q \in DOMAIN participant
      PROVE  /\ ParticipantAfterPay(q, i) \in Participant
             /\ ParticipantAfterPay(q, i).paymentDetails = participant[q].paymentDetails
             /\ ParticipantAfterPay(q, i).issuedInvoices = participant[q].issuedInvoices
  <2>1. participant[q] \in Participant
    BY <1>1 DEF HeapOK
  <2> QED
    BY <2>1, RaisedType DEF ParticipantAfterPay, Participant
<1> QED
  BY <1>1, <1>2, <1>3 DEF HeapOK

\* What a payment by the debtor changes of invoices, milestones and contracts
LEMMA PayFrame ==
    ASSUME TypeOK, NEW i, Pay(i)
    PROVE  /\ SameInvoices
           /\ SameContracts /\ DOMAIN contract' = DOMAIN contract
           /\ SameMilestones
           /\ HeapOK(invoice', Invoices, Invoice)
           /\ HeapOK(contract', Contracts, Contract)
           /\ HeapOK(milestone', Milestones, Milestone)
<1>0. HeapsOK /\ i \in DOMAIN invoice /\ CanPay(i)
  BY DEF TypeOK, Pay
<1>1. SameInvoices /\ HeapOK(invoice', Invoices, Invoice)
  BY <1>0 DEF Pay, SameInvoices, HeapsOK, HeapOK, Invoice
<1>2. SameContracts /\ DOMAIN contract' = DOMAIN contract /\ HeapOK(contract', Contracts, Contract)
  <2>1. \/ contract' = contract
        \/ \E c \in DOMAIN contract : contract' = [contract EXCEPT ![c].state = "closed"]
    BY <1>0, PayContracts DEF Pay
  <2> QED
    BY <1>0, <2>1 DEF SameContracts, HeapsOK, HeapOK, Contract
<1>3. SameMilestones /\ HeapOK(milestone', Milestones, Milestone)
  <2>1. \/ milestone' = milestone
        \/ \E m \in DOMAIN milestone :
              /\ milestone[m].state = "reached"
              /\ milestone' = [milestone EXCEPT ![m].state = "closed"]
    BY <1>0, PayMilestones DEF Pay
  <2> QED
    BY <1>0, <2>1 DEF SameMilestones, HeapsOK, HeapOK, Milestone
<1> QED
  BY <1>1, <1>2, <1>3

\* What a late decision to trade changes of milestones
LEMMA TreadableFrame ==
    ASSUME TypeOK, NEW m, NEW t \in BOOLEAN, ChangeTreadable(m, t)
    PROVE  /\ SameMilestones
           /\ HeapOK(milestone', Milestones, Milestone)
<1>1. /\ HeapOK(milestone, Milestones, Milestone)
      /\ m \in DOMAIN milestone
      /\ milestone' = [milestone EXCEPT ![m].details.invoiceToTrade = t]
  BY DEF TypeOK, HeapsOK, ChangeTreadable
<1> DEFINE new == [milestone[m] EXCEPT !.details.invoiceToTrade = t]
<1>2. /\ new \in Milestone
      /\ new.contract = milestone[m].contract
      /\ new.due = milestone[m].due
      /\ new.originalInvoice = milestone[m].originalInvoice
      /\ new.details.amount = milestone[m].details.amount
      /\ new.state = milestone[m].state
  <2>1. milestone[m] \in Milestone
    BY <1>1 DEF HeapOK
  <2>2. /\ [milestone[m].details EXCEPT !.invoiceToTrade = t] \in MilestoneDetails
        /\ [milestone[m].details EXCEPT !.invoiceToTrade = t].amount
              = milestone[m].details.amount
    BY <2>1 DEF Milestone, MilestoneDetails
  <2> QED
    BY <2>1, <2>2 DEF Milestone
<1>3. milestone' = [milestone EXCEPT ![m] = new]
  BY <1>1
<1> HIDE DEF new
<1> QED
  BY <1>1, <1>2, <1>3 DEF SameMilestones, HeapOK

LEMMA StepPermissionType == TypeOK /\ [NextPermission]_vars => TypeOK'
<1> SUFFICES ASSUME TypeOK, [NextPermission]_vars PROVE TypeOK'
  OBVIOUS
<1>1. ASSUME NEW i \in Invoices, Pay(i) PROVE TypeOK'
  <2>1. UNCHANGED participants /\ UNCHANGED offer
    BY <1>1 DEF Pay
  <2> QED
    BY <1>1, <2>1, PayFrame, PayParticipants
    DEF TypeOK, HeapsOK, ReferencesOK, SameInvoices, SameContracts, SameMilestones
<1>2. ASSUME NEW m \in Milestones, NEW t \in BOOLEAN, ChangeTreadable(m, t) PROVE TypeOK'
  <2>1. UNCHANGED <<participants, participant, contract, invoice, offer>>
    BY <1>2 DEF ChangeTreadable
  <2> QED
    BY <1>2, <2>1, TreadableFrame DEF TypeOK, HeapsOK, ReferencesOK, SameMilestones
<1> QED
  BY <1>1, <1>2, StepType DEF NextPermission

\* The heaps stay well typed under the demos' permissions, too.
THEOREM PermissionTypeCorrect == PermissionSpec => []TypeOK
  BY InitType, StepPermissionType, PTL DEF PermissionSpec

-----------------------------------------------------------------------------
(* Billing: neither permission disturbs BillingInv.                            *)

LEMMA StepPermissionBilling == BillingInv /\ [NextPermission]_vars => BillingInv'
<1> SUFFICES ASSUME BillingInv, [NextPermission]_vars PROVE BillingInv'
  OBVIOUS
<1>0. RegistryInv /\ TypeOK /\ TypeOK'
  BY StepPermissionType DEF BillingInv, RegistryInv
<1>1. ASSUME NEW i \in Invoices, Pay(i) PROVE BillingInv'
  <2>1. SameInvoices /\ SameContracts /\ SameMilestones /\ DOMAIN contract' = DOMAIN contract
    BY <1>0, <1>1, PayFrame
  <2>2. SameRegistries
    BY <1>0, <1>1, <2>1, PayParticipants DEF SameRegistries, SameInvoices, SameContracts
  <2> QED
    BY <1>0, <2>1, <2>2, FrameRegistries, BillingFrame DEF BillingInv, RegistryInv
<1>2. ASSUME NEW m \in Milestones, NEW t \in BOOLEAN, ChangeTreadable(m, t) PROVE BillingInv'
  <2>1. UNCHANGED <<participants, participant, contract, invoice, offer>>
    BY <1>2 DEF ChangeTreadable
  <2>2. SameMilestones
    BY <1>0, <1>2, TreadableFrame
  <2>3. SameRegistries /\ SameInvoices /\ SameContracts
    BY <2>1 DEF SameRegistries, SameInvoices, SameContracts
  <2> QED
    BY <1>0, <2>2, <2>3, FrameRegistries, BillingFrame DEF BillingInv, RegistryInv
<1> QED
  BY <1>1, <1>2, StepBilling DEF NextPermission

\* An invoice drawn for a milestone says what the contract says, although the debtor's
\* payments close milestones and suppliers change their minds (milestone.npl:44-102).
THEOREM PaidMilestonesAreBilledAsAgreed == PermissionSpec => []MilestoneInvoicesAgree
<1>1. BillingInv => MilestoneInvoicesAgree
  BY DEF BillingInv
<1> QED
  BY <1>1, InitBilling, StepPermissionBilling, PTL DEF PermissionSpec

-----------------------------------------------------------------------------
(* Value and track records: payments by debtors count, and cost nothing.       *)

LEMMA StepPermissionValue == ValueInv /\ [NextPermission]_vars => ValueInv'
<1> SUFFICES ASSUME ValueInv, [NextPermission]_vars PROVE ValueInv'
  OBVIOUS
<1>0. BillingInv' /\ TypeOK /\ GoodsCovered
  BY StepPermissionBilling DEF ValueInv, BillingInv, RegistryInv
<1>1. ASSUME NEW i \in Invoices, Pay(i) PROVE ValueInv'
  BY <1>0, <1>1, PayWorth, WorthFrame DEF Pay, ValueInv
<1>2. ASSUME NEW m \in Milestones, NEW t \in BOOLEAN, ChangeTreadable(m, t) PROVE ValueInv'
  <2>1. SameMilestones /\ UNCHANGED contract
    BY <1>0, <1>2, TreadableFrame DEF ChangeTreadable
  <2>2. SameWorth
    BY <2>1 DEF SameMilestones, SameWorth
  <2> QED
    BY <1>0, <2>2, WorthFrame DEF ValueInv
<1> QED
  BY <1>1, <1>2, StepValue DEF NextPermission

\* Nor does a debtor's payment, or a late decision to trade, change what the bills of a
\* contract add up to (participant.npl:63-68, milestone.npl:44-46).
THEOREM PaidBillsCoverGoods == PermissionSpec => []BillsAddUpToGoods
  BY InitValue, StepPermissionValue, BillsAddUp, PTL DEF PermissionSpec

LEMMA StepPermissionCount == CountInv /\ [NextPermission]_vars => CountInv'
<1> SUFFICES ASSUME CountInv, [NextPermission]_vars PROVE CountInv'
  OBVIOUS
<1>0. TypeOK' /\ TypeOK
  BY StepPermissionType DEF CountInv
<1>1. ASSUME NEW i \in Invoices, Pay(i) PROVE CountInv'
  <2>1. participant' = [q \in DOMAIN participant |-> ParticipantAfterPay(q, i)]
    BY <1>1 DEF Pay
  <2> QED
    BY <1>0, <1>1, <2>1, PayCounts DEF Pay, CountInv
<1>2. ASSUME NEW m \in Milestones, NEW t \in BOOLEAN, ChangeTreadable(m, t) PROVE CountInv'
  <2>1. UNCHANGED invoice /\ UNCHANGED participant
    BY <1>2 DEF ChangeTreadable
  <2>2. NothingCounted
    BY <2>1 DEF NothingCounted
  <2> QED
    BY <1>0, <2>2, CountFrame DEF CountInv
<1> QED
  BY <1>1, <1>2, StepCount DEF NextPermission

\* A payment by the debtor raises its supplier's track record once, as a purchase of the
\* offer does, and only one of the two can happen (invoice.npl:65-72).
THEOREM EitherPaymentCounts == PermissionSpec => []TrackRecordCountsPayments
<1>1. CountInv => TrackRecordCountsPayments
  BY DEF CountInv
<1> QED
  BY <1>1, InitCount, StepPermissionCount, PTL DEF PermissionSpec

-----------------------------------------------------------------------------
(* Closing: a milestone and the payment of its invoice.                        *)

ClosingInv == TypeOK /\ ClosedWhenInvoicePaid

\* A step that neither pays an invoice nor closes a milestone
NothingPaid ==
    /\ DOMAIN invoice \subseteq DOMAIN invoice'
    /\ \A i \in DOMAIN invoice :
          /\ invoice'[i].milestone = invoice[i].milestone
          /\ invoice'[i].toBeTraded = invoice[i].toBeTraded
          /\ invoice'[i].state = "paid" <=> invoice[i].state = "paid"
    /\ \A i \in DOMAIN invoice' \ DOMAIN invoice : invoice'[i].state # "paid"
    /\ DOMAIN milestone \subseteq DOMAIN milestone'
    /\ \A m \in DOMAIN milestone :
          milestone'[m].state = "closed" <=> milestone[m].state = "closed"
    /\ \A m \in DOMAIN milestone' \ DOMAIN milestone : milestone'[m].state # "closed"

LEMMA ClosingFrame ==
    ASSUME ClosingInv, NothingPaid, None \notin DOMAIN milestone'
    PROVE  ClosedWhenInvoicePaid'
<1>1. ASSUME NEW m \in DOMAIN milestone',
             NEW i \in DOMAIN invoice', invoice'[i].milestone = m,
             ~invoice'[i].toBeTraded, invoice'[i].state = "paid"
      PROVE  milestone'[m].state = "closed"
  BY <1>1 DEF ClosingInv, TypeOK, ReferencesOK, ClosedWhenInvoicePaid, NothingPaid
<1>2. ASSUME NEW m \in DOMAIN milestone', milestone'[m].state = "closed"
      PROVE  \E i \in DOMAIN invoice' : /\ invoice'[i].milestone = m
                                        /\ ~invoice'[i].toBeTraded
                                        /\ invoice'[i].state = "paid"
  BY <1>2 DEF ClosingInv, ClosedWhenInvoicePaid, NothingPaid
<1> QED
  BY <1>1, <1>2 DEF ClosedWhenInvoicePaid

\* Whichever way an invoice is paid, its milestone closes with it.
LEMMA PayCloses ==
    ASSUME ClosingInv, NEW i \in DOMAIN invoice, CanPay(i),
           invoice' = [invoice EXCEPT ![i].state = "paid"],
           milestone' = MilestonesAfterPay(i)
    PROVE  ClosedWhenInvoicePaid'
<1>0. HeapsOK /\ ReferencesOK
  BY DEF ClosingInv, TypeOK
<1>1. /\ DOMAIN invoice' = DOMAIN invoice
      /\ \A j \in DOMAIN invoice :
            /\ invoice'[j].milestone = invoice[j].milestone
            /\ invoice'[j].toBeTraded = invoice[j].toBeTraded
            /\ invoice'[j].state = IF j = i THEN "paid" ELSE invoice[j].state
  BY <1>0 DEF HeapsOK, HeapOK, Invoice
<1>2. /\ DOMAIN milestone' = DOMAIN milestone
      /\ \A m \in DOMAIN milestone :
            milestone'[m].state = IF ClosesMilestone(i) /\ m = invoice[i].milestone
                                  THEN "closed" ELSE milestone[m].state
  BY <1>0 DEF MilestonesAfterPay, HeapsOK, HeapOK, Milestone
<1>3. invoice[i].state # "paid"
  BY DEF CanPay
<1>4. ASSUME NEW m \in DOMAIN milestone
      PROVE  milestone'[m].state = "closed" <=>
                \E j \in DOMAIN invoice' : /\ invoice'[j].milestone = m
                                           /\ ~invoice'[j].toBeTraded
                                           /\ invoice'[j].state = "paid"
  <2>1. milestone[m].state = "closed" <=>
           \E j \in DOMAIN invoice : /\ invoice[j].milestone = m
                                     /\ ~invoice[j].toBeTraded
                                     /\ invoice[j].state = "paid"
    BY DEF ClosingInv, ClosedWhenInvoicePaid
  <2>2. m # None
    BY <1>0, NoneIsDistinct DEF HeapsOK, HeapOK
  <2>3. CASE ClosesMilestone(i) /\ m = invoice[i].milestone
    BY <1>1, <1>2, <2>3 DEF ClosesMilestone
  <2>4. CASE ~(ClosesMilestone(i) /\ m = invoice[i].milestone)
    BY <1>1, <1>2, <1>3, <2>1, <2>2, <2>4 DEF ClosesMilestone
  <2> QED
    BY <2>3, <2>4
<1> QED
  BY <1>2, <1>4 DEF ClosedWhenInvoicePaid

LEMMA StepClosing == ClosingInv /\ [NextPermission]_vars => ClosingInv'
<1> SUFFICES ASSUME ClosingInv, [NextPermission]_vars PROVE ClosedWhenInvoicePaid'
  BY StepPermissionType DEF ClosingInv
<1>0. TypeOK /\ HeapsOK /\ ReferencesOK /\ None \notin DOMAIN milestone'
  BY StepPermissionType, NoneIsDistinct DEF ClosingInv, TypeOK, HeapsOK, HeapOK
<1>1. ASSUME NEW p \in Participants, NEW c \in Contracts, NEW g \in Amounts,
             NEW ms \in SUBSET Milestones, NEW inputs \in [ms -> MilestoneInputs],
             CreateContract(p, c, inputs, g)
      PROVE  NothingPaid
  <2>1. /\ DOMAIN milestone' = DOMAIN milestone \cup ms
        /\ \A m \in ms : milestone'[m].state = "created"
        /\ \A m \in DOMAIN milestone : milestone'[m] = milestone[m]
        /\ UNCHANGED invoice
    BY <1>1 DEF CreateContract
  <2> QED
    BY <2>1 DEF NothingPaid
<1>2. ASSUME NEW m \in Milestones, NEW ask \in Asks, UpdateOfferAmount(m, ask)
      PROVE  NothingPaid
  BY <1>0, <1>2 DEF UpdateOfferAmount, NothingPaid, HeapsOK, HeapOK, Milestone
<1>3. ASSUME NEW m \in Milestones, NEW due \in Documents, MilestoneReached(m, due)
      PROVE  NothingPaid
  BY <1>0, <1>3 DEF MilestoneReached, NothingPaid, HeapsOK, HeapOK, Milestone
<1>4. ASSUME NEW i, NEW inv, NewInvoice(i, inv), inv.state = "created",
             \/ UNCHANGED milestone
             \/ \E m \in DOMAIN milestone :
                   milestone' = [milestone EXCEPT ![m].originalInvoice = i]
      PROVE  NothingPaid
  <2>1. /\ DOMAIN invoice' = DOMAIN invoice \cup {i}
        /\ i \notin DOMAIN invoice /\ invoice'[i] = inv
        /\ \A j \in DOMAIN invoice : invoice'[j] = invoice[j]
    BY <1>4 DEF NewInvoice, Create
  <2>2. /\ DOMAIN milestone' = DOMAIN milestone
        /\ \A m \in DOMAIN milestone : milestone'[m].state = milestone[m].state
    BY <1>0, <1>4 DEF HeapsOK, HeapOK, Milestone
  <2> QED
    BY <1>4, <2>1, <2>2 DEF NothingPaid
<1>5. ASSUME NEW m \in Milestones, NEW i \in Invoices, NEW doc \in Documents,
             NEW amount, NEW creditor \in PaymentDetails,
             CreateOriginalInvoice(m, i, doc, amount, creditor)
      PROVE  NothingPaid
  BY <1>4, <1>5 DEF CreateOriginalInvoice, OriginalInvoice
<1>6. ASSUME NEW p \in Participants, NEW i \in Invoices, NEW doc \in Documents,
             NEW amount \in Amounts, NEW creditor \in PaymentDetails,
             NEW trade \in BOOLEAN, NEW ask \in Option(Asks),
             CreateNewInvoice(p, i, doc, amount, creditor, trade, ask)
      PROVE  NothingPaid
  BY <1>4, <1>6 DEF CreateNewInvoice, IndependentInvoice
<1>7. ASSUME NEW i \in Invoices, SetBlockChainRef(i) \/ FinaliseInvoice(i)
      PROVE  NothingPaid
  BY <1>0, <1>7 DEF SetBlockChainRef, FinaliseInvoice, NothingPaid, HeapsOK, HeapOK, Invoice
<1>8. ASSUME NEW p \in Participants, NEW i \in Invoices, BuyOffer(p, i)
      PROVE  ClosedWhenInvoicePaid'
  <2>1. i \in DOMAIN invoice
    BY <1>0, <1>8 DEF BuyOffer, IsOpen, HeapsOK, HeapOK
  <2> QED
    BY <1>8, <2>1, PayCloses DEF BuyOffer
<1>9. ASSUME NEW i \in Invoices, Pay(i) PROVE ClosedWhenInvoicePaid'
  BY <1>9, PayCloses DEF Pay
<1>10. ASSUME NEW m \in Milestones, NEW t \in BOOLEAN, ChangeTreadable(m, t)
       PROVE  NothingPaid
  BY <1>0, <1>10 DEF ChangeTreadable, NothingPaid, HeapsOK, HeapOK, Milestone
<1>11. CASE UNCHANGED <<invoice, milestone>>
  BY <1>11 DEF ClosingInv, ClosedWhenInvoicePaid
<1>12. NothingPaid => ClosedWhenInvoicePaid'
  BY <1>0, ClosingFrame
<1> QED
  BY <1>1, <1>2, <1>3, <1>5, <1>6, <1>7, <1>8, <1>9, <1>10, <1>11, <1>12
  DEF NextPermission, Next, vars, CreateParticipant, FinaliseCreation, UpdateOfferPrice

\* A milestone closes with the payment of its invoice and by nothing else, whether the
\* debtor pays or a buyer does (invoice.npl:65-72, milestone.npl:104-113).
THEOREM MilestonesCloseWhenPaid == PermissionSpec => []ClosedWhenInvoicePaid
<1>1. Init => ClosingInv
  BY InitType DEF Init, ClosingInv, ClosedWhenInvoicePaid
<1>2. ClosingInv => ClosedWhenInvoicePaid
  BY DEF ClosingInv
<1> QED
  BY <1>1, <1>2, StepClosing, PTL DEF PermissionSpec

-----------------------------------------------------------------------------
(* Payments                                                                    *)

LEMMA StepPaid ==
    ASSUME TypeOK, [NextPermission]_vars, NEW i \in DOMAIN invoice, invoice[i].state = "paid"
    PROVE  /\ i \in DOMAIN invoice' /\ invoice'[i] = invoice[i]
           /\ i \in DOMAIN offer => offer'[i].offerBuyer = offer[i].offerBuyer
<1> DEFINE Stands == /\ i \in DOMAIN invoice' /\ invoice'[i] = invoice[i]
                     /\ i \in DOMAIN offer => offer'[i].offerBuyer = offer[i].offerBuyer
<1>0. HeapsOK
  BY DEF TypeOK
<1>1. ASSUME NEW j, NEW inv, NewInvoice(j, inv), UNCHANGED offer PROVE Stands
  BY <1>1 DEF NewInvoice, Create
<1>2. ASSUME NEW j \in Invoices, SetBlockChainRef(j) PROVE Stands
  BY <1>0, <1>2 DEF SetBlockChainRef, HeapsOK, HeapOK
<1>3. ASSUME NEW j \in Invoices, FinaliseInvoice(j) PROVE Stands
  BY <1>0, <1>3 DEF FinaliseInvoice, Create, HeapsOK, HeapOK
<1>4. ASSUME NEW p \in Participants, NEW j \in Invoices, BuyOffer(p, j) PROVE Stands
  BY <1>0, <1>4 DEF BuyOffer, CanPay, HeapsOK, HeapOK
<1>5. ASSUME NEW p \in Participants, NEW j \in Invoices, NEW ask \in Asks,
             UpdateOfferPrice(p, j, ask.amount)
      PROVE  Stands
  BY <1>0, <1>5 DEF UpdateOfferPrice, HeapsOK, HeapOK, Offer
<1>6. ASSUME NEW j \in Invoices, Pay(j) PROVE Stands
  BY <1>0, <1>6 DEF Pay, CanPay, HeapsOK, HeapOK
<1>7. ASSUME UNCHANGED invoice, UNCHANGED offer PROVE Stands
  BY <1>7
<1> HIDE DEF Stands
<1>8. ASSUME NEW m \in Milestones, NEW j \in Invoices, NEW doc \in Documents,
             NEW amount, NEW creditor \in PaymentDetails,
             CreateOriginalInvoice(m, j, doc, amount, creditor)
      PROVE  Stands
  BY <1>1, <1>8 DEF CreateOriginalInvoice
<1>9. ASSUME NEW p \in Participants, NEW j \in Invoices, NEW doc \in Documents,
             NEW amount \in Amounts, NEW creditor \in PaymentDetails,
             NEW trade \in BOOLEAN, NEW ask \in Option(Asks),
             CreateNewInvoice(p, j, doc, amount, creditor, trade, ask)
      PROVE  Stands
  BY <1>1, <1>9 DEF CreateNewInvoice
<1>10. ASSUME NEW p \in Participants, NEW c \in Contracts, NEW g \in Amounts,
              NEW ms \in SUBSET Milestones, NEW inputs \in [ms -> MilestoneInputs],
              CreateContract(p, c, inputs, g)
       PROVE  Stands
  BY <1>7, <1>10 DEF CreateContract
<1>11. Stands
  BY <1>2, <1>3, <1>4, <1>5, <1>6, <1>7, <1>8, <1>9, <1>10
  DEF NextPermission, Next, vars, CreateParticipant, FinaliseCreation,
      UpdateOfferAmount, MilestoneReached, ChangeTreadable
<1> QED
  BY <1>11 DEF Stands

\* Of the debtor's payment and a sale that race, the second is refused, and no invoice is
\* paid twice (invoice.npl:65, offer.npl:44-48).
THEOREM PaidInvoicesAreNotSold == PermissionSpec => NoSaleAfterPayment
<1>1. TypeOK /\ [NextPermission]_vars =>
         [\A i \in DOMAIN invoice : invoice[i].state = "paid" =>
             /\ i \in DOMAIN invoice' /\ invoice'[i] = invoice[i]
             /\ i \in DOMAIN offer => offer'[i].offerBuyer = offer[i].offerBuyer]_vars
  BY StepPaid
<1> QED
  BY <1>1, InitType, StepPermissionType, PTL DEF PermissionSpec, NoSaleAfterPayment

\* What a finalised invoice says is not changed by its payment either (invoice.npl:47-72).
THEOREM PaidInvoicesStand == PermissionSpec => FinalisedInvoicesAreImmutable
<1>1. ASSUME TypeOK, [NextPermission]_vars, NEW i \in DOMAIN invoice, invoice[i].state # "created"
      PROVE  KeptInvoice(i)
  <2>1. HeapsOK
    BY <1>1 DEF TypeOK
  <2>2. ASSUME NEW j \in Invoices, Pay(j) PROVE KeptInvoice(i)
    BY <1>1, <2>1, <2>2 DEF Pay, KeptInvoice, HeapsOK, HeapOK, Invoice
  <2>3. ASSUME NEW m \in Milestones, NEW t \in BOOLEAN, ChangeTreadable(m, t)
        PROVE  KeptInvoice(i)
    BY <1>1, <2>1, <2>3 DEF ChangeTreadable, KeptInvoice, HeapsOK, HeapOK, Invoice
  <2> QED
    BY <1>1, <2>2, <2>3, StepFinalised DEF NextPermission
<1>2. TypeOK /\ [NextPermission]_vars =>
         [\A i \in DOMAIN invoice : invoice[i].state # "created" =>
             /\ i \in DOMAIN invoice'
             /\ invoice'[i] = [invoice[i] EXCEPT !.state = invoice'[i].state]
             /\ invoice'[i].state # "created"]_vars
  BY <1>1 DEF KeptInvoice
<1> QED
  BY <1>2, InitType, StepPermissionType, PTL DEF PermissionSpec, FinalisedInvoicesAreImmutable
=============================================================================
