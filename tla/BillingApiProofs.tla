--------------------------- MODULE BillingApiProofs ---------------------------
(***************************************************************************)
(* The billing handlers drive the smart contracts by their transactions    *)
(* only, so what SmartBilling guarantees holds of the whole backend, with  *)
(* requests interleaved and failing as they may.  And, request by request: *)
(* invoices finalised are published, answers are true, and what is half    *)
(* made was left by a failure.                                             *)
(***************************************************************************)
EXTENDS BillingApi, SmartBillingProofs

RequestsOK ==
    /\ request \in [Requests -> Request]
    /\ ipfs \subseteq InvoiceRequest
    /\ \A r \in Requests :
          /\ At(r, "create") => request[r].invoiceRequest \in PostedRequest
          /\ At(r, "bill") \/ At(r, "upload") => request[r].invoiceRequest # None
          /\ At(r, "read") => /\ request[r].from \in DOMAIN milestone
                              /\ milestone[request[r].from].due # None

\* Every step of the backend is one transaction of the smart contracts, or none.
LEMMA StepIsTransaction == RequestsOK /\ TypeOK /\ [ApiNext]_apiVars => [Next]_vars
<1> SUFFICES ASSUME RequestsOK, TypeOK, ApiNext PROVE Next \/ UNCHANGED vars
  BY DEF apiVars, vars
<1>0. HeapsOK /\ ReferencesOK
  BY DEF TypeOK
<1>1. CASE OtherRequest
  BY <1>1 DEF OtherRequest, RegisterRequest, ContractRequest, SignRequest, MilestonePriceRequest,
              PurchaseRequest, OfferPriceRequest, Next
<1>2. ASSUME NEW r \in Requests, Post(r) \/ Fail(r) PROVE UNCHANGED vars
  BY <1>2 DEF Post, PostInvoice, PostClosure, Fail
<1>3. ASSUME NEW r \in Requests, Proceed(r) PROVE Next \/ UNCHANGED vars
  <2>1. CASE CreateInvoice(r)
    <3> DEFINE p == request[r].from
               req == request[r].invoiceRequest
    <3>1. PICK i \in Invoices : CreateNewInvoice(p, i, req.document, req.amount,
                                   req.creditorData, req.toBeTraded, req.offerAmount)
      BY <2>1 DEF CreateInvoice
    <3>2. req \in PostedRequest
      BY <2>1 DEF CreateInvoice, RequestsOK
    <3>3. p \in Participants
      BY <1>0, <3>1 DEF CreateNewInvoice, HeapsOK, HeapOK
    <3>4. /\ req.document \in Documents /\ req.amount \in Amounts
          /\ req.creditorData \in PaymentDetails /\ req.toBeTraded \in BOOLEAN
          /\ req.offerAmount \in Option(Asks)
      BY <3>2 DEF PostedRequest
    <3> HIDE DEF p, req
    <3> QED
      BY <3>1, <3>3, <3>4 DEF Next
  <2>2. CASE ReachMilestone(r)
    <3>1. PICK due \in Documents : MilestoneReached(request[r].from, due)
      BY <2>2 DEF ReachMilestone
    <3>2. request[r].from \in Milestones
      BY <1>0, <3>1 DEF MilestoneReached, HeapsOK, HeapOK
    <3> QED
      BY <3>1, <3>2 DEF Next
  <2>3. CASE BillMilestone(r)
    <3> DEFINE m == request[r].from
               req == request[r].invoiceRequest
    <3>1. PICK i \in Invoices : CreateOriginalInvoice(m, i, req.document, req.amount,
                                                      req.creditorData)
      BY <2>3 DEF BillMilestone
    <3>0. req.document \in Documents
      BY <2>3 DEF BillMilestone, RequestsOK, Request, InvoiceRequest, Option
    <3> HIDE DEF m, req
    <3>2. /\ m \in DOMAIN milestone
          /\ milestone[m].due # None
          /\ req.amount = milestone[m].details.amount
          /\ req.creditorData = contract[milestone[m].contract].supplierDetails
      BY <3>1 DEF CreateOriginalInvoice, CorrectInvoiceData
    <3>3. /\ m \in Milestones
          /\ milestone[m] \in Milestone
          /\ contract[milestone[m].contract] \in Contract
      BY <1>0, <3>2 DEF HeapsOK, HeapOK, ReferencesOK
    <3>4. req.document \in Documents /\ req.creditorData \in PaymentDetails
      BY <3>0, <3>2, <3>3 DEF Contract
    <3> QED
      BY <3>1, <3>2, <3>3, <3>4 DEF Next
  <2>4. CASE Refer(r)
    <3>1. SetBlockChainRef(request[r].invoice)
      BY <2>4 DEF Refer
    <3>2. request[r].invoice \in Invoices
      BY <1>0, <3>1 DEF SetBlockChainRef, HeapsOK, HeapOK
    <3> QED
      BY <3>1, <3>2 DEF Next
  <2>5. CASE Finalise(r)
    <3>1. FinaliseInvoice(request[r].invoice)
      BY <2>5 DEF Finalise
    <3>2. request[r].invoice \in Invoices
      BY <1>0, <3>1 DEF FinaliseInvoice, HeapsOK, HeapOK
    <3> QED
      BY <3>1, <3>2 DEF Next
  <2> QED
    BY <1>3, <2>1, <2>2, <2>3, <2>4, <2>5
    DEF Proceed, InvoiceRefused, ReachRefused, ReadMilestone, BillRefused, Upload, Respond
<1> QED
  BY <1>1, <1>2, <1>3 DEF ApiNext

LEMMA InitRequests == ApiInit => RequestsOK
  BY DEF ApiInit, RequestsOK, Request, Option, At

\* The document a milestone is due is never taken back.
LEMMA DueStays ==
    ASSUME TypeOK, [Next]_vars, NEW m \in DOMAIN milestone, milestone[m].due # None
    PROVE  m \in DOMAIN milestone' /\ milestone'[m].due # None
<1>0. HeapOK(milestone, Milestones, Milestone)
  BY DEF TypeOK, HeapsOK
<1>1. ASSUME NEW p, NEW c, NEW inputs, NEW g, CreateContract(p, c, inputs, g)
      PROVE  m \in DOMAIN milestone' /\ milestone'[m].due # None
  BY <1>1 DEF CreateContract
<1>2. ASSUME NEW x \in Milestones, NEW due \in Documents, MilestoneReached(x, due)
      PROVE  m \in DOMAIN milestone' /\ milestone'[m].due # None
  BY <1>0, <1>2, NoneIsDistinct DEF MilestoneReached, HeapOK, Milestone
<1>3. ASSUME NEW x, NEW ask, UpdateOfferAmount(x, ask)
      PROVE  m \in DOMAIN milestone' /\ milestone'[m].due # None
  BY <1>0, <1>3 DEF UpdateOfferAmount, HeapOK, Milestone
<1>4. ASSUME NEW x, NEW i, NEW doc, NEW amount, NEW creditor,
             CreateOriginalInvoice(x, i, doc, amount, creditor)
      PROVE  m \in DOMAIN milestone' /\ milestone'[m].due # None
  BY <1>0, <1>4 DEF CreateOriginalInvoice, HeapOK, Milestone
<1>5. ASSUME NEW p, NEW i, BuyOffer(p, i)
      PROVE  m \in DOMAIN milestone' /\ milestone'[m].due # None
  BY <1>0, <1>5 DEF BuyOffer, MilestonesAfterPay, HeapOK, Milestone
<1>6. CASE UNCHANGED milestone
  BY <1>6
<1> QED
  BY <1>1, <1>2, <1>3, <1>4, <1>5, <1>6
  DEF Next, vars, CreateParticipant, FinaliseCreation, CreateNewInvoice, SetBlockChainRef,
      FinaliseInvoice, UpdateOfferPrice

\* A request that only moves on, and to no step with a claim of its own, keeps
\* the claims of all requests.
LEMMA MovesOn ==
    ASSUME RequestsOK, TypeOK, [Next]_vars, NEW r \in Requests,
           NEW to \in (InFlight \cup Ended) \ {"create", "read", "bill", "upload"},
           Goto(r, to), UNCHANGED ipfs
    PROVE  RequestsOK'
<1>1. request' = [request EXCEPT ![r].step = to]
  BY DEF Goto
<1>2. request' \in [Requests -> Request]
  BY <1>1 DEF RequestsOK, Request
<1>3. \A q \in Requests : q # r => request'[q] = request[q]
  BY <1>1 DEF RequestsOK
<1>4. request'[r].step = to
  BY <1>1 DEF RequestsOK, Request
<1> QED
  BY <1>2, <1>3, <1>4, DueStays DEF RequestsOK, At

LEMMA StepRequests == RequestsOK /\ TypeOK /\ [ApiNext]_apiVars => RequestsOK'
<1> SUFFICES ASSUME RequestsOK, TypeOK, [ApiNext]_apiVars PROVE RequestsOK'
  OBVIOUS
<1>0. HeapsOK /\ ReferencesOK /\ [Next]_vars
  BY StepIsTransaction DEF TypeOK
<1>a. ASSUME NEW r \in Requests, NEW new \in Request, request' = [request EXCEPT ![r] = new],
             new.step = "create" => new.invoiceRequest \in PostedRequest,
             new.step \in {"bill", "upload"} => new.invoiceRequest # None,
             new.step # "read", UNCHANGED ipfs
      PROVE  RequestsOK'
  <2>1. request'[r] = new /\ \A q \in Requests : q # r => request'[q] = request[q]
    BY <1>a DEF RequestsOK
  <2>2. request' \in [Requests -> Request]
    BY <1>a DEF RequestsOK
  <2> QED
    BY <1>0, <1>a, <2>1, <2>2, DueStays DEF RequestsOK, At
<1>1. CASE OtherRequest
  <2>1. UNCHANGED request /\ UNCHANGED ipfs
    BY <1>1 DEF OtherRequest
  <2> QED
    BY <1>0, <2>1, DueStays DEF RequestsOK, At
<1>2. ASSUME NEW r \in Requests, Post(r) PROVE RequestsOK'
  <2>0. request[r] \in Request
    BY DEF RequestsOK
  <2>1. ASSUME NEW p \in Participants, NEW req \in PostedRequest, PostInvoice(r, p, req)
        PROVE  RequestsOK'
    <3> DEFINE new == [request[r] EXCEPT !.step = "create", !.from = p, !.invoiceRequest = req]
    <3>1. req \in InvoiceRequest
      BY Parameters DEF PostedRequest, InvoiceRequest, Option
    <3>2. new \in Request /\ new.step = "create" /\ new.invoiceRequest = req
      BY <2>0, <3>1 DEF Request, Option, InFlight
    <3>3. request' = [request EXCEPT ![r] = new] /\ UNCHANGED ipfs
      BY <2>1 DEF PostInvoice
    <3> HIDE DEF new
    <3> QED
      BY <1>a, <3>2, <3>3
  <2>2. ASSUME NEW m \in Milestones, PostClosure(r, m) PROVE RequestsOK'
    <3> DEFINE new == [request[r] EXCEPT !.step = "reach", !.from = m]
    <3>1. new \in Request /\ new.step = "reach"
      BY <2>0 DEF Request, Option, InFlight
    <3>2. request' = [request EXCEPT ![r] = new] /\ UNCHANGED ipfs
      BY <2>2 DEF PostClosure
    <3> HIDE DEF new
    <3> QED
      BY <1>a, <3>1, <3>2
  <2> QED
    BY <1>2, <2>1, <2>2 DEF Post
<1>3. ASSUME NEW r \in Requests, Proceed(r) PROVE RequestsOK'
  <2>0. request[r] \in Request
    BY DEF RequestsOK
  <2>1. ASSUME NEW i \in Invoices, Created(r, i), request[r].invoiceRequest # None,
               UNCHANGED ipfs
        PROVE  RequestsOK'
    <3> DEFINE to == IF IncludeIpfs THEN "upload" ELSE "finalise"
               new == [request[r] EXCEPT !.invoice = i, !.step = to]
    <3>1. /\ new \in Request /\ new.step \in {"upload", "finalise"}
          /\ new.invoiceRequest = request[r].invoiceRequest
      BY <2>0 DEF Request, Option, InFlight
    <3>2. request' = [request EXCEPT ![r] = new]
      BY <2>1 DEF Created
    <3> HIDE DEF new
    <3> QED
      BY <1>a, <2>1, <3>1, <3>2
  <2>2. CASE CreateInvoice(r)
    <3>1. request[r].invoiceRequest # None
      BY <2>2, ApiNoneIsDistinct, Parameters
      DEF CreateInvoice, RequestsOK, PostedRequest, InvoiceRequest, Option
    <3> QED
      BY <2>1, <2>2, <3>1 DEF CreateInvoice
  <2>3. CASE BillMilestone(r)
    <3>1. request[r].invoiceRequest # None
      BY <2>3 DEF BillMilestone, RequestsOK
    <3> QED
      BY <2>1, <2>3, <3>1 DEF BillMilestone
  <2>4. CASE ReadMilestone(r)
    <3> DEFINE ms == milestone[request[r].from]
               req == [document |-> ms.due, amount |-> ms.details.amount,
                       creditorData |-> participant[contract[ms.contract].supplier].paymentDetails,
                       toBeTraded |-> ms.details.invoiceToTrade,
                       offerAmount |-> ms.details.offerAmount]
               new == [request[r] EXCEPT !.step = "bill", !.invoiceRequest = req]
    <3>1. ms \in Milestone /\ ms.due # None /\ ms.contract \in DOMAIN contract
      BY <1>0, <2>4 DEF ReadMilestone, RequestsOK, HeapsOK, HeapOK, ReferencesOK
    <3>2. participant[contract[ms.contract].supplier] \in Participant
      BY <1>0, <3>1 DEF HeapsOK, HeapOK, ReferencesOK
    <3>3. req \in InvoiceRequest
      BY <3>1, <3>2 DEF InvoiceRequest, Milestone, MilestoneDetails, Participant, Option
    <3>4. request' = [request EXCEPT ![r] = new] /\ UNCHANGED ipfs
      BY <2>4 DEF ReadMilestone
    <3> HIDE DEF req
    <3>5. new \in Request /\ new.step = "bill" /\ new.invoiceRequest # None
      BY <2>0, <3>3, ApiNoneIsDistinct DEF Request, Option, InFlight
    <3> HIDE DEF new
    <3> QED
      BY <1>a, <3>4, <3>5
  <2>5. CASE ReachMilestone(r)
    <3>1. PICK due \in Documents : MilestoneReached(request[r].from, due)
      BY <2>5 DEF ReachMilestone
    <3>2. /\ request[r].from \in DOMAIN milestone'
          /\ milestone'[request[r].from].due # None
      BY <1>0, <3>1, NoneIsDistinct DEF MilestoneReached, HeapsOK, HeapOK, Milestone
    <3> DEFINE new == [request[r] EXCEPT !.step = "read"]
    <3>3. new \in Request /\ new.step = "read" /\ new.from = request[r].from
      BY <2>0 DEF Request, InFlight
    <3>4. request' = [request EXCEPT ![r] = new] /\ UNCHANGED ipfs
      BY <2>5 DEF ReachMilestone, Goto
    <3> HIDE DEF new
    <3>5. request'[r] = new /\ \A q \in Requests : q # r => request'[q] = request[q]
      BY <3>4 DEF RequestsOK
    <3>6. request' \in [Requests -> Request]
      BY <3>3, <3>4 DEF RequestsOK
    <3> QED
      BY <1>0, <3>2, <3>3, <3>4, <3>5, <3>6, DueStays DEF RequestsOK, At
  <2>6. CASE Upload(r)
    <3> DEFINE new == [request[r] EXCEPT !.step = "refer"]
    <3>1. new \in Request /\ new.step = "refer"
      BY <2>0 DEF Request, InFlight
    <3>2. request' = [request EXCEPT ![r] = new]
      BY <2>6 DEF Upload, Goto
    <3>3. request[r].invoiceRequest \in InvoiceRequest
      BY <2>6 DEF Upload, RequestsOK, Request, Option
    <3>4. ipfs' \subseteq InvoiceRequest
      BY <2>6, <3>3 DEF Upload, RequestsOK
    <3> HIDE DEF new
    <3>5. request'[r] = new /\ \A q \in Requests : q # r => request'[q] = request[q]
      BY <3>2 DEF RequestsOK
    <3>6. request' \in [Requests -> Request]
      BY <3>1, <3>2 DEF RequestsOK
    <3> QED
      BY <1>0, <3>1, <3>4, <3>5, <3>6, DueStays DEF RequestsOK, At
  <2>7. ASSUME NEW to \in {"refused", "finalise", "respond", "ok"}, Goto(r, to),
               UNCHANGED ipfs
        PROVE  RequestsOK'
    BY <1>0, <2>7, MovesOn DEF InFlight, Ended
  <2> QED
    BY <1>3, <2>2, <2>3, <2>4, <2>5, <2>6, <2>7
    DEF Proceed, InvoiceRefused, ReachRefused, BillRefused, Refer, Finalise, Respond
<1>4. ASSUME NEW r \in Requests, Fail(r) PROVE RequestsOK'
  BY <1>0, <1>4, MovesOn DEF Fail, Ended
<1>5. CASE UNCHANGED apiVars
  <2>1. UNCHANGED request /\ UNCHANGED ipfs
    BY <1>5 DEF apiVars
  <2> QED
    BY <1>0, <2>1, DueStays DEF RequestsOK, At
<1> QED
  BY <1>1, <1>2, <1>3, <1>4, <1>5 DEF ApiNext

LEMMA BackendInvariant == ApiSpec => [](RequestsOK /\ TypeOK)
<1>1. ApiInit => RequestsOK /\ TypeOK
  BY InitRequests, InitType DEF ApiInit
<1>2. RequestsOK /\ TypeOK /\ [ApiNext]_apiVars => RequestsOK' /\ TypeOK'
  BY StepRequests, StepIsTransaction, StepType
<1> QED
  BY <1>1, <1>2, PTL DEF ApiSpec

\* The heaps and the handlers' locals are well typed: in particular, a handler
\* that reads a milestone it has reached finds the dates it dereferences set
\* (ContractHandler.kt:206-207).
THEOREM BackendTypeCorrect == ApiSpec => []ApiTypeOK
<1>1. RequestsOK /\ TypeOK => ApiTypeOK
  BY DEF RequestsOK, ApiTypeOK
<1> QED
  BY <1>1, BackendInvariant, PTL

\* The backend implements the specification of the smart contracts.
THEOREM BackendImplementsContracts == ApiSpec => Spec
<1>1. ApiInit => Init
  BY DEF ApiInit
<1>2. RequestsOK /\ TypeOK /\ [ApiNext]_apiVars => [Next]_vars
  BY StepIsTransaction
<1> QED
  BY <1>1, <1>2, BackendInvariant, PTL DEF ApiSpec, Spec

\* So every invoice the handlers register is confirmed, however requests
\* interleave and fail, while no two participants share payment details.
THEOREM BackendInvoicesAreAuthentic == ApiSpec => []VerifyWhenDetailsUnique
  BY BackendImplementsContracts, RegisteredInvoicesAreAuthentic, PTL

-----------------------------------------------------------------------------
(* What a handler knows                                                      *)

\* A handler that has reached its milestone and is yet to bill it
Claims(q) == q.step \in {"read", "bill"}

Past(milestones, m) == m \in DOMAIN milestones /\ milestones[m].state # "created"

\* What the locals q of one handler say of invoices, milestones and IPFS
LocalsOK(q, invoices, milestones, stored) ==
    /\ q.step \in {"unsent", "create", "reach", "read", "bill", "refused"} => q.invoice = None
    /\ q.invoice # None => q.invoice \in DOMAIN invoices
    /\ q.step \in {"upload", "refer", "finalise", "respond", "ok"} =>
          /\ q.invoice # None
          /\ Content(invoices[q.invoice]) = q.invoiceRequest
          /\ invoices[q.invoice].state = "created" <=> q.step \notin {"respond", "ok"}
    /\ Claims(q) => Past(milestones, q.from)
    /\ q.step = "bill" =>
          /\ q.invoiceRequest.toBeTraded = milestones[q.from].details.invoiceToTrade
          /\ q.invoiceRequest.offerAmount = milestones[q.from].details.offerAmount
    /\ IncludeIpfs =>
          /\ q.step \in {"refer", "finalise"} => q.invoiceRequest \in stored
          /\ q.step = "finalise" => invoices[q.invoice].blockchainRef

\* Every invoice is the work of one handler.
Ownership ==
    /\ \A r, s \in Requests :
          request[r].invoice = request[s].invoice /\ request[r].invoice # None => r = s
    /\ \A i \in DOMAIN invoice : \E r \in Requests : request[r].invoice = i

\* A milestone is billed by the one handler that reached it.
ClaimsOK ==
    /\ \A r, s \in Requests :
          Claims(request[r]) /\ Claims(request[s]) /\ request[r].from = request[s].from => r = s
    /\ \A r \in Requests : Claims(request[r]) =>
          \A i \in DOMAIN invoice : invoice[i].milestone # request[r].from
    /\ \A i \in DOMAIN invoice :
          invoice[i].milestone # None => Past(milestone, invoice[i].milestone)
    /\ MilestoneBilledOnce

HandlerInv ==
    /\ \A r \in Requests : LocalsOK(request[r], invoice, milestone, ipfs)
    /\ Ownership
    /\ ClaimsOK
    /\ FinalisedIsPublished
    /\ \A i \in DOMAIN invoice : invoice[i].state # "traded"

-----------------------------------------------------------------------------
(* Steps that leave the invoices' contents alone                             *)

\* Invoice i says what it said, and was not finalised.
Kept(i) ==
    /\ i \in DOMAIN invoice'
    /\ Content(invoice'[i]) = Content(invoice[i])
    /\ invoice'[i].milestone = invoice[i].milestone
    /\ invoice[i].blockchainRef => invoice'[i].blockchainRef
    /\ invoice'[i].state = "created" <=> invoice[i].state = "created"
    /\ invoice'[i].state # "traded"

SharedKept ==
    /\ DOMAIN invoice' = DOMAIN invoice
    /\ \A i \in DOMAIN invoice : Kept(i)

\* A milestone that is reached keeps its details.

MilestonesKept ==
    \A m \in DOMAIN milestone : Past(milestone, m) =>
        Past(milestone', m) /\ milestone'[m].details = milestone[m].details

\* A request whose handler does nothing knows what it knew.
LEMMA OthersKnow ==
    ASSUME HandlerInv, MilestonesKept, ipfs \subseteq ipfs',
           NEW s \in Requests, request'[s] = request[s],
           request[s].invoice # None => Kept(request[s].invoice)
    PROVE  LocalsOK(request'[s], invoice', milestone', ipfs')
<1>1. LocalsOK(request[s], invoice, milestone, ipfs)
  BY DEF HandlerInv
<1> DEFINE q == request[s]
<1>3. q.invoice # None => Kept(q.invoice)
  OBVIOUS
<1>2. LocalsOK(q, invoice', milestone', ipfs')
  <2>1. LocalsOK(q, invoice, milestone, ipfs)
    BY <1>1
  <2>2. Claims(q) => Past(milestone', q.from)
    BY <2>1 DEF LocalsOK, MilestonesKept, Past
  <2>3. q.step = "bill" => milestone'[q.from].details = milestone[q.from].details
    BY <2>1 DEF LocalsOK, MilestonesKept, Past, Claims
  <2> HIDE DEF q
  <2> QED
    BY <1>3, <2>1, <2>2, <2>3 DEF LocalsOK, Kept
<1> QED
  BY <1>2

LEMMA LocalsPointToInvoices ==
    HandlerInv => \A s \in Requests :
        request[s].invoice # None => request[s].invoice \in DOMAIN invoice
  BY DEF HandlerInv, LocalsOK

LEMMA SharedFrame ==
    ASSUME HandlerInv, SharedKept, MilestonesKept, ipfs \subseteq ipfs'
    PROVE  /\ FinalisedIsPublished'
           /\ \A i \in DOMAIN invoice' :
                 /\ invoice'[i].state # "traded"
                 /\ invoice'[i].milestone # None => Past(milestone', invoice'[i].milestone)
           /\ MilestoneBilledOnce'
<1>1. FinalisedIsPublished'
  BY DEF HandlerInv, SharedKept, Kept, FinalisedIsPublished
<1>2. \A i \in DOMAIN invoice' :
         /\ invoice'[i].state # "traded"
         /\ invoice'[i].milestone # None => Past(milestone', invoice'[i].milestone)
  BY DEF HandlerInv, SharedKept, Kept, ClaimsOK, MilestonesKept, Past
<1>3. MilestoneBilledOnce'
  BY DEF HandlerInv, SharedKept, Kept, ClaimsOK, MilestoneBilledOnce
<1> QED
  BY <1>1, <1>2, <1>3

\* The handler of r moves on with the same invoice and lays no new claim.
LEMMA HandlerMoves ==
    ASSUME HandlerInv, SharedKept, MilestonesKept, ipfs \subseteq ipfs',
           NEW r \in Requests, \A s \in Requests : s # r => request'[s] = request[s],
           request'[r].invoice = request[r].invoice,
           LocalsOK(request'[r], invoice', milestone', ipfs'),
           Claims(request'[r]) => Claims(request[r]) /\ request'[r].from = request[r].from
    PROVE  HandlerInv'
<1>1. \A s \in Requests : LocalsOK(request'[s], invoice', milestone', ipfs')
  BY OthersKnow, LocalsPointToInvoices DEF SharedKept
<1>2. \A s \in Requests :
         /\ request'[s].invoice = request[s].invoice
         /\ Claims(request'[s]) => Claims(request[s]) /\ request'[s].from = request[s].from
  OBVIOUS
<1>3. Ownership'
  BY <1>2 DEF HandlerInv, Ownership, SharedKept
<1>4. ClaimsOK'
  BY <1>2, SharedFrame DEF HandlerInv, ClaimsOK, SharedKept, Kept
<1>5. FinalisedIsPublished' /\ \A i \in DOMAIN invoice' : invoice'[i].state # "traded"
  BY SharedFrame
<1> QED
  BY <1>1, <1>3, <1>4, <1>5 DEF HandlerInv

\* All handlers pause.
LEMMA HandlersPause ==
    ASSUME HandlerInv, SharedKept, MilestonesKept, UNCHANGED <<request, ipfs>>
    PROVE  HandlerInv'
<1>1. \A s \in Requests : LocalsOK(request'[s], invoice', milestone', ipfs')
  BY OthersKnow, LocalsPointToInvoices DEF SharedKept
<1>2. Ownership'
  BY DEF HandlerInv, Ownership, SharedKept
<1>3. ClaimsOK'
  BY SharedFrame DEF HandlerInv, ClaimsOK, SharedKept, Kept
<1>5. FinalisedIsPublished' /\ \A i \in DOMAIN invoice' : invoice'[i].state # "traded"
  BY SharedFrame
<1> QED
  BY <1>1, <1>2, <1>3, <1>5 DEF HandlerInv

LEMMA NoInvoiceChange ==
    ASSUME HandlerInv, UNCHANGED invoice PROVE SharedKept
  BY DEF HandlerInv, SharedKept, Kept

LEMMA NoMilestoneChange ==
    ASSUME UNCHANGED milestone PROVE MilestonesKept
  BY DEF MilestonesKept

-----------------------------------------------------------------------------
(* The transactions of other handlers, and reaching a milestone              *)

LEMMA OtherTransactions ==
    ASSUME HandlerInv, TypeOK, OtherRequest
    PROVE  SharedKept /\ MilestonesKept
<1>0. HeapsOK
  BY DEF TypeOK
<1>1. ASSUME NEW p \in Participants, NEW d \in PaymentDetails, CreateParticipant(p, d)
      PROVE  SharedKept /\ MilestonesKept
  BY <1>1, NoInvoiceChange, NoMilestoneChange DEF CreateParticipant
<1>2. ASSUME NEW p \in Participants, NEW c \in Contracts, NEW g \in Amounts,
             NEW ms \in SUBSET Milestones, NEW inputs \in [ms -> MilestoneInputs],
             CreateContract(p, c, inputs, g)
      PROVE  SharedKept /\ MilestonesKept
  <2>1. MilestonesKept
    BY <1>2 DEF CreateContract, MilestonesKept, Past
  <2> QED
    BY <1>2, <2>1, NoInvoiceChange DEF CreateContract
<1>3. ASSUME NEW c \in Contracts, FinaliseCreation(c) PROVE SharedKept /\ MilestonesKept
  BY <1>3, NoInvoiceChange, NoMilestoneChange DEF FinaliseCreation
<1>4. ASSUME NEW m \in Milestones, NEW ask \in Asks, UpdateOfferAmount(m, ask)
      PROVE  SharedKept /\ MilestonesKept
  <2>1. MilestonesKept
    BY <1>0, <1>4 DEF UpdateOfferAmount, MilestonesKept, Past, HeapsOK, HeapOK
  <2> QED
    BY <1>4, <2>1, NoInvoiceChange DEF UpdateOfferAmount
<1>5. ASSUME NEW p \in Participants, NEW i \in Invoices, BuyOffer(p, i)
      PROVE  SharedKept /\ MilestonesKept
  <2>1. i \in DOMAIN invoice /\ invoice[i].state \in {"finalised", "traded"}
    BY <1>0, <1>5 DEF BuyOffer, IsOpen, CanPay, HeapsOK, HeapOK
  <2>2. invoice' = [invoice EXCEPT ![i].state = "paid"]
    BY <1>5 DEF BuyOffer
  <2>3. \A j \in DOMAIN invoice : invoice[j] \in Invoice
    BY <1>0 DEF HeapsOK, HeapOK
  <2>4. SharedKept
    BY <2>1, <2>2, <2>3 DEF HandlerInv, SharedKept, Kept, Content, Invoice
  <2>5. MilestonesKept
    BY <1>0, <1>5 DEF BuyOffer, MilestonesAfterPay, MilestonesKept, Past, HeapsOK, HeapOK, Milestone
  <2> QED
    BY <2>4, <2>5
<1>6. ASSUME NEW p \in Participants, NEW i \in Invoices, NEW ask \in Asks,
             UpdateOfferPrice(p, i, ask.amount)
      PROVE  SharedKept /\ MilestonesKept
  BY <1>6, NoInvoiceChange, NoMilestoneChange DEF UpdateOfferPrice
<1> QED
  BY <1>1, <1>2, <1>3, <1>4, <1>5, <1>6
  DEF OtherRequest, RegisterRequest, ContractRequest, SignRequest, MilestonePriceRequest,
      PurchaseRequest, OfferPriceRequest

-----------------------------------------------------------------------------
(* The handlers of a request                                                 *)

LEMMA OtherLocals ==
    ASSUME RequestsOK, NEW r \in Requests, NEW new, request' = [request EXCEPT ![r] = new]
    PROVE  request'[r] = new /\ \A s \in Requests : s # r => request'[s] = request[s]
  BY DEF RequestsOK

\* The steps that touch neither a heap nor IPFS
LEMMA StepAside ==
    ASSUME HandlerInv, RequestsOK, UNCHANGED <<vars, ipfs>>,
           NEW r \in Requests, NEW new, request' = [request EXCEPT ![r] = new],
           new.invoice = request[r].invoice, ~Claims(new),
           LocalsOK(new, invoice, milestone, ipfs)
    PROVE  HandlerInv'
<1>1. UNCHANGED invoice /\ UNCHANGED milestone /\ UNCHANGED ipfs
  BY DEF vars
<1>2. SharedKept /\ MilestonesKept /\ ipfs \subseteq ipfs'
  BY <1>1, NoInvoiceChange, NoMilestoneChange
<1>3. request'[r] = new /\ \A s \in Requests : s # r => request'[s] = request[s]
  BY OtherLocals
<1> QED
  BY <1>1, <1>2, <1>3, HandlerMoves

LEMMA NoClaimOnNone ==
    ASSUME HandlerInv, TypeOK, NEW s \in Requests, Claims(request[s])
    PROVE  request[s].from \in Milestones /\ request[s].from # None
<1>1. request[s].from \in DOMAIN milestone
  BY DEF HandlerInv, LocalsOK, Past
<1> QED
  BY <1>1, NoneIsDistinct DEF TypeOK, HeapsOK, HeapOK

\* A handler's new invoice is its own, and says what the handler holds.
LEMMA NewWork ==
    ASSUME HandlerInv, RequestsOK, TypeOK, MilestonesKept, UNCHANGED ipfs,
           NEW r \in Requests, request[r].step \in {"create", "bill"},
           NEW i \in Invoices, NEW inv, NewInvoice(i, inv), Created(r, i),
           inv.state = "created", Content(inv) = request[r].invoiceRequest,
           inv.milestone = IF Claims(request[r]) THEN request[r].from ELSE None
    PROVE  HandlerInv'
<1>0. /\ i # None /\ i \notin DOMAIN invoice
      /\ DOMAIN invoice' = DOMAIN invoice \cup {i}
      /\ invoice'[i] = inv
      /\ \A j \in DOMAIN invoice : invoice'[j] = invoice[j]
  BY NoneIsDistinct DEF NewInvoice, Create
<1>1. LocalsOK(request[r], invoice, milestone, ipfs) /\ request[r].invoice = None
  BY DEF HandlerInv, LocalsOK
<1>2. /\ request'[r].invoice = i
      /\ request'[r].step \in {"upload", "finalise"}
      /\ IncludeIpfs => request'[r].step = "upload"
      /\ request'[r].invoiceRequest = request[r].invoiceRequest
  BY DEF Created, RequestsOK, Request
<1>3. \A s \in Requests : s # r => request'[s] = request[s]
  BY DEF Created, RequestsOK
<1>4. \A j \in DOMAIN invoice : Kept(j)
  BY <1>0 DEF HandlerInv, Kept
<1>5. ASSUME NEW s \in Requests PROVE LocalsOK(request'[s], invoice', milestone', ipfs')
  <2>1. CASE s = r
    BY <1>0, <1>1, <1>2, <2>1 DEF LocalsOK, Claims
  <2>2. CASE s # r
    BY <1>3, <1>4, <2>2, OthersKnow, LocalsPointToInvoices
  <2> QED
    BY <2>1, <2>2
<1>6. Ownership'
  <2>1. \A s \in Requests : request[s].invoice # i
    BY <1>0, LocalsPointToInvoices
  <2>2. \A s, t \in Requests :
           request'[s].invoice = request'[t].invoice /\ request'[s].invoice # None => s = t
    BY <1>2, <1>3, <2>1 DEF HandlerInv, Ownership
  <2>3. ASSUME NEW j \in DOMAIN invoice' PROVE \E s \in Requests : request'[s].invoice = j
    <3>1. CASE j = i
      BY <1>2, <3>1
    <3>2. CASE j # i
      <4>1. PICK s \in Requests : request[s].invoice = j
        BY <1>0, <3>2 DEF HandlerInv, Ownership
      <4>2. s # r
        BY <1>0, <1>1, <3>2, <4>1, NoneIsDistinct DEF TypeOK, HeapsOK, HeapOK
      <4> QED
        BY <1>3, <4>1, <4>2
    <3> QED
      BY <3>1, <3>2
  <2> QED
    BY <2>2, <2>3 DEF Ownership
<1>7. /\ FinalisedIsPublished'
      /\ \A j \in DOMAIN invoice' : invoice'[j].state # "traded"
  BY <1>0 DEF HandlerInv, FinalisedIsPublished
<1>8. ClaimsOK'
  <2>1. ~Claims(request'[r])
    BY <1>2 DEF Claims
  <2>2. ASSUME NEW s \in Requests, Claims(request'[s])
        PROVE  \A j \in DOMAIN invoice' : invoice'[j].milestone # request'[s].from
    <3>1. s # r /\ request'[s] = request[s] /\ Claims(request[s])
      BY <1>3, <2>1, <2>2
    <3>2. inv.milestone # request[s].from
      <4>2. CASE Claims(request[r])
        BY <3>1, <4>2 DEF HandlerInv, ClaimsOK
      <4>3. CASE ~Claims(request[r])
        BY <3>1, <4>3, NoClaimOnNone
      <4> QED
        BY <4>2, <4>3
    <3> QED
      BY <1>0, <3>1, <3>2 DEF HandlerInv, ClaimsOK
  <2>3. ASSUME NEW j \in DOMAIN invoice', invoice'[j].milestone # None
        PROVE  Past(milestone', invoice'[j].milestone)
    <3>1. CASE j = i
      BY <1>0, <1>1, <2>3, <3>1 DEF LocalsOK, MilestonesKept, Past
    <3>2. CASE j # i
      BY <1>0, <2>3, <3>2 DEF HandlerInv, ClaimsOK, MilestonesKept, Past
    <3> QED
      BY <3>1, <3>2
  <2>4. MilestoneBilledOnce'
    <3>1. inv.milestone # None => \A j \in DOMAIN invoice : invoice[j].milestone # inv.milestone
      BY DEF HandlerInv, ClaimsOK
    <3> QED
      BY <1>0, <3>1 DEF HandlerInv, ClaimsOK, MilestoneBilledOnce
  <2>5. \A s, t \in Requests :
           Claims(request'[s]) /\ Claims(request'[t]) /\ request'[s].from = request'[t].from
               => s = t
    BY <1>3, <2>1 DEF HandlerInv, ClaimsOK
  <2> QED
    BY <2>2, <2>3, <2>4, <2>5 DEF ClaimsOK
<1> QED
  BY <1>5, <1>6, <1>7, <1>8 DEF HandlerInv

\* Only the handler of an invoice finalises it, published.
LEMMA FinaliseWork ==
    ASSUME HandlerInv, RequestsOK, TypeOK, NEW r \in Requests, Finalise(r)
    PROVE  HandlerInv'
<1> DEFINE i == request[r].invoice
<1>0. /\ FinaliseInvoice(i) /\ Goto(r, "respond") /\ request[r].step = "finalise"
      /\ UNCHANGED milestone /\ UNCHANGED ipfs
  BY DEF Finalise, FinaliseInvoice, At
<1>1. /\ request'[r] = [request[r] EXCEPT !.step = "respond"]
      /\ \A s \in Requests : s # r => request'[s] = request[s]
  BY <1>0 DEF Goto, RequestsOK
<1>2. request[r] \in Request
  BY DEF RequestsOK
<1>3. /\ i \in DOMAIN invoice /\ i # None
      /\ Content(invoice[i]) = request[r].invoiceRequest
      /\ IncludeIpfs => request[r].invoiceRequest \in ipfs /\ invoice[i].blockchainRef
  BY <1>0 DEF HandlerInv, LocalsOK
<1>4. /\ request'[r].invoice = i /\ request'[r].step = "respond"
      /\ request'[r].invoiceRequest = request[r].invoiceRequest
      /\ ~Claims(request'[r])
  BY <1>1, <1>2 DEF Request, Claims
<1>5. /\ DOMAIN invoice' = DOMAIN invoice
      /\ \A j \in DOMAIN invoice : j # i => invoice'[j] = invoice[j]
      /\ invoice'[i].state = "finalised" /\ invoice'[i].milestone = invoice[i].milestone
      /\ invoice'[i].blockchainRef = invoice[i].blockchainRef
      /\ Content(invoice'[i]) = Content(invoice[i])
  <2>1. invoice' = [invoice EXCEPT ![i].state = "finalised"]
    BY <1>0 DEF FinaliseInvoice
  <2>2. \A j \in DOMAIN invoice : invoice[j] \in Invoice
    BY DEF TypeOK, HeapsOK, HeapOK
  <2> QED
    BY <1>3, <2>1, <2>2 DEF Invoice, Content
<1> HIDE DEF i
<1>6. MilestonesKept
  BY <1>0, NoMilestoneChange
<1>7. ASSUME NEW s \in Requests PROVE LocalsOK(request'[s], invoice', milestone', ipfs')
  <2>1. CASE s = r
    BY <1>3, <1>4, <1>5, <2>1 DEF LocalsOK
  <2>2. CASE s # r
    <3>1. request[s].invoice # i
      BY <1>3, <2>2 DEF HandlerInv, Ownership, i
    <3>2. request[s].invoice # None => Kept(request[s].invoice)
      BY <1>5, <3>1, LocalsPointToInvoices DEF HandlerInv, Kept
    <3> QED
      BY <1>0, <1>1, <1>6, <2>2, <3>2, OthersKnow
  <2> QED
    BY <2>1, <2>2
<1>8. \A s \in Requests :
         /\ request'[s].invoice = request[s].invoice
         /\ Claims(request'[s]) => Claims(request[s]) /\ request'[s].from = request[s].from
  BY <1>1, <1>4 DEF i
<1>9. Ownership'
  BY <1>5, <1>8 DEF HandlerInv, Ownership
<1>10. /\ FinalisedIsPublished'
       /\ \A j \in DOMAIN invoice' : invoice'[j].state # "traded"
  BY <1>0, <1>3, <1>5 DEF HandlerInv, FinalisedIsPublished
<1>11. ClaimsOK'
  <2>1. \A j \in DOMAIN invoice' : invoice'[j].milestone = invoice[j].milestone
    BY <1>5
  <2> QED
    BY <1>5, <1>6, <1>8, <2>1 DEF HandlerInv, ClaimsOK, MilestonesKept, Past, MilestoneBilledOnce
<1> QED
  BY <1>7, <1>9, <1>10, <1>11 DEF HandlerInv

\* The first handler to reach a milestone is the only one to claim it.
LEMMA ReachWork ==
    ASSUME HandlerInv, RequestsOK, TypeOK, NEW r \in Requests, ReachMilestone(r)
    PROVE  HandlerInv'
<1> DEFINE m == request[r].from
<1>1. PICK due \in Documents : MilestoneReached(m, due)
  BY DEF ReachMilestone
<1>2. /\ m \in DOMAIN milestone /\ milestone[m].state = "created"
      /\ UNCHANGED invoice
  BY <1>1 DEF MilestoneReached
<1>3. request[r].step = "reach" /\ Goto(r, "read") /\ UNCHANGED ipfs /\ request[r] \in Request
  BY DEF ReachMilestone, At, RequestsOK
<1>4. /\ request'[r] = [request[r] EXCEPT !.step = "read"]
      /\ \A s \in Requests : s # r => request'[s] = request[s]
  BY <1>3 DEF Goto, RequestsOK
<1>5. /\ request'[r].step = "read" /\ request'[r].from = m
      /\ request'[r].invoice = request[r].invoice
  BY <1>3, <1>4 DEF Request
<1> HIDE DEF m
<1>6. MilestonesKept /\ Past(milestone', m)
  BY <1>1, <1>2 DEF MilestoneReached, MilestonesKept, Past, TypeOK, HeapsOK, HeapOK, Milestone
<1>7. SharedKept
  BY <1>2, NoInvoiceChange
<1>8. request[r].invoice = None
  BY <1>3 DEF HandlerInv, LocalsOK
<1>9. ASSUME NEW s \in Requests PROVE LocalsOK(request'[s], invoice', milestone', ipfs')
  <2>1. CASE s = r
    BY <1>5, <1>6, <1>8, <2>1 DEF LocalsOK
  <2>2. CASE s # r
    BY <1>3, <1>4, <1>6, <1>7, <2>2, OthersKnow, LocalsPointToInvoices DEF SharedKept
  <2> QED
    BY <2>1, <2>2
<1>10. Ownership'
  <2>1. \A s \in Requests : request'[s].invoice = request[s].invoice
    BY <1>4, <1>5
  <2> QED
    BY <1>2, <2>1 DEF HandlerInv, Ownership
<1>11. ClaimsOK'
  <2>1. \A s \in Requests : s # r /\ Claims(request'[s]) =>
           Claims(request[s]) /\ request'[s].from = request[s].from /\ request'[s].from # m
    BY <1>2, <1>4 DEF HandlerInv, LocalsOK, Past
  <2>2. \A i \in DOMAIN invoice : invoice[i].milestone # m
    <3>1. m # None
      BY <1>2, NoneIsDistinct DEF TypeOK, HeapsOK, HeapOK
    <3> QED
      BY <1>2, <3>1 DEF HandlerInv, ClaimsOK, Past
  <2>3. \A s, t \in Requests :
           Claims(request'[s]) /\ Claims(request'[t]) /\ request'[s].from = request'[t].from
               => s = t
    BY <1>5, <2>1 DEF HandlerInv, ClaimsOK
  <2>4. \A s \in Requests : Claims(request'[s]) =>
           \A i \in DOMAIN invoice' : invoice'[i].milestone # request'[s].from
    BY <1>2, <1>5, <2>1, <2>2 DEF HandlerInv, ClaimsOK
  <2> QED
    BY <1>3, <1>6, <1>7, <2>3, <2>4, SharedFrame DEF ClaimsOK
<1>12. /\ FinalisedIsPublished'
       /\ \A i \in DOMAIN invoice' : invoice'[i].state # "traded"
  BY <1>3, <1>6, <1>7, SharedFrame
<1> QED
  BY <1>9, <1>10, <1>11, <1>12 DEF HandlerInv

\* Answers, refusals and failures change no invoice.
LEMMA EndWork ==
    ASSUME HandlerInv, RequestsOK, NEW r \in Requests, UNCHANGED <<vars, ipfs>>,
           \/ request[r].step \in {"create", "reach", "bill"} /\ Goto(r, "refused")
           \/ request[r].step = "respond" /\ Goto(r, "ok")
           \/ Goto(r, "failed")
    PROVE  HandlerInv'
<1> USE DEF LocalsOK, Claims
<1>1. request[r] \in Request /\ LocalsOK(request[r], invoice, milestone, ipfs)
  BY DEF RequestsOK, HandlerInv
<1>2. PICK to \in {"refused", "ok", "failed"} :
         /\ Goto(r, to)
         /\ to = "refused" => request[r].step \in {"create", "reach", "bill"}
         /\ to = "ok" => request[r].step = "respond"
  OBVIOUS
<1> DEFINE new == [request[r] EXCEPT !.step = to]
<1>3. /\ new.step = to /\ new.invoice = request[r].invoice /\ new.from = request[r].from
      /\ new.invoiceRequest = request[r].invoiceRequest
  BY <1>1 DEF Request
<1>4. request' = [request EXCEPT ![r] = new]
  BY <1>2 DEF Goto
<1> HIDE DEF new
<1>5. LocalsOK(new, invoice, milestone, ipfs)
  BY <1>1, <1>2, <1>3
<1>6. ~Claims(new)
  BY <1>3
<1> HIDE DEF LocalsOK, Claims
<1> QED
  BY <1>3, <1>4, <1>5, <1>6, StepAside

\* What is read of a reached milestone no longer changes.
LEMMA ReadWork ==
    ASSUME HandlerInv, RequestsOK, NEW r \in Requests, ReadMilestone(r)
    PROVE  HandlerInv'
<1> DEFINE ms == milestone[request[r].from]
           req == [document |-> ms.due, amount |-> ms.details.amount,
                   creditorData |-> participant[contract[ms.contract].supplier].paymentDetails,
                   toBeTraded |-> ms.details.invoiceToTrade,
                   offerAmount |-> ms.details.offerAmount]
           new == [request[r] EXCEPT !.step = "bill", !.invoiceRequest = req]
<1>1. request[r] \in Request /\ request[r].step = "read"
  BY DEF RequestsOK, ReadMilestone, At
<1>2. LocalsOK(request[r], invoice, milestone, ipfs)
  BY DEF HandlerInv
<1>3. request' = [request EXCEPT ![r] = new]
  BY DEF ReadMilestone
<1>4. req.toBeTraded = ms.details.invoiceToTrade /\ req.offerAmount = ms.details.offerAmount
  OBVIOUS
<1> HIDE DEF req
<1>5. /\ new.step = "bill" /\ new.from = request[r].from
      /\ new.invoice = request[r].invoice /\ new.invoiceRequest = req
  BY <1>1 DEF Request
<1> HIDE DEF new
<1>6. LocalsOK(new, invoice, milestone, ipfs)
  BY <1>1, <1>2, <1>4, <1>5 DEF LocalsOK, Claims
<1>7. UNCHANGED <<invoice, milestone, ipfs>>
  BY DEF ReadMilestone, vars
<1>8. SharedKept /\ MilestonesKept
  BY <1>7, NoInvoiceChange, NoMilestoneChange
<1>9. request'[r] = new /\ \A s \in Requests : s # r => request'[s] = request[s]
  BY <1>3, OtherLocals
<1>10. Claims(request[r])
  BY <1>1 DEF Claims
<1> QED
  BY <1>5, <1>6, <1>7, <1>8, <1>9, <1>10, HandlerMoves

LEMMA UploadWork ==
    ASSUME HandlerInv, RequestsOK, NEW r \in Requests, Upload(r)
    PROVE  HandlerInv'
<1> DEFINE new == [request[r] EXCEPT !.step = "refer"]
<1>1. request[r] \in Request /\ request[r].step = "upload"
  BY DEF RequestsOK, Upload, At
<1>2. LocalsOK(request[r], invoice, milestone, ipfs)
  BY DEF HandlerInv
<1>3. request' = [request EXCEPT ![r] = new]
  BY DEF Upload, Goto
<1>4. /\ new.step = "refer" /\ new.invoice = request[r].invoice
      /\ new.invoiceRequest = request[r].invoiceRequest
  BY <1>1 DEF Request
<1> HIDE DEF new
<1>5. UNCHANGED <<invoice, milestone>> /\ ipfs' = ipfs \cup {request[r].invoiceRequest}
  BY DEF Upload, vars
<1>6. LocalsOK(new, invoice', milestone', ipfs')
  <2>1. LocalsOK(new, invoice, milestone, ipfs \cup {request[r].invoiceRequest})
    BY <1>1, <1>2, <1>4 DEF LocalsOK, Claims
  <2> QED
    BY <1>5, <2>1
<1>7. SharedKept /\ MilestonesKept /\ ipfs \subseteq ipfs'
  BY <1>5, NoInvoiceChange, NoMilestoneChange
<1>8. request'[r] = new /\ \A s \in Requests : s # r => request'[s] = request[s]
  BY <1>3, OtherLocals
<1>9. ~Claims(new)
  BY <1>4 DEF Claims
<1> QED
  BY <1>4, <1>6, <1>7, <1>8, <1>9, HandlerMoves

LEMMA ReferWork ==
    ASSUME HandlerInv, RequestsOK, TypeOK, NEW r \in Requests, Refer(r)
    PROVE  HandlerInv'
<1> DEFINE i == request[r].invoice
           new == [request[r] EXCEPT !.step = "finalise"]
<1>1. request[r] \in Request /\ request[r].step = "refer"
  BY DEF RequestsOK, Refer, At
<1>2. LocalsOK(request[r], invoice, milestone, ipfs)
  BY DEF HandlerInv
<1>3. request' = [request EXCEPT ![r] = new] /\ UNCHANGED ipfs
  BY DEF Refer, Goto
<1>4. /\ new.step = "finalise" /\ new.invoice = i
      /\ new.invoiceRequest = request[r].invoiceRequest
  BY <1>1 DEF Request
<1>5. /\ i \in DOMAIN invoice /\ invoice' = [invoice EXCEPT ![i].blockchainRef = TRUE]
      /\ UNCHANGED milestone
  BY DEF Refer, SetBlockChainRef
<1> HIDE DEF new, i
<1>6. /\ SharedKept
      /\ invoice'[i].blockchainRef
  <2>1. \A j \in DOMAIN invoice : invoice[j] \in Invoice
    BY DEF TypeOK, HeapsOK, HeapOK
  <2> QED
    BY <1>5, <2>1 DEF HandlerInv, SharedKept, Kept, Content, Invoice
<1>7. LocalsOK(new, invoice', milestone', ipfs')
  <2>1. Kept(i) /\ i # None
    BY <1>1, <1>2, <1>5, <1>6 DEF SharedKept, LocalsOK, i
  <2> QED
    BY <1>1, <1>2, <1>3, <1>4, <1>6, <2>1 DEF LocalsOK, Claims, Kept, i
<1>8. MilestonesKept /\ ipfs \subseteq ipfs'
  BY <1>3, <1>5, NoMilestoneChange
<1>9. request'[r] = new /\ \A s \in Requests : s # r => request'[s] = request[s]
  BY <1>3, OtherLocals
<1>10. ~Claims(new)
  BY <1>4 DEF Claims
<1> QED
  BY <1>4, <1>6, <1>7, <1>8, <1>9, <1>10, HandlerMoves DEF i

LEMMA CreateWork ==
    ASSUME HandlerInv, RequestsOK, TypeOK, NEW r \in Requests, CreateInvoice(r)
    PROVE  HandlerInv'
<1> DEFINE p == request[r].from
           req == request[r].invoiceRequest
           inv == IndependentInvoice(p, req.document, req.amount, req.creditorData,
                                     req.toBeTraded, req.offerAmount)
<1>1. PICK i \in Invoices : /\ CreateNewInvoice(p, i, req.document, req.amount,
                                   req.creditorData, req.toBeTraded, req.offerAmount)
                            /\ Created(r, i)
  BY DEF CreateInvoice
<1>2. NewInvoice(i, inv) /\ UNCHANGED milestone
  BY <1>1 DEF CreateNewInvoice
<1>3. req \in PostedRequest /\ request[r].step = "create" /\ UNCHANGED ipfs
  BY DEF CreateInvoice, RequestsOK, At
<1>4. inv.state = "created" /\ inv.milestone = None /\ Content(inv) = req
  BY <1>3 DEF IndependentInvoice, Content, PostedRequest
<1>5. ~Claims(request[r]) /\ MilestonesKept
  BY <1>2, <1>3, NoMilestoneChange DEF Claims
<1> HIDE DEF inv
<1> QED
  BY <1>1, <1>2, <1>3, <1>4, <1>5, NewWork

\* A milestone is billed as it was read.
LEMMA BillWork ==
    ASSUME HandlerInv, RequestsOK, TypeOK, NEW r \in Requests, BillMilestone(r)
    PROVE  HandlerInv'
<1> DEFINE m == request[r].from
           req == request[r].invoiceRequest
           inv == OriginalInvoice(m, req.document, req.amount, req.creditorData)
<1>1. PICK i \in Invoices : /\ CreateOriginalInvoice(m, i, req.document, req.amount,
                                                     req.creditorData)
                            /\ Created(r, i)
  BY DEF BillMilestone
<1>2. /\ NewInvoice(i, inv)
      /\ m \in DOMAIN milestone
      /\ milestone' = [milestone EXCEPT ![m].originalInvoice = i]
  BY <1>1 DEF CreateOriginalInvoice
<1>3. request[r].step = "bill" /\ req # None /\ req \in Option(InvoiceRequest) /\ UNCHANGED ipfs
  BY DEF BillMilestone, RequestsOK, At, Request
<1>4. /\ req.toBeTraded = milestone[m].details.invoiceToTrade
      /\ req.offerAmount = milestone[m].details.offerAmount
  BY <1>3 DEF HandlerInv, LocalsOK
<1>5. inv.state = "created" /\ inv.milestone = m /\ Content(inv) = req
  BY <1>3, <1>4 DEF OriginalInvoice, Content, InvoiceRequest, Option
<1>6. Claims(request[r])
  BY <1>3 DEF Claims
<1>7. MilestonesKept
  BY <1>2 DEF MilestonesKept, Past, TypeOK, HeapsOK, HeapOK, Milestone
<1> HIDE DEF inv
<1> QED
  BY <1>1, <1>2, <1>3, <1>5, <1>6, <1>7, NewWork

LEMMA InitHandlers == ApiInit => HandlerInv
  BY DEF ApiInit, Init, HandlerInv, LocalsOK, Claims, Ownership, ClaimsOK, MilestoneBilledOnce,
         FinalisedIsPublished

LEMMA PostWork ==
    ASSUME HandlerInv, RequestsOK, NEW r \in Requests, Post(r)
    PROVE  HandlerInv'
<1>1. request[r] \in Request /\ request[r].step = "unsent" /\ UNCHANGED <<vars, ipfs>>
  BY DEF Post, PostInvoice, PostClosure, RequestsOK, At
<1>2. LocalsOK(request[r], invoice, milestone, ipfs)
  BY DEF HandlerInv
<1>3. \A new : new.step \in {"create", "reach"} /\ new.invoice = request[r].invoice
                 => LocalsOK(new, invoice, milestone, ipfs) /\ ~Claims(new)
  BY <1>1, <1>2 DEF LocalsOK, Claims
<1>4. ASSUME NEW p \in Participants, NEW req \in PostedRequest, PostInvoice(r, p, req)
      PROVE  HandlerInv'
  <2> DEFINE new == [request[r] EXCEPT !.step = "create", !.from = p, !.invoiceRequest = req]
  <2>1. new.step = "create" /\ new.invoice = request[r].invoice
    BY <1>1 DEF Request
  <2>2. request' = [request EXCEPT ![r] = new]
    BY <1>4 DEF PostInvoice
  <2> HIDE DEF new
  <2>3. LocalsOK(new, invoice, milestone, ipfs) /\ ~Claims(new)
    BY <1>3, <2>1
  <2> QED
    BY <1>1, <2>1, <2>2, <2>3, StepAside
<1>5. ASSUME NEW m \in Milestones, PostClosure(r, m) PROVE HandlerInv'
  <2> DEFINE new == [request[r] EXCEPT !.step = "reach", !.from = m]
  <2>1. new.step = "reach" /\ new.invoice = request[r].invoice
    BY <1>1 DEF Request
  <2>2. request' = [request EXCEPT ![r] = new]
    BY <1>5 DEF PostClosure
  <2> HIDE DEF new
  <2>3. LocalsOK(new, invoice, milestone, ipfs) /\ ~Claims(new)
    BY <1>3, <2>1
  <2> QED
    BY <1>1, <2>1, <2>2, <2>3, StepAside
<1> QED
  BY <1>4, <1>5 DEF Post

LEMMA StepHandlers == HandlerInv /\ RequestsOK /\ TypeOK /\ [ApiNext]_apiVars => HandlerInv'
<1> SUFFICES ASSUME HandlerInv, RequestsOK, TypeOK, [ApiNext]_apiVars PROVE HandlerInv'
  OBVIOUS
<1>1. CASE OtherRequest
  BY <1>1, OtherTransactions, HandlersPause DEF OtherRequest
<1>2. ASSUME NEW r \in Requests, Post(r) PROVE HandlerInv'
  BY <1>2, PostWork
<1>3. ASSUME NEW r \in Requests, Proceed(r) PROVE HandlerInv'
  <2>1. CASE InvoiceRefused(r) \/ ReachRefused(r) \/ BillRefused(r) \/ Respond(r)
    BY <2>1, EndWork DEF InvoiceRefused, ReachRefused, BillRefused, Respond, At
  <2> QED
    BY <1>3, <2>1, CreateWork, ReachWork, ReadWork, BillWork, UploadWork, ReferWork, FinaliseWork
    DEF Proceed
<1>4. ASSUME NEW r \in Requests, Fail(r) PROVE HandlerInv'
  BY <1>4, EndWork DEF Fail
<1>5. CASE UNCHANGED apiVars
  <2>1. UNCHANGED <<invoice, milestone, request, ipfs>>
    BY <1>5 DEF apiVars, vars
  <2> QED
    BY <2>1, NoInvoiceChange, NoMilestoneChange, HandlersPause
<1> QED
  BY <1>1, <1>2, <1>3, <1>4, <1>5 DEF ApiNext

LEMMA HandlerInvariant == ApiSpec => []HandlerInv
<1>1. HandlerInv /\ (RequestsOK /\ TypeOK) /\ [ApiNext]_apiVars => HandlerInv'
  BY StepHandlers
<1> QED
  BY <1>1, InitHandlers, BackendInvariant, PTL DEF ApiSpec

-----------------------------------------------------------------------------
(* What clients, recipients and suppliers may rely on                        *)

\* With IPFS enabled, the signed copy of every finalised invoice is on IPFS and says the
\* same (InvoiceHandler.kt:87-90, ContractHandler.kt:188-229).
THEOREM FinalisedInvoicesArePublished == ApiSpec => []FinalisedIsPublished
<1>1. HandlerInv => FinalisedIsPublished
  BY DEF HandlerInv
<1> QED
  BY <1>1, HandlerInvariant, PTL

\* However many requests race to close a milestone, and whether or not participants share
\* payment details, it is billed once (ContractHandler.kt:187, milestone.npl:48).
THEOREM ClosuresBillOnce == ApiSpec => []MilestoneBilledOnce
<1>1. HandlerInv => MilestoneBilledOnce
  BY DEF HandlerInv, ClaimsOK
<1> QED
  BY <1>1, HandlerInvariant, PTL

\* Only a failure leaves an invoice half made: no interleaving of requests gets one stuck
\* (InvoiceHandler.kt:86-92, ContractHandler.kt:212-231).
THEOREM OnlyFailuresLeaveHalfMade == ApiSpec => []HalfMadeOnlyByFailure
<1>1. HandlerInv /\ (RequestsOK /\ TypeOK) => HalfMadeOnlyByFailure
  <2> SUFFICES ASSUME HandlerInv, RequestsOK, TypeOK, NEW i \in DOMAIN invoice
               PROVE  \E r \in Requests :
                         /\ {s \in Requests : request[s].invoice = i} = {r}
                         /\ IF invoice[i].state = "created"
                            THEN request[r].step \in {"upload", "refer", "finalise", "failed"}
                            ELSE request[r].step \in {"respond", "ok", "failed"}
    BY DEF HalfMadeOnlyByFailure
  <2>1. PICK r \in Requests : request[r].invoice = i
    BY DEF HandlerInv, Ownership
  <2>2. i # None
    BY NoneIsDistinct DEF TypeOK, HeapsOK, HeapOK
  <2>3. {s \in Requests : request[s].invoice = i} = {r}
    BY <2>1, <2>2 DEF HandlerInv, Ownership
  <2>4. request[r].step \in {"unsent"} \cup InFlight \cup Ended
    BY DEF RequestsOK, Request
  <2>5. LocalsOK(request[r], invoice, milestone, ipfs)
    BY DEF HandlerInv
  <2>6. IF invoice[i].state = "created"
        THEN request[r].step \in {"upload", "refer", "finalise", "failed"}
        ELSE request[r].step \in {"respond", "ok", "failed"}
    BY <2>1, <2>2, <2>4, <2>5 DEF LocalsOK, InFlight, Ended
  <2> QED
    BY <2>3, <2>6
<1> QED
  BY <1>1, HandlerInvariant, BackendInvariant, PTL

\* The trading invariants hold of the whole backend, as it implements the contracts.
LEMMA BackendListsAsRequested == ApiSpec => []ListedAsRequested
  BY BackendImplementsContracts, MarketListsAsRequested, PTL

\* A client told of success has it: the invoice it is shown is finalised, says what was
\* asked for, and is on the market if that was asked (InvoiceHandler.kt:94-99,
\* ContractHandler.kt:231-238).
THEOREM SuccessesAreTrue == ApiSpec => []SuccessIsTrue
<1>1. HandlerInv /\ (RequestsOK /\ TypeOK) /\ ListedAsRequested => SuccessIsTrue
  <2> SUFFICES ASSUME HandlerInv, TypeOK, ListedAsRequested, NEW r \in Requests, At(r, "ok")
               PROVE  LET i == request[r].invoice
                      IN  /\ i \in DOMAIN invoice
                          /\ invoice[i].state \in {"finalised", "paid"}
                          /\ Content(invoice[i]) = request[r].invoiceRequest
                          /\ i \in DOMAIN offer <=> request[r].invoiceRequest.toBeTraded
    BY DEF SuccessIsTrue
  <2> DEFINE i == request[r].invoice
  <2>1. /\ i \in DOMAIN invoice
        /\ Content(invoice[i]) = request[r].invoiceRequest
        /\ invoice[i].state # "created"
    BY DEF HandlerInv, LocalsOK, At
  <2>2. invoice[i].state \in {"finalised", "paid"}
    BY <2>1 DEF HandlerInv, TypeOK, HeapsOK, HeapOK, Invoice
  <2>3. request[r].invoiceRequest.toBeTraded = invoice[i].toBeTraded
    BY <2>1 DEF Content
  <2>4. i \in DOMAIN offer <=> request[r].invoiceRequest.toBeTraded
    <3>1. i \in DOMAIN offer <=> invoice[i].toBeTraded
      BY <2>1 DEF ListedAsRequested
    <3>2. invoice[i].toBeTraded \in BOOLEAN
      BY <2>1 DEF TypeOK, HeapsOK, HeapOK, Invoice
    <3> QED
      BY <2>3, <3>1, <3>2, Zenon
  <2> QED
    BY <2>1, <2>2, <2>4
<1> QED
  BY <1>1, HandlerInvariant, BackendInvariant, BackendListsAsRequested, PTL

-----------------------------------------------------------------------------
(* Value: what requests bill for a contract stays within the value of its goods. *)

\* Billed once each, a contract's milestones are worth at least what is billed for it,
\* if none of them is worth less than nothing.
LEMMA BilledWithin == ASSUME ValueInv, MilestoneBilledOnce PROVE BilledWithinGoodsValue
<1> SUFFICES ASSUME NEW c \in DOMAIN contract,
                    \A m \in contract[c].milestones :
                       milestone[m].details.amount.amount >= 0
             PROVE  LET billed == {i \in DOMAIN invoice :
                                      /\ invoice[i].milestone # None
                                      /\ milestone[invoice[i].milestone].contract = c}
                    IN  SumFunction([i \in billed |-> invoice[i].amount.amount])
                           <= contract[c].goodsValue.amount
  BY DEF BilledWithinGoodsValue
<1> DEFINE billed == {i \in DOMAIN invoice : /\ invoice[i].milestone # None
                                             /\ milestone[invoice[i].milestone].contract = c}
           ms == contract[c].milestones
           f == [i \in billed |-> invoice[i].amount.amount]
           g == AmountsOf(ms)
           h == [i \in billed |-> invoice[i].milestone]
<1>0. HeapsOK /\ ReferencesOK /\ MilestoneInvoicesAgree /\ GoodsCovered
  BY DEF ValueInv, BillingInv, RegistryInv, TypeOK
<1>1. /\ ms = {m \in DOMAIN milestone : milestone[m].contract = c}
      /\ SumFunction(g) = contract[c].goodsValue.amount
  BY <1>0 DEF GoodsCovered
<1>2. ASSUME NEW i \in billed
      PROVE  invoice[i].milestone \in ms
             /\ invoice[i].amount = milestone[invoice[i].milestone].details.amount
  BY <1>0, <1>1 DEF ReferencesOK, MilestoneInvoicesAgree
<1>3. IsFiniteSet(billed) /\ IsFiniteSet(ms)
  <2>1. billed \subseteq Invoices /\ ms \subseteq Milestones
    BY <1>0, <1>1 DEF HeapsOK, HeapOK
  <2> QED
    BY <2>1, FS_Subset, FiniteInvoices, FiniteMilestones
<1>4. ASSUME NEW m \in ms PROVE g[m] \in Nat /\ g[m] = milestone[m].details.amount.amount
  <2>1. milestone[m] \in Milestone
    BY <1>0, <1>1 DEF HeapsOK, HeapOK
  <2>2. milestone[m].details.amount.amount \in Int
    BY <2>1 DEF Milestone, MilestoneDetails, Amount
  <2> QED
    BY <2>2 DEF AmountsOf
<1>5. \A i \in billed : f[i] \in Nat /\ h[i] \in ms /\ f[i] <= g[h[i]]
  BY <1>2, <1>4
<1>6. \A i, j \in billed : h[i] = h[j] => i = j
  BY DEF MilestoneBilledOnce
<1>7. DOMAIN f = billed /\ DOMAIN g = ms
  BY DEF AmountsOf
<1>8. SumFunctionOnSet(f, billed) <= SumFunctionOnSet(g, ms)
  <2> HIDE DEF f, g, h, billed, ms
  <2> QED
    BY <1>3, <1>4, <1>5, <1>6, SumInjection
<1>9. SumFunction(f) <= contract[c].goodsValue.amount
  <2> HIDE DEF f, g, billed, ms
  <2> QED
    BY <1>1, <1>7, <1>8 DEF SumFunction
<1> QED
  BY <1>9

\* The invoices of a contract none of whose milestones has a negative amount never add up
\* to more than its goods are worth, whatever requests fail (ContractHandler.kt:182-240).
THEOREM RequestsStayWithinGoods == ApiSpec => []BilledWithinGoodsValue
<1>1. Spec => []ValueInv
  BY InitValue, StepValue, PTL DEF Spec
<1>2. ValueInv /\ MilestoneBilledOnce => BilledWithinGoodsValue
  BY BilledWithin
<1> QED
  BY <1>1, <1>2, BackendImplementsContracts, ClosuresBillOnce, PTL
=============================================================================
