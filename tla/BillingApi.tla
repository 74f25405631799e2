----------------------------- MODULE BillingApi -----------------------------
(***************************************************************************)
(* The two request handlers of the API backend that bill: one that issues  *)
(* an invoice (InvoiceHandler.create) and one that closes a milestone      *)
(* (ContractHandler.closeMilestone).  Each is a sequence of blocking calls *)
(* to the engine and to IPFS; each engine call is a transaction of         *)
(* SmartBilling, and between two calls any other request may run.  The     *)
(* backend keeps nothing and compensates nothing: a handler that fails     *)
(* half-way leaves what its earlier calls did.                             *)
(*                                                                         *)
(* Handlers that make a single transaction (contract creation and signing, *)
(* purchase, repricing) are that transaction.                              *)
(***************************************************************************)
EXTENDS SmartBilling

CONSTANTS
    Requests,      \* the billing requests clients send
    IncludeIpfs,   \* config.includeIpfs
    Faulty         \* calls may fail: engine or IPFS down, backend killed

VARIABLES
    request,       \* the handler's locals of each billing request
    ipfs           \* the invoice requests signed and stored on IPFS

apiVars == <<vars, request, ipfs>>

-----------------------------------------------------------------------------
(* Types *)

\* model.InvoiceRequest: what the client of create sends, and what closeMilestone
\* puts together from the protocols it reads
InvoiceRequest ==
    [document : Documents, amount : Amount, creditorData : PaymentDetails,
     toBeTraded : BOOLEAN, offerAmount : Option(Amount)]

\* Bound: those that clients post
PostedRequest ==
    [document : Documents, amount : Amounts, creditorData : PaymentDetails,
     toBeTraded : BOOLEAN, offerAmount : Option(Asks)]

Ended == {"ok", "refused", "failed"}
InFlight == {"create", "reach", "read", "bill", "upload", "refer", "finalise", "respond"}

\* from: the participant, or the milestone, the request is about
Request ==
    [step : {"unsent"} \cup InFlight \cup Ended,
     from : Option(Participants \cup Milestones), invoiceRequest : Option(InvoiceRequest),
     invoice : Option(Invoices)]

\* The constants of the handlers.
ASSUME ApiParameters ==
    /\ IncludeIpfs \in BOOLEAN
    /\ Faulty \in BOOLEAN

ASSUME ApiNoneIsDistinct ==
    None \notin InvoiceRequest

-----------------------------------------------------------------------------
(* Helpers *)

At(r, step) == request[r].step = step

Goto(r, step) == request' = [request EXCEPT ![r].step = step]

\* (Operators marked "Mutant:" are wrong on purpose, as in SmartBilling.)

\* Mutant: never to IPFS
CreatedOnly(r, i) ==
    request' = [request EXCEPT ![r].invoice = i, ![r].step = "finalise"]

\* With the invoice created, the handler goes on to IPFS if so configured.
Created(r, i) ==
    request' = [request EXCEPT ![r].invoice = i,
                               ![r].step = IF IncludeIpfs THEN "upload" ELSE "finalise"]

\* The engine may refuse to create inv.
Refuses(inv) ==
    LET holders == Holders(inv.creditorData)
    IN  holders = {} \/ \E q \in holders : ~InvoiceGuards(q, inv)

\* What an invoice says, as an InvoiceRequest
Content(inv) ==
    [document |-> inv.document, amount |-> inv.amount, creditorData |-> inv.creditorData,
     toBeTraded |-> inv.toBeTraded, offerAmount |-> inv.offerAmount]

ApiInit ==
    /\ Init
    /\ request = [r \in Requests |->
          [step |-> "unsent", from |-> None, invoiceRequest |-> None, invoice |-> None]]
    /\ ipfs = {}

(***************************************************************************)
(* InvoiceHandler.create                                                   *)
(***************************************************************************)

\* A client posts an invoice.
PostInvoice(r, p, req) ==
    /\ At(r, "unsent")
    /\ p \in DOMAIN participant
    /\ request' = [request EXCEPT ![r].step = "create", ![r].from = p,
                                  ![r].invoiceRequest = req]
    /\ UNCHANGED <<vars, ipfs>>

\* participantProxy.createNewInvoice
CreateInvoice(r) ==
    /\ At(r, "create")
    /\ LET req == request[r].invoiceRequest
       IN  \E i \in Invoices :
              /\ CreateNewInvoice(request[r].from, i, req.document, req.amount,
                                  req.creditorData, req.toBeTraded, req.offerAmount)
              /\ Created(r, i)
    /\ UNCHANGED ipfs

\* Mutant: a duplicate gets no answer
RefusedForDetailsOnly(r) ==
    /\ At(r, "create")
    /\ request[r].invoiceRequest.creditorData # participant[request[r].from].paymentDetails
    /\ Goto(r, "refused")
    /\ UNCHANGED <<vars, ipfs>>

InvoiceRefused(r) ==
    /\ At(r, "create")
    /\ LET p == request[r].from
           req == request[r].invoiceRequest
       IN  \/ req.creditorData # participant[p].paymentDetails
           \/ Refuses(IndependentInvoice(p, req.document, req.amount, req.creditorData,
                                         req.toBeTraded, req.offerAmount))
    /\ Goto(r, "refused")
    /\ UNCHANGED <<vars, ipfs>>

(***************************************************************************)
(* ContractHandler.closeMilestone                                          *)
(***************************************************************************)

\* A client asks to close a milestone.
PostClosure(r, m) ==
    /\ At(r, "unsent")
    /\ m \in DOMAIN milestone
    /\ request' = [request EXCEPT ![r].step = "reach", ![r].from = m]
    /\ UNCHANGED <<vars, ipfs>>

\* milestoneProxy.milestoneReached
ReachMilestone(r) ==
    /\ At(r, "reach")
    /\ \E due \in Documents : MilestoneReached(request[r].from, due)
    /\ Goto(r, "read")
    /\ UNCHANGED ipfs

ReachRefused(r) ==
    /\ At(r, "reach")
    /\ LET m == request[r].from
       IN  \/ milestone[m].state # "created"
           \/ contract[milestone[m].contract].state # "creationFinalised"
    /\ Goto(r, "refused")
    /\ UNCHANGED <<vars, ipfs>>

\* The handler reads the milestone, its contract and the contract's supplier,
\* whose payment details never change.
ReadMilestone(r) ==
    /\ At(r, "read")
    /\ LET ms == milestone[request[r].from]
       IN  request' = [request EXCEPT
              ![r].step = "bill",
              ![r].invoiceRequest =
                  [document |-> ms.due, amount |-> ms.details.amount,
                   creditorData |-> participant[contract[ms.contract].supplier].paymentDetails,
                   toBeTraded |-> ms.details.invoiceToTrade,
                   offerAmount |-> ms.details.offerAmount]]
    /\ UNCHANGED <<vars, ipfs>>

\* milestoneProxy.createOriginalInvoice, with what was read
BillMilestone(r) ==
    /\ At(r, "bill")
    /\ LET req == request[r].invoiceRequest
       IN  \E i \in Invoices :
              /\ CreateOriginalInvoice(request[r].from, i, req.document, req.amount,
                                       req.creditorData)
              /\ Created(r, i)
    /\ UNCHANGED ipfs

BillRefused(r) ==
    /\ At(r, "bill")
    /\ LET m == request[r].from
           req == request[r].invoiceRequest
       IN  \/ ~CorrectInvoiceData(m, req.document, req.amount, req.creditorData)
           \/ Refuses(OriginalInvoice(m, req.document, req.amount, req.creditorData))
    /\ Goto(r, "refused")
    /\ UNCHANGED <<vars, ipfs>>

(***************************************************************************)
(* The common end of both handlers                                         *)
(***************************************************************************)

\* Mutant: the upload is lost
UploadLost(r) ==
    /\ At(r, "upload")
    /\ Goto(r, "refer")
    /\ UNCHANGED <<vars, ipfs>>

\* onChainClient.create: sign the request and store it
Upload(r) ==
    /\ At(r, "upload")
    /\ ipfs' = ipfs \cup {request[r].invoiceRequest}
    /\ Goto(r, "refer")
    /\ UNCHANGED vars

\* invoiceProxy.setBlockChainRef
Refer(r) ==
    /\ At(r, "refer")
    /\ SetBlockChainRef(request[r].invoice)
    /\ Goto(r, "finalise")
    /\ UNCHANGED ipfs

\* Mutants: the invoice is not finalised; the invoice id is shared by handlers
FinaliseForgotten(r) ==
    /\ At(r, "finalise")
    /\ Goto(r, "respond")
    /\ UNCHANGED <<vars, ipfs>>

FinaliseShared(r) ==
    /\ At(r, "finalise")
    /\ \E s \in Requests : FinaliseInvoice(request[s].invoice)
    /\ Goto(r, "respond")
    /\ UNCHANGED ipfs

\* invoiceProxy.finaliseInvoice
Finalise(r) ==
    /\ At(r, "finalise")
    /\ FinaliseInvoice(request[r].invoice)
    /\ Goto(r, "respond")
    /\ UNCHANGED ipfs

\* The protocols are read once more for the response.
Respond(r) ==
    /\ At(r, "respond")
    /\ Goto(r, "ok")
    /\ UNCHANGED <<vars, ipfs>>

\* A call throws, or the backend is killed: the handler goes no further.  (A
\* call that took effect and whose answer was lost is that call and then this.)
Fail(r) ==
    /\ Faulty
    /\ request[r].step \in InFlight
    /\ Goto(r, "failed")
    /\ UNCHANGED <<vars, ipfs>>

-----------------------------------------------------------------------------

\* What clients send
Post(r) ==
    \/ \E p \in Participants, req \in PostedRequest : PostInvoice(r, p, req)
    \/ \E m \in Milestones : PostClosure(r, m)

\* The handler of request r goes on.
Proceed(r) ==
    \/ CreateInvoice(r) \/ InvoiceRefused(r)
    \/ ReachMilestone(r) \/ ReachRefused(r) \/ ReadMilestone(r)
    \/ BillMilestone(r) \/ BillRefused(r)
    \/ Upload(r) \/ Refer(r) \/ Finalise(r) \/ Respond(r)

\* The handlers that make a single transaction, which leaves the others' requests
\* alone: ParticipantHandler.create (as far as the engine goes), ContractHandler's
\* create (a payment period it cannot parse is refused), signContract and
\* updateOfferPrice, OfferHandler's buyOffer and updateOfferPrice
RegisterRequest ==
    \E p \in Participants, details \in PaymentDetails : CreateParticipant(p, details)

ContractRequest ==
    \E p \in Participants, c \in Contracts, goodsValue \in Amounts,
       ms \in SUBSET Milestones : \E inputs \in [ms -> MilestoneInputs] :
       CreateContract(p, c, inputs, goodsValue)

SignRequest == \E c \in Contracts : FinaliseCreation(c)

MilestonePriceRequest == \E m \in Milestones, ask \in Asks : UpdateOfferAmount(m, ask)

PurchaseRequest == \E p \in Participants, i \in Invoices : BuyOffer(p, i)

OfferPriceRequest ==
    \E p \in Participants, i \in Invoices, ask \in Asks : UpdateOfferPrice(p, i, ask.amount)

OtherRequest ==
    /\ \/ RegisterRequest \/ ContractRequest \/ SignRequest
       \/ MilestonePriceRequest \/ PurchaseRequest \/ OfferPriceRequest
    /\ UNCHANGED <<request, ipfs>>

ApiNext ==
    \/ OtherRequest
    \/ \E r \in Requests : Post(r) \/ Proceed(r) \/ Fail(r)

ApiSpec == ApiInit /\ [][ApiNext]_apiVars

\* Every handler has its own thread, and every call returns or throws.
FairApiSpec == ApiSpec /\ \A r \in Requests : WF_apiVars(Proceed(r))

-----------------------------------------------------------------------------
(* Properties *)

\* The handlers' locals are well typed.
ApiTypeOK ==
    /\ TypeOK
    /\ request \in [Requests -> Request]
    /\ ipfs \subseteq InvoiceRequest

\* With IPFS enabled, what a finalised invoice says is what was signed and
\* stored for it, although the stored copy is made from a request or from reads
\* that precede the invoice (InvoiceHandler.kt:87-90, ContractHandler.kt:188-229).
FinalisedIsPublished ==
    IncludeIpfs => \A i \in DOMAIN invoice : invoice[i].state # "created" =>
        invoice[i].blockchainRef /\ Content(invoice[i]) \in ipfs

\* A client told that its invoice was issued, or its milestone closed, finds it
\* finalised (perhaps already sold), on the market if it asked for that, and
\* saying what it asked for (InvoiceHandler.kt:94-99, ContractHandler.kt:231-238).
SuccessIsTrue ==
    \A r \in Requests : At(r, "ok") =>
        LET i == request[r].invoice
        IN  /\ i \in DOMAIN invoice
            /\ invoice[i].state \in {"finalised", "paid"}
            /\ Content(invoice[i]) = request[r].invoiceRequest
            /\ i \in DOMAIN offer <=> request[r].invoiceRequest.toBeTraded

\* Every invoice is the work of one request, and a half-made one is either in
\* the hands of that request or was left behind when it failed: the engine
\* never refuses the calls after the one that created the invoice, and no other
\* request meddles with it (InvoiceHandler.kt:86-92, ContractHandler.kt:212-231).
HalfMadeOnlyByFailure ==
    \A i \in DOMAIN invoice :
        \E r \in Requests :
            /\ {s \in Requests : request[s].invoice = i} = {r}
            /\ IF invoice[i].state = "created"
               THEN request[r].step \in {"upload", "refer", "finalise", "failed"}
               ELSE request[r].step \in {"respond", "ok", "failed"}

\* However many requests close the same milestone at once, it is billed once:
\* only one of them gets past milestoneReached.  The contracts alone would let
\* it be billed again under another number (ContractHandler.kt:187,
\* milestone.npl:48).
MilestoneBilledOnce ==
    \A i, j \in DOMAIN invoice :
        invoice[i].milestone = invoice[j].milestone /\ invoice[i].milestone # None => i = j

\* So, unless a milestone's amount is negative, the invoices of a contract never
\* add up to more than the value of its goods, however many requests bill its
\* milestones at once and fail half-way (participant.npl:67, ContractHandler.kt:182-240).
BilledWithinGoodsValue ==
    \A c \in DOMAIN contract :
        (\A m \in contract[c].milestones : milestone[m].details.amount.amount >= 0) =>
            LET billed == {i \in DOMAIN invoice : /\ invoice[i].milestone # None
                                                  /\ milestone[invoice[i].milestone].contract = c}
            IN  SumFunction([i \in billed |-> invoice[i].amount.amount])
                   <= contract[c].goodsValue.amount

\* Every request a client sends is answered: no handler waits for another one
\* (InvoiceHandler.kt:63-100, ContractHandler.kt:182-240).
EveryRequestAnswered ==
    \A r \in Requests : request[r].step \in InFlight ~> request[r].step \in Ended

\* The engine's guards let milestone m be billed.
Billable(m) ==
    LET ms == milestone[m].details
    IN  ms.payAhead /\ (ms.offerAmount # None => ms.offerAmount.ccy = ms.amount.ccy)

\* An invoice that says the same as the one milestone m is due
Duplicated(m) ==
    \E i \in DOMAIN invoice : /\ m \in DOMAIN milestone
                              /\ invoice[i].document = milestone[m].due
                              /\ invoice[i].amount = milestone[m].details.amount
                              /\ invoice[i].milestone # m

\* A milestone that is reached gets a finalised invoice of its own, if its offer
\* amount is in the contract's currency, its period is not negative and nobody
\* has issued an invoice that says the same (README.md:120-121,
\* ContractHandler.kt:182-240).
ReachedMilestoneIsBilled ==
    \A m \in Milestones :
        (m \in DOMAIN milestone /\ milestone[m].state = "reached" /\ Billable(m))
            ~> \/ Duplicated(m)
               \/ \E i \in DOMAIN invoice : /\ invoice[i].milestone = m
                                            /\ invoice[i].state # "created"

\* Whenever a milestone is reached, an invoice is created for it: when no
\* request is at work on it any more, it has one (README.md:120-121).
ReachedMilestonesHaveInvoices ==
    \A m \in DOMAIN milestone : milestone[m].state # "created" =>
        \/ milestone[m].originalInvoice # None
        \/ \E r \in Requests : request[r].from = m /\ request[r].step \in InFlight

\* Each invoice is available on IPFS once no request is at work on it
\* (README.md:95-97).
EveryInvoiceIsOnIpfs ==
    \A i \in DOMAIN invoice :
        \/ Content(invoice[i]) \in ipfs
        \/ \E r \in Requests : request[r].invoice = i /\ request[r].step \in InFlight
=============================================================================
