---------------------------- MODULE BillingPages ----------------------------
(***************************************************************************)
(* A user's browser tab on the billing backend.  A page that is opened     *)
(* loads what it shows: a store action (frontend/src/stores) calls a read  *)
(* handler of the API (ContractHandler, InvoiceHandler, OfferHandler),     *)
(* which reads the protocols one engine call at a time, and stores the     *)
(* answer in a slot that the pages of its kind share.  Nothing cancels a   *)
(* load, so answers are stored in the order they arrive, whatever page is  *)
(* open by then.  The links and buttons of a page are shown by what its    *)
(* slot holds, and the buttons act on the page's own uuid; what they do to *)
(* the smart contracts runs between the reads of every load.               *)
(*                                                                         *)
(* An answer is the function of the copies it was made from.  The parts of *)
(* an answer that never change (names, the supplier, the customer) and the *)
(* reads that only serve them are left out.                                *)
(***************************************************************************)
EXTENDS BillingApi, SequencesExt

CONSTANTS
    User,          \* the participant of the user who is logged in
    Tasks,         \* Bound: store actions running at once
    Areas          \* Bound: the names of the pages the user opens in one behaviour

VARIABLES
    area,          \* the one of Areas the user keeps to
    route,         \* the page that is open: its name and the uuid in its path
    visited,       \* the pages in the browser's history since the tab was loaded
    dialog,        \* the dialog that is open on it, the step of its form, or the state
                   \* of its verification: while a document is being verified, the task
    store,         \* what the slots of the stores hold
    task           \* the store actions that are running

pageVars == <<area, route, visited, dialog, store, task>>
allVars == <<apiVars, pageVars>>

-----------------------------------------------------------------------------
(* Types *)

\* The page of each name keeps what it shows in a slot; the three lists of
\* offers share one.
SlotOf ==
    [contracts |-> "contracts", contract |-> "contractCurrent",
     milestone |-> "milestoneCurrent", invoices |-> "invoices",
     invoice |-> "invoiceCurrent", marketplace |-> "offers", offers |-> "offers",
     portfolio |-> "offers", offer |-> "offerCurrent"]

Slots == {SlotOf[name] : name \in DOMAIN SlotOf}

Forms == {"newInvoice", "newContract"}
Steps == {"step1", "step2", "step3", "sent"}
Dialogs == {"buy", "price"}
FileStatus == {"readyForUpload", "success", "failed"}

\* The pages that load nothing of their own
Unloaded == Forms \cup {"account", "verifyInvoice"}

\* The protocols, and the pages that show one of them
Protocols ==
    ({"contract"} \X Contracts) \cup ({"milestone"} \X Milestones)
        \cup (({"invoice"} \cup {"offer"}) \X Invoices)

Lists == {"contracts", "invoices", "marketplace", "offers", "portfolio"}
Pages == Protocols \cup ((Lists \cup Unloaded) \X {None})

Idle == [step |-> "idle", action |-> "visit", about |-> None, request |-> None,
         page |-> None, todo |-> <<>>, got |-> <<>>]

\* What a file that a user verifies says of an invoice
Files == [document : Documents, amount : Amounts, creditorData : PaymentDetails]

\* A price may be asked in any currency.
ASSUME PageParameters ==
    /\ User \in Participants
    /\ None \notin Requests \cup Dialogs \cup Steps \cup FileStatus
    /\ Tasks \cap ({None} \cup Dialogs \cup Steps \cup FileStatus) = {}
    /\ \A ask \in Asks, ccy \in Currencies : [ask EXCEPT !.ccy = ccy] \in Asks

-----------------------------------------------------------------------------
(* Helpers *)

Is(t, step) == task[t].step = step

\* The store action of task t loads page.
Load(t, page) ==
    task' = [task EXCEPT ![t].step = "list", ![t].page = page]

\* What the component of a page calls when it is mounted
OnMounted(page) == [Idle EXCEPT !.step = "list", !.page = page]

Starts(t, page) ==
    /\ Is(t, "idle")
    /\ task' = [task EXCEPT ![t] = OnMounted(page)]

\* The store action of task t has sent its request, and will load page when it
\* is answered.
Sends(t, action, about, r, page) ==
    /\ Is(t, "idle")
    /\ task' = [task EXCEPT ![t] = [Idle EXCEPT !.step = "acting", !.action = action,
                              !.about = about, !.request = r, !.page = page]]

Ends(t) == task' = [task EXCEPT ![t] = Idle]

\* The instance a page is about exists.
Exists(page) ==
    \/ page[1] \in Lists \cup Unloaded
    \/ page[1] = "contract" /\ page[2] \in DOMAIN contract
    \/ page[1] = "milestone" /\ page[2] \in DOMAIN milestone
    \/ page[1] = "invoice" /\ page[2] \in DOMAIN invoice
    \/ page[1] = "offer" /\ page[2] \in DOMAIN offer

\* The copies of protocols of one kind that an answer holds
Held(got, kind) == {got[item] : item \in {it \in DOMAIN got : it[1] = kind}}

PageInit ==
    /\ ApiInit
    /\ area \in Areas
    /\ route = None
    /\ visited = {}
    /\ dialog = None
    /\ store = [slot \in Slots |-> <<>>]
    /\ task = [t \in Tasks |-> Idle]

(***************************************************************************)
(* The read handlers                                                       *)
(***************************************************************************)

\* The lists of a user
MyContracts == {"contract"} \X participant[User].contracts
IssuedInvoices == {"invoice"} \X participant[User].issuedInvoices
OpenOffers == {"offer"} \X GetOpenOffers
MyIssuedOffers == {"offer"} \X ReturnMyIssuedOffers(User)
MyBoughtOffers == {"offer"} \X participant[User].boughtOffers

\* What a handler starts from: the references its first engine call returns, or
\* the uuid in its path
Listed(page) ==
    CASE page[1] = "contracts"   -> MyContracts
      [] page[1] = "invoices"    -> IssuedInvoices
      [] page[1] = "marketplace" -> OpenOffers
      [] page[1] = "offers"      -> MyIssuedOffers
      [] page[1] = "portfolio"   -> MyBoughtOffers
      [] OTHER                   -> {page}

ListIds(t) ==
    /\ Is(t, "list")
    /\ \E items \in SetToSeqs(Listed(task[t].page)) :
          task' = [task EXCEPT ![t].step = "read", ![t].todo = items]
    /\ UNCHANGED <<apiVars, area, route, visited, dialog, store>>

\* getBlockchainRef of a milestone as it was read
BlockchainRef(ms) ==
    ms.originalInvoice # None /\ invoice[ms.originalInvoice].blockchainRef

\* What the engine returns for a read, given what was read before
Copy(item, got) ==
    CASE item[1] = "contract"  -> contract[item[2]]
      [] item[1] = "milestone" -> milestone[item[2]]
      [] item[1] = "invoice"   -> invoice[item[2]]
      [] item[1] = "offer"     -> offer[item[2]]
      [] item[1] = "reference" -> BlockchainRef(got[<<"milestone", item[2]>>])

\* A contract's answer: all milestones are read, then all their references.
ContractReads(c) ==
    {[k \in 1..Len(ms) |-> <<"milestone", ms[k]>>]
        \o [k \in 1..Len(ms) |-> <<"reference", ms[k]>>] : ms \in SetToSeqs(c.milestones)}

\* A milestone's answer, on its own or in that of an invoice
MilestoneReads(m) == {<< <<"reference", m>> >>}

InvoiceReads(inv) ==
    IF inv.milestone = None THEN {<<>>} ELSE {<< <<"milestone", inv.milestone>> >>}

OfferReads(i) == {<< <<"invoice", i>> >>}

\* The reads that follow that of item, in the orders they may come
Further(item, copy, page) ==
    CASE item[1] = "contract" -> ContractReads(copy)
      [] item[1] = "milestone" /\ page[1] \notin {"contracts", "contract"} ->
            MilestoneReads(item[2])
      [] item[1] = "invoice" /\ page[1] \in {"invoices", "invoice"} -> InvoiceReads(copy)
      [] item[1] = "offer" -> OfferReads(item[2])
      [] OTHER -> {<<>>}

ReadNext(t) ==
    /\ Is(t, "read")
    /\ task[t].todo # <<>>
    /\ LET item == Head(task[t].todo)
           copy == Copy(item, task[t].got)
       IN  \E next \in Further(item, copy, task[t].page) :
              task' = [task EXCEPT ![t].todo = next \o Tail(@),
                                   ![t].got = Create(@, item, copy)]
    /\ UNCHANGED <<apiVars, area, route, visited, dialog, store>>

\* The answer arrives and is stored.
StoreAnswer(t) ==
    /\ Is(t, "read")
    /\ task[t].todo = <<>>
    /\ store' = [store EXCEPT ![SlotOf[task[t].page[1]]] = task[t].got]
    /\ Ends(t)
    /\ UNCHANGED <<apiVars, area, route, visited, dialog>>

\* The load fails; the store action logs the error and leaves its slot alone.
LoadFails(t) ==
    /\ Faulty
    /\ task[t].step \in {"list", "read"}
    /\ Ends(t)
    /\ UNCHANGED <<apiVars, area, route, visited, dialog, store>>

(***************************************************************************)
(* What the pages show                                                     *)
(***************************************************************************)

\* The instances of one kind that an answer holds
Ids(got, kind) == {item[2] : item \in {it \in DOMAIN got : it[1] = kind}}

\* getCompletionPercentage of a contract of an answer
CompletionPercentage(got, c) ==
    LET ms == got[<<"contract", c>>].milestones
        completed == {m \in ms : got[<<"milestone", m>>].state \in {"reached", "closed"}}
    IN  IF ms = {} THEN 0 ELSE (Cardinality(completed) * 100) \div Cardinality(ms)

\* getContracts, getInvoices and getOffers: the rows of a list
ContractRows(got) ==
    {[uuid |-> c, value |-> got[<<"contract", c>>].goodsValue,
      completionPercentage |-> CompletionPercentage(got, c)] : c \in Ids(got, "contract")}

InvoiceRows(got) ==
    {[uuid |-> i, value |-> got[<<"invoice", i>>].amount,
      status |-> got[<<"invoice", i>>].state] : i \in Ids(got, "invoice")}

OfferRows(got) ==
    {[uuid |-> i, price |-> got[<<"offer", i>>].amount,
      amount |-> got[<<"invoice", i>>].amount] : i \in Ids(got, "offer")}

\* The tables link each row to its page.
TableContract(rows) == {<<"contract", row.uuid>> : row \in rows}
TableInvoice(rows) == {<<"invoice", row.uuid>> : row \in rows}
TableMarketplace(rows) == {<<"offer", row.uuid>> : row \in rows}

\* What the pages of lists link to.  The three pages of offers show what their slot
\* holds, whichever of them it was loaded for.
ContractsListView == TableContract(ContractRows(store.contracts)) \cup {<<"newContract", None>>}
InvoicesListView == TableInvoice(InvoiceRows(store.invoices)) \cup {<<"newInvoice", None>>}
MarketplaceView == TableMarketplace(OfferRows(store.offers))
OffersView == MarketplaceView
PortfolioView == MarketplaceView

\* The milestones of a contract's page link to theirs.
MilestonesComponent == {"milestone"} \X Ids(store.contractCurrent, "milestone")

\* The side bar and the top bar of all pages but that of the verification
SideBar == Lists \X {None}
TopBar == {<<"account", None>>}

\* What the page that is open links to
Links ==
    IF route = None \/ route[1] = "verifyInvoice" THEN {}
    ELSE SideBar \cup TopBar
           \cup CASE route[1] = "contracts" -> ContractsListView
                  [] route[1] = "invoices" -> InvoicesListView
                  [] route[1] = "marketplace" -> MarketplaceView
                  [] route[1] = "offers" -> OffersView
                  [] route[1] = "portfolio" -> PortfolioView
                  [] route[1] = "contract" -> MilestonesComponent
                  [] OTHER -> {}

\* What the pages of one contract and of one milestone show
CurrentContract == Held(store.contractCurrent, "contract")
CurrentMilestone == Held(store.milestoneCurrent, "milestone")

\* "Sign & Submit" is shown by the contract in the slot.
ContractView == {"sign" : c \in {c \in CurrentContract : c.state = "createdBySupplier"}}

\* The contract and the milestone of each button "Mark as Complete".  (The code also
\* asks that the milestone listed before it is reached; lists are not ordered here.)
CompleteButtons ==
    LET shown == store.contractCurrent
    IN  {button \in Ids(shown, "contract") \X Ids(shown, "milestone") :
            /\ shown[<<"contract", button[1]>>].state = "creationFinalised"
            /\ shown[<<"milestone", button[2]>>].state = "created"}

\* "EDIT PRICE" is shown by the milestone in the slot.
MilestoneView ==
    {"price" : ms \in {ms \in CurrentMilestone :
                          ms.details.invoiceToTrade /\ ms.state = "created"}}

\* Whose the offers in the slot are, those that are open
CurrentOffer ==
    {invoice[i].supplier : i \in {i \in Ids(store.offerCurrent, "offer") :
                                     store.offerCurrent[<<"offer", i>>].state = "open"}}

\* "Buy", or "Edit Price" for the supplier, each with its dialog
OfferView == {IF supplier = User THEN "price" ELSE "buy" : supplier \in CurrentOffer}

\* What the page of invoice i shows of an answer
InvoiceView(got, i) ==
    LET inv == got[<<"invoice", i>>]
    IN  [invoiceStatus |-> inv.state, blockchainReference |-> inv.blockchainRef,
         amount |-> inv.amount, milestone |-> inv.milestone,
         offerAmount |-> inv.offerAmount, toBeTraded |-> inv.toBeTraded]

(***************************************************************************)
(* What the user does                                                      *)
(***************************************************************************)

\* The first dialog of a page
FirstDialog(page) ==
    CASE page[1] \in Forms -> "step1"
      [] page[1] = "verifyInvoice" -> "readyForUpload"
      [] OTHER -> None

\* The router shows page.
Shown(page) == route' = page /\ visited' = visited \cup {page}

\* ... with a new component
Mounted(page) == Shown(page) /\ dialog' = FirstDialog(page)

\* The address bar, or a reload: the tab starts anew and forgets its store actions.
Reload(t, page) ==
    /\ User \in DOMAIN participant
    /\ page[1] \in area
    /\ Exists(page)
    /\ route' = page
    /\ visited' = {page}
    /\ dialog' = FirstDialog(page)
    /\ store' = [slot \in Slots |-> <<>>]
    /\ task' = [s \in Tasks |->
                   IF s = t /\ page[1] \notin Unloaded
                   THEN OnMounted(page) ELSE Idle]
    /\ UNCHANGED <<apiVars, area>>

\* A link or the browser's history leads to a page, which loads what it shows when it
\* is mounted.  A page of the same kind stays mounted and loads nothing.
Visit(t, page) ==
    /\ page[1] \in area \ Unloaded
    /\ page \in Links \cup visited
    /\ route # page
    /\ IF route[1] = page[1]
       THEN Shown(page) /\ UNCHANGED <<dialog, task>>
       ELSE Mounted(page) /\ Starts(t, page)
    /\ UNCHANGED <<apiVars, area, store>>

\* ... to a page that loads nothing
OpenForm(form) ==
    LET page == <<form, None>>
    IN  /\ form \in area
        /\ page \in Links \cup visited
        /\ route # page
        /\ Mounted(page)
        /\ UNCHANGED <<apiVars, area, store, task>>

\* "Sign & Submit" signs the contract of the path.
Sign(t) ==
    /\ route # None /\ route[1] = "contract"
    /\ "sign" \in ContractView
    /\ FinaliseCreation(route[2])
    /\ Sends(t, "sign", route[2], None, route)
    /\ UNCHANGED <<request, ipfs, area, route, visited, dialog, store>>

\* "Mark as Complete" is for the contract and the milestone in the slot.
Complete(t, c, m, r) ==
    /\ route # None /\ route[1] = "contract"
    /\ <<c, m>> \in CompleteButtons
    /\ PostClosure(r, m)
    /\ Sends(t, "complete", m, r, <<"contract", c>>)
    /\ UNCHANGED <<area, route, visited, dialog, store>>

OpenDialog(button) ==
    /\ \/ route # None /\ route[1] = "offer" /\ button \in OfferView
       \/ route # None /\ route[1] = "milestone" /\ button \in MilestoneView
    /\ dialog' = button
    /\ UNCHANGED <<apiVars, area, route, visited, store, task>>

\* "Proceed" buys the offer of the path at whatever price it has by now, and
\* moves on to the portfolio.
Buy(t) ==
    /\ dialog = "buy"
    /\ BuyOffer(User, route[2])
    /\ Sends(t, "buy", route[2], None, <<"portfolio", None>>)
    /\ UNCHANGED <<request, ipfs, area, route, visited, dialog, store>>

EditOfferPrice(t, ask) ==
    /\ dialog = "price" /\ route[1] = "offer"
    /\ UpdateOfferPrice(User, route[2], ask.amount)
    /\ dialog' = None
    /\ Sends(t, "price", route[2], None, route)
    /\ UNCHANGED <<request, ipfs, area, route, visited, store>>

\* The new price is in the currency of the milestone in the slot.
EditMilestonePrice(t, ask) ==
    /\ dialog = "price" /\ route[1] = "milestone"
    /\ \E ms \in CurrentMilestone :
          UpdateOfferAmount(route[2], [ask EXCEPT !.ccy = ms.details.amount.ccy])
    /\ dialog' = None
    /\ Sends(t, "price", route[2], None, route)
    /\ UNCHANGED <<request, ipfs, area, route, visited, store>>

\* "Save & Continue" on the first two steps of a form
Saved == [step1 |-> "step2", step2 |-> "step3"]

SaveInvoiceStep ==
    /\ route = <<"newInvoice", None>>
    /\ dialog \in DOMAIN Saved
    /\ dialog' = Saved[dialog]
    /\ UNCHANGED <<apiVars, area, route, visited, store, task>>

SaveContractStep ==
    /\ route = <<"newContract", None>>
    /\ dialog \in DOMAIN Saved
    /\ dialog' = Saved[dialog]
    /\ UNCHANGED <<apiVars, area, route, visited, store, task>>

\* The third step sends what the form took, once: the user's own payment details, and
\* a price in the currency of the amount.
AddInvoice(t, r, req) ==
    /\ route = <<"newInvoice", None>>
    /\ dialog = "step3" /\ dialog' = "sent"
    /\ req.creditorData = participant[User].paymentDetails
    /\ req.offerAmount # None => req.offerAmount.ccy = req.amount.ccy
    /\ PostInvoice(r, User, req)
    /\ Sends(t, "addInvoice", None, r, None)
    /\ UNCHANGED <<area, route, visited, store>>

\* What the third step of the form takes: at least one milestone, all in the currency of
\* the goods
NewMilestones(inputs, goodsValue) ==
    /\ DOMAIN inputs # {}
    /\ \A m \in DOMAIN inputs :
          /\ inputs[m].amount.ccy = goodsValue.ccy
          /\ inputs[m].offerAmount # None => inputs[m].offerAmount.ccy = goodsValue.ccy

AddContract(t, c, inputs, goodsValue) ==
    /\ route = <<"newContract", None>>
    /\ dialog = "step3" /\ dialog' = "sent"
    /\ NewMilestones(inputs, goodsValue)
    /\ CreateContract(User, c, inputs, goodsValue)
    /\ Sends(t, "addContract", c, None, <<"contract", c>>)
    /\ UNCHANGED <<request, ipfs, area, route, visited, store>>

(***************************************************************************)
(* How the requests are answered                                           *)
(***************************************************************************)

\* Mutant: the page is loaded before the request is answered
AnsweredAtOnce(t) ==
    /\ Is(t, "acting")
    /\ task[t].action \in {"sign", "complete", "price"}
    /\ Load(t, task[t].page)
    /\ UNCHANGED <<apiVars, area, route, visited, dialog, store>>

\* The answer to its request lets a store action load the page anew ...
Answered(t) ==
    /\ Is(t, "acting")
    /\ task[t].action \in {"sign", "complete", "price"}
    /\ task[t].request # None => At(task[t].request, "ok")
    /\ Load(t, task[t].page)
    /\ UNCHANGED <<apiVars, area, route, visited, dialog, store>>

\* ... or move on to another page, which loads as if the user had opened it, unless one
\* of its kind is open.
MoveOn(t) ==
    /\ Is(t, "acting")
    /\ task[t].action \in {"buy", "addInvoice", "addContract"}
    /\ task[t].request # None => At(task[t].request, "ok")
    /\ LET page == IF task[t].action = "addInvoice"
                   THEN <<"invoice", request[task[t].request].invoice>>
                   ELSE task[t].page
       IN  IF route[1] = page[1]
           THEN Shown(page) /\ UNCHANGED dialog /\ Ends(t)
           ELSE Mounted(page) /\ Load(t, page)
    /\ UNCHANGED <<apiVars, area, store>>

\* The request fails, or its answer is lost: the store action ends there.
Rejected(t) ==
    /\ Is(t, "acting")
    /\ task[t].action # "verify"
    /\ IF task[t].request = None
       THEN Faulty
       ELSE At(task[t].request, "refused") \/ At(task[t].request, "failed")
    /\ Ends(t)
    /\ UNCHANGED <<apiVars, area, route, visited, dialog, store>>

(***************************************************************************)
(* The verification of an invoice                                          *)
(***************************************************************************)

\* "Verify" sends the file.
VerifyFile(t, file) ==
    /\ dialog = "readyForUpload" /\ dialog' = t
    /\ Sends(t, "verify", file, None, route)
    /\ UNCHANGED <<apiVars, area, route, visited, store>>

\* The contract SBP takes the first participant with the supplier's payment details.
ServeVerify(t) ==
    /\ Is(t, "acting") /\ task[t].action = "verify"
    /\ LET file == task[t].about
       IN  \E q \in Holders(file.creditorData) :
              LET verified == VerifyAuthenticity(q, file.document, file.amount, file.creditorData)
              IN  task' = [task EXCEPT ![t].step = IF verified THEN "success" ELSE "failed"]
    /\ UNCHANGED <<apiVars, area, route, visited, dialog, store>>

\* There is no such participant, or the request fails.
VerifyFails(t) ==
    /\ Is(t, "acting") /\ task[t].action = "verify"
    /\ Holders(task[t].about.creditorData) = {} \/ Faulty
    /\ task' = [task EXCEPT ![t].step = "failed"]
    /\ UNCHANGED <<apiVars, area, route, visited, dialog, store>>

\* The answer is shown, unless the page that asked for it is gone.
ShowStatus(t) ==
    /\ Is(t, "success") \/ Is(t, "failed")
    /\ dialog' = IF dialog = t THEN task[t].step ELSE dialog
    /\ Ends(t)
    /\ UNCHANGED <<apiVars, area, route, visited, store>>

\* "Verify another"
VerifyFileAgain ==
    /\ dialog \in {"success", "failed"}
    /\ dialog' = "readyForUpload"
    /\ UNCHANGED <<apiVars, area, route, visited, store, task>>

-----------------------------------------------------------------------------

Click(t) ==
    \/ \E page \in Pages : Reload(t, page) \/ Visit(t, page)
    \/ Sign(t)
    \/ \E c \in Contracts, m \in Milestones, r \in Requests : Complete(t, c, m, r)
    \/ Buy(t)
    \/ \E ask \in Asks : EditOfferPrice(t, ask) \/ EditMilestonePrice(t, ask)
    \/ \E r \in Requests, req \in PostedRequest : AddInvoice(t, r, req)
    \/ \E c \in Contracts, goodsValue \in Amounts, ms \in SUBSET Milestones :
          \E inputs \in [ms -> MilestoneInputs] : AddContract(t, c, inputs, goodsValue)
    \/ \E file \in Files : VerifyFile(t, file)

Runs(t) ==
    \/ Answered(t) \/ MoveOn(t) \/ Rejected(t)
    \/ ListIds(t) \/ ReadNext(t) \/ StoreAnswer(t) \/ LoadFails(t)
    \/ ServeVerify(t) \/ VerifyFails(t) \/ ShowStatus(t)

PageNext ==
    \/ ApiNext /\ UNCHANGED pageVars
    \/ \E form \in Unloaded : OpenForm(form)
    \/ \E button \in Dialogs : OpenDialog(button)
    \/ SaveInvoiceStep \/ SaveContractStep \/ VerifyFileAgain
    \/ \E t \in Tasks : Click(t) \/ Runs(t)

PageSpec == PageInit /\ [][PageNext]_allVars

-----------------------------------------------------------------------------
(* Properties *)

\* The state of an instance only moves on.
Rank ==
    [createdBySupplier |-> 0, creationFinalised |-> 1,
     created |-> 0, reached |-> 1, finalised |-> 1, traded |-> 2, paid |-> 3,
     open |-> 0, assigned |-> 1, bought |-> 2, closed |-> 2]

\* The instance has come at least as far as its copy, and what is fixed by then
\* is as copied.
StillHolds(item, copy) ==
    CASE item[1] = "contract" ->
            /\ Rank[copy.state] <= Rank[contract[item[2]].state]
            /\ [copy EXCEPT !.state = contract[item[2]].state] = contract[item[2]]
      [] item[1] = "milestone" ->
            LET now == milestone[item[2]]
            IN  /\ Rank[copy.state] <= Rank[now.state]
                /\ copy.state # "created"
                      => copy.details = now.details /\ copy.due = now.due
                /\ copy.originalInvoice # None => copy.originalInvoice = now.originalInvoice
      [] item[1] = "invoice" ->
            LET now == invoice[item[2]]
            IN  /\ Rank[copy.state] <= Rank[now.state]
                /\ copy.blockchainRef => now.blockchainRef
                /\ Content(copy) = Content(now)
      [] item[1] = "offer" ->
            copy.state = "bought" => copy = offer[item[2]]
      [] item[1] = "reference" ->
            copy => invoice[milestone[item[2]].originalInvoice].blockchainRef

\* An invoice says what the file says.
Authentic(file) ==
    \E i \in DOMAIN invoice :
        [document |-> invoice[i].document, amount |-> invoice[i].amount,
         creditorData |-> invoice[i].creditorData] = file

\* However late its answer arrived, whatever ran between its reads and whichever page
\* is open by then, what a page shows as done is done: contracts it shows signed, milestones reached,
\* invoices finalised or paid, offers bought and references set are so, with the
\* amounts it shows; a contract that is listed as complete is complete, and a file
\* that is answered to be authentic says what an issued invoice says
\* (ContractHandler.kt:106-136 and 257-284, OfferHandler.kt:131-144,
\* stores/offer.ts:88-95, InvoiceHandler.kt:138-200).
ShownHasHappened ==
    /\ \A slot \in Slots : \A item \in DOMAIN store[slot] : StillHolds(item, store[slot][item])
    /\ \A row \in ContractRows(store.contracts) : row.completionPercentage = 100 =>
          \A m \in contract[row.uuid].milestones : milestone[m].state # "created"
    /\ \A t \in Tasks : Is(t, "success") => Authentic(task[t].about)

\* Every blockchain reference a page shows leads to a document on IPFS that says
\* what the invoice says, although the reference, the invoice and the milestone
\* of one page are read at different times (Milestone.kt:12-18,
\* InvoiceHandler.kt:203-216, OfferHandler.kt:131-144).
ShownReferencesAreStored ==
    \A slot \in Slots :
        LET got == store[slot]
        IN  /\ \A inv \in Held(got, "invoice") : inv.blockchainRef => Content(inv) \in ipfs
            /\ \A m \in Milestones :
                  <<"reference", m>> \in DOMAIN got /\ got[<<"reference", m>>]
                     => Content(invoice[milestone[m].originalInvoice]) \in ipfs

\* Whoever signs a contract, completes a milestone, buys an offer or issues an
\* invoice is answered with a page that shows it: what is loaded after the
\* request contains its effect (stores/contract.ts:135-142, stores/offer.ts:96-99,
\* stores/invoice.ts:76-79).  A load that was on its way may still replace it, and where
\* the answer moves on to a page that is reused, that page loads nothing.
LoadShowsTheChange ==
    \A t \in Tasks : Is(t, "read") /\ task[t].todo = <<>> =>
        LET got == task[t].got
            about == task[t].about
        IN  /\ task[t].action = "sign" =>
                  got[<<"contract", about>>].state = "creationFinalised"
            /\ task[t].action = "complete" =>
                  /\ got[<<"milestone", about>>].state = "reached"
                  /\ IncludeIpfs => got[<<"reference", about>>]
                  /\ got[<<"contract", task[t].page[2]>>].state = "creationFinalised"
            /\ task[t].action = "buy" =>
                  /\ <<"offer", about>> \in DOMAIN got
                  /\ got[<<"offer", about>>].offerBuyer = User
            /\ task[t].action = "addInvoice" =>
                  LET shown == InvoiceView(got, task[t].page[2])
                  IN  /\ shown.invoiceStatus \in {"finalised", "paid"}
                      /\ IncludeIpfs => shown.blockchainReference

\* The protocols of one answer fit together, although each is read at a time of
\* its own: an offer that is shown, open or bought, is for an invoice that is
\* finalised and has its reference, a bought one for a paid invoice; the portfolio
\* shows the user's purchases only; an invoice is drawn for a milestone that is
\* shown as reached, with the invoice's reference (OfferHandler.kt:131-144,
\* InvoiceHandler.kt:203-216).
AnswersFitTogether ==
    \A t \in Tasks : Is(t, "read") /\ task[t].todo = <<>> =>
        LET got == task[t].got
        IN  \A item \in DOMAIN got :
               /\ item[1] = "offer" =>
                     LET inv == got[<<"invoice", item[2]>>]
                     IN  /\ inv.state # "created"
                         /\ IncludeIpfs => inv.blockchainRef
                         /\ got[item].state = "bought" => inv.state = "paid"
                         /\ task[t].page[1] = "portfolio" =>
                               got[item].state = "bought" /\ got[item].offerBuyer = User
               /\ (/\ task[t].page[1] \in {"invoices", "invoice"}
                   /\ item[1] = "invoice" /\ got[item].milestone # None) =>
                     LET m == got[item].milestone
                     IN  /\ got[<<"milestone", m>>].state # "created"
                         /\ got[item].blockchainRef => got[<<"reference", m>>]
=============================================================================
