# Smart Billing Platform: models and proofs

TLA+ models of the Smart Billing Platform in this repository (`sbp-dxd-m3`), TLC configurations that
check them on small instances, and TLAPS proofs of what matters most for every instance. Paths below
are relative to the repository's root.

## The system

Suppliers register invoices, by hand or from the milestones of a contract. Recipients verify them.
An invoice may be offered on a market, where another participant buys the right to its payment.

| Component | State it keeps | Operations | Talks to |
|---|---|---|---|
| Off-chain smart contracts, `npl/` | instances of SBP, Participant, Contract, Milestone, Invoice, Offer on the engine's heap | one permission call is one transaction: registration, contracts, milestones, invoices, verification, offers, payment | called by the API |
| API backend, `api/` (Kotlin, http4k) | none between requests; at start it finds or creates the SBP and the initial participants | REST handlers, each a sequence of blocking calls | engine, read model (GraphQL), Keycloak, IPFS, Casper |
| Seed library, `base/` | cached access token of the system user | login, refresh, logout, bearer checks, exceptions to HTTP statuses, metrics | Keycloak |
| DID registry, `casper/` (Rust contract) | owner, delegates with expiry and attributes of each identity | change_owner, add/revoke_delegate, set/revoke_attribute, init | called by deploys of the API's Casper client |
| Frontend, `frontend/` (Vue) | tokens and party (store and cookies), lists and current objects of the stores | login, refresh, logout, navigation guard, loading, wizards | the API |
| Provisioning, integration tests, NPL demos | none | | Keycloak, API, protocols |

What is hard in it:

* **Protocol sequences.** The engine serialises transactions, so a single call is simple. Its effect
  shows many legal calls later: an offer amount set in the wrong currency makes a milestone
  unbillable, two participants with equal payment details break verification, and the order of two
  statements decides whether a contract ever closes.
* **Handlers of several calls.** `InvoiceHandler.create` and `ContractHandler.closeMilestone` make up
  to eight calls with no transaction around them and no compensation. Any other request may run
  between two calls, and any call may fail.
* **Restarts.** The backend creates the initial participants again at each start and asks a read model
  that may lag whether the SBP exists.
* **Sessions.** Tokens are refreshed concurrently by functions that share one store, and logging out,
  logging in as somebody else and reloading the tab race with them. The tabs of a browser share three
  cookies, each read and written by itself.
* **Pages.** An answer is put together from many engine reads while other transactions run, arrives
  late, and is stored whatever page is open by then; buttons are shown by what is stored and act on the
  page's own uuid.
* **The chain.** Deploys are sent and never awaited, and expiry is computed in 64 bits.

What makes each component correct:

* *Smart contracts*: offer, invoice, buyer and track record agree on what was paid; every open offer is
  on the market; a registered invoice verifies and has no duplicate; a contract's invoices bill what it
  says, and add up to the value of its goods; what is final stays as it is; contracts close.
* *Billing handlers*: what is finalised is published; success is only reported when it is true;
  half-made invoices come from failures only; a milestone is billed once however many clients close it,
  and so no contract beyond its goods; every request is answered.
* *Start-up and registration*: one SBP; a user acts as a participant made for this user, and no two users
  as the same; what a registration answered stays true; a start renews every initial user.
* *DID registry*: only an identity's owner changes anything about it; ownership has a single history;
  delegates expire when they should.
* *Session*: the tokens and the party belong together, unless scripts of two tabs met at the cookies; a call
  is sent as the user who made it, with a token that has not expired; logging out ends on the login page and
  ends the login.
* *Pages*: what is shown as done is done; a reference that is shown leads to a stored document; the
  reads of one answer fit together; who did something is shown it.

`PROJECT.json` lists each component with its status, and each hazard at its line.

## Modules

| Module | What it is |
|---|---|
| `SmartBilling` | the smart contracts, one action per engine transaction that the API can cause |
| `SmartBillingPermissions` | the two permissions only the NPL demos call (`Invoice.pay`, `Milestone.changeTreadable`) |
| `Sums` | lemmas about folds over finite sets: what a sum is, by induction on the set |
| `SmartBillingProofs` | theorems about `SmartBilling`: types, verification, billing of milestones, settlement, track records, finality |
| `SmartBillingPermissionsProofs` | theorems about `SmartBillingPermissions`: closing, payment |
| `BillingApi` | the two billing handlers, call by call, over the transactions of `SmartBilling` |
| `BillingApiProofs` | the handlers implement `SmartBilling`, so its theorems hold of the backend; what they answer, publish and leave behind |
| `BillingPages` | a user's tab on `BillingApi`: read handlers, store actions, pages, links, buttons, forms, verification |
| `BillingPagesProofs` | theorems about `BillingPages`: the tab is a client of the backend, and what it shows is true |
| `Accounts` | starts of the backend, registrations, and Keycloak's pointer from user to participant |
| `AccountsProofs` | theorems about `Accounts` |
| `Session` | the frontend's tokens and router with the backend's login, refresh and logout |
| `SessionProofs` | theorems about `Session` |
| `DidDocuments` | what the DID registry promises: one document per account, edited by its owner |
| `DidRegistry` | the registry's contract, its installations, and the deploys that call it |
| `DidRegistryProofs` | theorems about `DidRegistry`, among them that it implements `DidDocuments` |
| `MCSmartBilling`, `MCPermissions`, `MCBillingApi`, `MCBillingPages`, `MCAccounts`, `MCSession`, `MCDidRegistry` | values of the constants for TLC |

`BillingApi` EXTENDS `SmartBilling` and `BillingPages` EXTENDS `BillingApi`: transactions, handlers and
pages run interleaved on one state. `Accounts`, `Session` and `DidRegistry` share no variables with
them. What `SmartBilling` calls a participant is made by `createUserProtocol`, the call that `Accounts`
orders and repeats.

### SmartBilling

Every protocol's instances are a function from the identities created so far to records: the heap of
the engine. `participant[p].issuedInvoices` is the variable of that name in `participant.npl`, and so
on; an offer is identified by its `originalInvoice`, since an invoice has at most one. An action is a
whole transaction: nested calls belong to it (`BuyOffer` is `becomeAssigned`, `setBuyerOnOffer`,
`setBuyer`, `registerBoughtOffer`, `becomePaid`, `pay`, `closeMilestone`, `closeContract` and
`updateTrackRecord`), and a transaction that fails a guard, meets the wrong state or an empty
`getOrFail()` is rolled back, hence no step.

Abstractions:

* A *document* stands for an invoice's number, debtor, deadline and issue date together; it is
  `WellFormed` when the number is not empty and the dates are in order. Its `Terms` are the debtor and the
  deadline: `createOriginalInvoice` compares these with the milestone, while the number and the issue
  date are free arguments of it (`milestone.npl:58-82`). Reaching a milestone fixes the document with
  which the backend bills it (`due`): a well-formed one exactly when its payment period is not negative,
  which the API does not require. The contracts by themselves allow further invoices of a milestone under
  other numbers; that it is billed once is the handlers' merit (`MilestoneBilledOnce`).
* Amounts are integers and may be negative: neither the API nor `createContract`, which adds up the
  milestones, asks for more.
* Payment details keep the IBAN apart, because `updateOfferPrice` compares IBANs only.
* Offer prices are counted in 1/`Unit` of a currency unit, so that the track record (0.9, raised by 5%
  per payment) stays an integer. `Raised` rounds down; `Unit = 8000` makes every raise that the
  instances reach exact.
* A set has no order, so where the code takes the first participant with given payment details, any of
  them may be taken.
* `cancelled` (offers) and `traded` (invoices) are never observable: nothing sets the first, and
  `finaliseInvoice` overwrites the second in the same transaction. `Contract.addMilestone` is called
  by nothing and left out.

### BillingApi

`request[r]` holds the locals of the handler serving request `r`: the step it is at, the participant
or milestone it is about, the invoice request (which `closeMilestone` puts together from its reads),
and the invoice. `ipfs` is the set of requests signed and stored. Each call is a step; engine calls are
the actions of `SmartBilling`. A call the engine refuses ends the request (`refused`), and with
`Faulty` a handler may stop before any call (`failed`): the call threw, its answer was lost, or the
backend was killed. All handlers with a single transaction are that transaction (`OtherRequest`).

The invoice that a request makes is `request[r].invoice`; with `ipfs` it says who made what and what was
published of it, which is what the handlers' properties relate.

Fairness (`FairApiSpec`): each handler makes its next step eventually. Each request has a thread of its
own and every call returns or throws. Nothing is assumed of clients.

### DidRegistry

`owners`, `delegates` and `attributes` are the dictionaries of each installed contract: functions from the
keys they hold, nested as in the code and, as there, rewritten as a whole. A deploy is a record with its
signer, the contract it calls and the call. `Send` puts it on its way, and later it is executed (one action
per entry point), or it leaves no trace (`Drop`: the call reverts, the deploy expires or was never
received). `SendAddDelegate` is the API's client: it takes the contract from the name at the time of sending
and does not wait. `Install` is the session `call`, which may move the name to a new, empty contract. Expiry
is computed modulo `Word` (2^64: the release build does not check overflow). A deploy's arguments that
cannot be parsed revert and are not enumerated; gas and serialisation are left out. The node (delivery,
order, block time) is external.

`DidDocuments` flattens this to one document per account and registry: owner, expiry of each delegate of
each type, value of each attribute. The mapping `Document` is what somebody who queries the
dictionaries resolves, defaults included.

### BillingPages

`route` is the page that is open, `visited` the browser's history since the tab was loaded, `store` the
slots of the Pinia stores, each holding the copies that one answer was made from, and `task[t]` a store
action: at `acting` it waits for the answer to its request, at `list` and `read` a read handler of the
API works for it. `ListIds` is the handler's first engine call (or the uuid in its path), `ReadNext` one
engine read, in the order of the handler; a milestone's reference to IPFS is a read of its own, which
depends on the milestone as it was read. `StoreAnswer` stores the answer whatever page is open.

What a page shows follows from its slot, as the getters of the stores and the templates of the views
have it: rows of a list (`ContractRows`, `InvoiceRows`, `OfferRows`) with the links of its table, the links
of bars and lists (`Links`), the buttons of a page (`ContractView`, `CompleteButtons`, `MilestoneView`,
`OfferView`), the fields of an invoice (`InvoiceView`). The user follows a link or the history (`Visit`,
`OpenForm`), or types an address (`Reload`), which starts the tab anew. A page whose component is already
mounted, for another uuid, is reused and loads nothing. Buttons act on the uuid in the path, except
"Mark as Complete", which acts on what the slot holds. Prices and purchases pass through their dialog;
a form is saved step by step (`SaveInvoiceStep`, `SaveContractStep`) and sends its request once, from its
third step. What they cause is the transaction of `SmartBilling`, or a request of `BillingApi`
(`Complete`, `AddInvoice`); then the store action loads anew (`Answered`) or moves on (`MoveOn`).

On the page for verification a file is sent (`VerifyFile`), answered by the contract SBP (`ServeVerify`) or
not at all (`VerifyFails`), and the answer is shown (`ShowStatus`) unless the page has been left or
loaded anew: `dialog` holds the task whose answer it waits for. Everything else of `BillingApi` (other
users, handlers, failures) runs at any time.

Abstractions: sets have no order, so an answer lists in any order, and `Complete` does not ask that the
milestone listed before is reached; parts of an answer that never change, and the reads that only serve
them, are left out. What a form takes on its way is chosen when it is sent; the user's own payment
details are those of the profile, which is taken to have arrived by then. A dialog is closed by its
button or by leaving the page. The content of the account page, layout and wording are left out.

### Accounts

`participant` is the sequence of all participants in the order of their creation, with the SBP they are
registered at, the user they are for, and the request that made them (none: a start did). `account` is
the `party`/`uuid` attribute of each Keycloak user. `backend.phase` is the next call of a start: query
the read model, create the SBP, and then for each initial user create the participant, send the
delegate, find the Keycloak user, update it. A start may fail, or the backend be killed, before any call
(`Stop`). The read model shows an SBP when it gets to it (`ReadModelShows`). Registrations
(`ParticipantHandler.create`) make the participant first and the Keycloak user second; either call may
fail, with or without its effect. `Found[u]` is what Keycloak's search for `u`, which matches every name
that contains `u`, may return; the start takes the first of it. `blind` is a history variable: some
start met a read model that did not show the SBP yet.

### Session

`login` are Keycloak's sessions, `grant` the token pairs it issued, `cookie` the browser's three cookies,
`store[tab]` the user store of a tab, `task[t]` a function of the frontend that awaits an answer. A step of
a task is all the code up to its next `await`, except that each access to a cookie is a step of its own,
between which other tabs run and this one does nothing else (`Busy`): `script[tab]` says which cookie the
tab comes to next and whose answer it writes. `WriteCookie` and `Patch` are the three writes and the
`$patch` of the store, `ReadCookie` and `Open` the three reads when a tab is loaded. `Provide` is the token
provider of `data/api/index.ts` up to its first request, `RefreshAnswered` the store's `refresh` and what
the provider does after it, `GuardLogin` and `GuardMain` the router's guard. `Serve...` are the backend's
routes with what Keycloak answers them. A request may get lost or fail at any time (`Fail`), a tab be closed
or reloaded (`Unload`, `Open`), tokens expire, and Keycloak may end a session.

Two scripts that meet at the cookies do mix the tokens of two logins: nothing in the code prevents it. Two
history variables say where that may be, so that `TokensAreOfOneLogin` can say that it is nowhere
else: `torn`, that another tab wrote while the cookies were last written (`alone` of the script), and `mixed`,
the tabs that were loaded from such cookies, or while a tab was writing, and have had no answer since.

The profile of a store is merged with, not replaced by, the empty one of `$patch`: until the next answer of
`loadUserProfile` a tab keeps the profile it showed before.

Abstractions: a token pair is fresh, expiring (the 15 s in which the provider renews) or expired, and
does not expire while the answer that carries it is on its way; a refresh token outlives its access
token. Passwords, realms and roles are left out, as is what calls of the API answer.

### Mutants

Definitions commented "Mutant:" are faulty variants of the definition that follows them, as a
plausible bug would make it. No specification uses them. For every property of a passing run,
`PROJECT.json` names the mutant with which TLC finds that property violated.

## Runs

| Run | Instance | What it shows |
|---|---|---|
| `billing` | 1 supplier, 1 contract of 1-2 milestones, one of a negative amount, 2 invoices, 4 documents, payments by the debtor, late decisions to trade | contract, milestones and invoices agree; the bills of a contract add up to its goods; a milestone closes exactly with its paid invoice; a paid invoice is never sold; invoices are immutable once final |
| `api` | 2 billing requests, no failures, with fairness | every request is answered; a reached milestone is billed |
| `api_faults` | 2 billing requests that may fail anywhere, 2 participants with equal or different payment details, prices in 2 currencies, sales and repricings | publication, truthful answers, half-made invoices, one bill per milestone, and no contract billed beyond its goods; settlement, listing, track records, verification, finality of purchases |
| `pages` | 1 user with 2 store actions at once, 1 contract, 1 milestone, 1 invoice, 1 billing request that may fail | what pages show has happened, is stored, fits together, and includes what the user did; a file that verifies says what an issued invoice says |
| `accounts` | 2 initial users, one of whose names another user's contains, 3 registrations, 2 SBPs, 6 participants | who acts as which participant on which SBP, over any number of starts |
| `session` | 2 users, 2 tabs, 2 functions at once, 2 token pairs, 2 Keycloak sessions, faults | tokens belong together unless two scripts met at the cookies, calls are sent as their user with valid tokens, logging out shows the login page |
| `did_registry` | 2 accounts, a key that is none, 3 deploys, 2 installations, 64-bit words shrunk to 3 values | ownership, delegations, refinement of `DidDocuments` |
| `contract_closure` | as `billing`, 2 documents | **violated**: see findings |
| `shared_details` | 2 participants with equal payment details, 2 invoices | **violated** |
| `unbilled_milestone` | 2 requests, no failures, offer amounts in another currency | **violated** |
| `unpublished_invoice` | 2 requests that may fail | **violated** |
| `logout` | 2 users, 1 tab, 2 functions at once, 3 token pairs, no faults | **violated** |

Why the bounds are enough: the properties relate at most two invoices, two participants (supplier and buyer,
or two suppliers) and two milestones of a contract. A duplicate needs two invoices with one document; a
second one of the same terms lets a milestone be billed again under another number, one of other terms lets
it be billed differently, and an ill-formed one lets a milestone be due before it is issued. Milestones of 8
and -4 make the goods of 4 a sum that a single bill exceeds. Two requests are enough for a race, and there
are as many invoices as requests, so no request waits for an identity. Instances really stop when the
identities are used up, so deadlock is not checked; a browser that nobody touches and a chain without
deploys may stop, too. In `did_registry` three deploys let one be signed by an owner, overtaken by a
hand-over, and executed after it, or a delegate be granted, granted again and revoked; `Word = 3` with block
times 0 and 1 and validities 1 and 2 has sums that wrap and sums that do not. All calls are about one
identity: what a call does to another one is part of each property.

In `pages`, two loads are enough for a late answer to overtake another, and the slots do not depend on each
other, so the user of one behaviour keeps to the pages of one slot and those its actions lead to (`Areas`);
all of them are explored. Links from one slot to another (from a row to its page) open a page that the
address bar opens as well; that they lead to something is proved. With one instance of each kind, a
component reused for another uuid is left to the proofs, which bound nothing. In `accounts`, six
participants are two complete starts and two more creations, or one start and registrations; a second SBP is
what a blind start makes. In `session`, two tasks are a call that waits for a token and whatever runs
meanwhile; two tabs are enough for scripts to meet at the cookies, and two token pairs, of one user or of
two, are the old and the new one, or those of two logins. Two bounds keep the instance small; both are in
`MCSession`. `Prompt` is about steps: while a tab is at the cookies only the cookies are used, by it or by
the other tab, and an answer is dealt with before its tab does anything else. `Bounded` is about states: at
most one token pair is getting old at a time, Keycloak ends no session, and while both tabs are open, or the
cookies or a tab are mixed, no token gets old and no call or refresh fails. So tokens expire and requests
fail around one tab, and tabs race with fresh tokens. Under both, the scripts of two tabs still meet in
every order of their accesses. The proofs have neither bound, nor any on tabs, tasks and token pairs. A
token pair or a session that nobody holds any more is forgotten (`VIEW Remembered`), and may be issued anew.

Symmetry is used in runs without liveness properties only;
invoices, participants, milestones and well-formed documents of equal terms are interchangeable.

## Findings

1. **A contract never closes** (`contract_closure`). `closeMilestone` asks whether all milestones are
   closed before it closes its own (`npl/src/main/npl/sbp/milestone.npl:106-112`), so the last milestone
   does not see itself closed. `README.md:364` promises the contract stays open until all its invoices
   are paid, not for ever.
2. **Registered invoices that cannot be verified** (`shared_details`). Verification looks only at the
   first participant with the creditor's payment details (`SBP.npl:33-36`). Two participants with equal
   details arise at each restart of the backend (`Main.kt:126-128`). `README.md:307` promises
   confirmation of any registered invoice. With distinct payment details the promise is kept, which is
   proved (`RegisteredInvoicesAreAuthentic`).
3. **Milestones that can never be billed** (`unbilled_milestone`). `Milestone.updateOfferAmount` takes
   any currency (`milestone.npl:37-40`), and the invoice's guard refuses it only after the milestone has
   been reached. `README.md:120-121` promises an invoice whenever a milestone is reached.
   `ReachedMilestoneIsBilled` (run `api`) shows what holds: the invoice comes when the currency is right, the
   period is not negative and no invoice that says the same exists.
4. **Registered invoices that are never published** (`unpublished_invoice`). The invoice is registered
   before it is uploaded (`InvoiceHandler.kt:71-88`); a failure in between leaves it registered,
   verifiable, not on IPFS, and the same request is then refused as a duplicate. `README.md:95-97`
   promises each invoice on IPFS. What holds is `FinalisedIsPublished`.
5. **Logging out does not end the login** (`logout`). The frontend posts the access token, named
   `refresh_token`, in a JSON body and without an Authorization header
   (`frontend/src/data/api/index.ts:105-113`); the route is behind `loginRequired`
   (`LoginRoutes.kt:29`) and reads a form (`Authentication.kt:255`), so every logout is refused and the
   Keycloak session and its refresh token live on. `index.ts:94-98` says the call "Invalidates a current
   login". What holds is `LogoutShowsLogin`: the tab forgets the tokens and shows the login page,
   which it does because the logout fails (`user.ts:140`).

## Proofs

TLAPS checks every proof to the last leaf. None of them bounds a constant: the assumptions are named
and stand in the module that declares the constants.

`SmartBillingProofs`, for any sets of participants, documents and requests and any finite sets of
contracts, milestones and invoices (`Parameters`, `NoneIsDistinct`, `FiniteInvoices`,
`FiniteMilestones`, `FiniteContracts`: the engine has created finitely many instances at any time):

* `TypeCorrect`: `TypeOK` is an invariant. It is inductive as it stands because it includes
  `ReferencesOK`: without it, looking up the supplier of an invoice would have no type.
* `RegisteredInvoicesAreAuthentic`: `VerifyWhenDetailsUnique`. Not inductive: a step adds an
  invoice to one registry after a check of another. The strengthening `RegistryInv` adds that a
  registry holds exactly its supplier's invoices, that invoices and contracts carry the supplier's own
  payment details, and that documents are distinct while payment details are. The duplicate check then
  reads the registry that the new invoice goes to. The cardinality of the matching invoices is 1 because
  the set contains the invoice itself and no other.
* `MarketIsComplete`: `EveryOpenOfferIsListed`, from the registries and from offers belonging to
  existing invoices.
* `MilestonesAreBilledAsAgreed`: `MilestoneInvoicesAgree`, from `BillingInv`, which adds to
  `RegistryInv` what the guards on the way to an invoice leave behind (`Signed`: a milestone with dates
  is reached, a reached one belongs to a signed contract). It holds of every invoice drawn for a
  milestone, of further ones under other numbers, too.
* `BillsCoverGoods`: `BillsAddUpToGoods`. The guard of `createContract` compares the goods with the
  amounts of the milestones; what is billed are the invoices' amounts. `ValueInv` therefore adds
  `GoodsCovered`, the guard kept as an invariant (amounts never change), and an invoice that a
  milestone names as its own bills that milestone's amount (`BilledAsAgreed`). Amounts may be negative.
* `PaymentsSettle`, `MarketListsAsRequested`, `BoughtOffersStand`: from `TradeInv`. That an invoice is paid
  exactly when its offer is bought is kept only because what is on the market was asked to be, in its own
  currency, and because buyers hold nothing but offers that exist.
* `FinalisedInvoicesStand`: from `TypeOK` alone.
* `TrackRecordsCountPayments`: `TrackRecordCountsPayments` is kept because a payment raises one
  supplier's record once and adds one invoice to those that supplier has paid. `TrackRecordAfter` is a
  recursive function: that it satisfies its equation is shown by induction (`TrackRecordAfterDef`).

`Sums` defines induction by a set of the numbers with the property (`NatSetInduction`), which needs no
operator as a parameter, and from it induction over the subsets of a finite set (`SubsetInduction`). What
`SumFunctionOnSet` of the community modules means follows from the fold it is made of: the sum over
nothing is 0, and an element may be taken out of it (`SumPick`, `SumRemove`).

`SmartBillingPermissionsProofs`, under the same assumptions, when debtors pay and suppliers decide late:

* `MilestonesCloseWhenPaid`: `ClosedWhenInvoicePaid` is inductive with the types. A payment changes one
  invoice and the milestone it names (`PayCloses`), every other step neither (`NothingPaid`).
* `PaidInvoicesAreNotSold`: a purchase needs an invoice that can still be paid.
* `PaidMilestonesAreBilledAsAgreed`, `PaidBillsCoverGoods`, `PaidInvoicesStand`: the invariants
  above are kept by the two permissions as well, which neither make an invoice nor change what one says.
  (Settlement is not: an invoice its debtor paid has an offer nobody bought.)
* `EitherPaymentCounts`: an invoice that its debtor paid was not paid before.

`BillingApiProofs`, for any number of requests, interleaved and failing as they
may (`ApiParameters`, `ApiNoneIsDistinct`):

* `BackendTypeCorrect`: handlers' locals are well typed. It needs `RequestsOK`: what a request holds at
  each step, above all that a milestone which was read has its dates, because no transaction takes
  them back (`DueStays`).
* `BackendImplementsContracts`: every step of a handler is one transaction of `SmartBilling` or none, so
  all its invariants hold; `BackendInvoicesAreAuthentic` is the case of `VerifyWhenDetailsUnique`.
* `FinalisedInvoicesArePublished`, `ClosuresBillOnce`, `OnlyFailuresLeaveHalfMade`, `SuccessesAreTrue`: from
  `HandlerInv`. Its core is ownership: every invoice is the work of one request (`Ownership`), and every
  milestone that is reached and not billed is in the hands of the one request that reached it, or of one
  that failed (`ClaimsOK`); the contracts alone would let a milestone be billed twice. What a request knows
  of its invoice then stays true while others run, because only it finalises that invoice (`LocalsOK`).

* `RequestsStayWithinGoods`: `BilledWithinGoodsValue`, of contracts without negative milestones. What is
  billed is a sum over invoices, the goods are one over milestones. They are compared along the map from
  an invoice to its milestone, which is injective because a milestone has one invoice
  (`ClosuresBillOnce`) and keeps the amount because an invoice agrees with its milestone (`Sums`,
  `SumInjection`); milestones that are not billed add nothing negative. That an engine call is only made with
  documents that exist, so that a handler's step is a transaction, needs `RequestsOK`.

`BillingPagesProofs`, for one user's tab with any number of store actions at once, on a backend with any
number of other users and requests (`PageParameters`: the user is a participant, tasks, requests, dialogs,
steps and `None` are told apart, and whatever price may be asked may be asked in every currency). The
inductive invariant is `PagesInv`, the conjunction of `ApiInv`, which gathers what holds of the backend, and
`PagesOK`, which says of every slot, every answer on its way and every store action what it knows. Its part
`RouteOK` says that the page that is open and those in the history exist; it is kept because a link is made of
an instance that was read (`LinksLead`), and nothing is ever deleted:

* `PagesAreClients`: a click, a read and a stored answer is a step of `ApiSpec` or a stutter of it.
* `PagesShowWhatHappened`: `ShownHasHappened`. No property of the present state says that a copy is
  old but true; what does is that every instance only goes on (`Advances`, proved of each transaction
  by `StepAdvances`): states do not go back, dates and amounts of reached milestones stay, invoices keep their
  content. A copy that is true when it is read stays true (`KeepCopy`), through the answer and the slot.
  A contract shown as complete is complete because all the milestones of the answer are those of its contract,
  and a percentage of 100 leaves none out (`HundredPercent`, by `\div`), in the row of a list as in its page. An
  answer that a file is authentic stays true because an invoice that says so keeps its content (`KeepAuthentic`).
* `PagesShowStoredReferences`: `ShownReferencesAreStored`, from `StoredRefs` (a reference is set after the
  upload, and nothing is taken from IPFS) and from an invoice's content never changing.
* `PagesShowTheChange`: `LoadShowsTheChange`. The invariant says of a store action what its request has done
  once it was answered, of the answer it then loads that it is read after that, and of `todo` that what is
  not yet read is still to come; when nothing is left to read, the changed instance is among what was read.
* `PagesFitTogether`: `AnswersFitTogether`. The reads of an answer fit because of their order: what is read
  later has gone on at least as far as what was read before, so an open offer is followed by its finalised
  invoice, a bought one by a paid one, and an invoice with a reference by its milestone's reference. Reading
  in the other order would not be safe, which the mutant shows.

`AccountsProofs`, for any users, any order of initial users, any result of a search by name, any number
of starts and registrations (`AccountParameters`, `AccountNone`):

* `AccountsTyped`, `UsersActAsThemselves`, `RegistrationsStand`, `OneUserPerParticipant`: from
  `AccountInv`, which says what a start and a registration hold at each call. Its core is that a
  participant that was just made is nobody's yet, so that pointing a user at it takes it from nobody.
* `MarketIsNotSplit`: from `MarketInv`: unless a start was blind, it makes an SBP only when there is none.
* `StartsRenewInitialUsers`: from `RenewalInv`, which says of the initial users a start is through with what
  the property says of all of them when it is over.

`SessionProofs`, for any number of tabs, tasks, users, token pairs and sessions (`SessionParameters`,
`SessionNone`, `GrantsAreNoWords`):

* `SessionTyped`, `NobodyActsAsAnother`, `BearersAreValid`, `LogoutLeadsToLogin`: from `CallsInv`, the types
  with `RunOK`, which says of a task what its request carries: a call's token is the task's user's, its refresh
  token and its answer are, and no answer on its way has expired. A token pair that somebody holds
  is not issued again, so that a step of Keycloak changes nothing of what stores and tasks hold. None of
  this needs the cookies to be consistent: a tab with the tokens of two users makes nobody's calls, and its
  next refresh puts them right.
* `TokensBelongTogether`: from `SessionInv`, which adds `CookiesInv`. A script that is half done has no
  consistent cookies to rely on; what holds is that, as long as it was alone, the cookies it wrote are those
  of its answer (`WriterOK`), and the store it fills has what the cookies still say (`ReaderOK`). When it
  comes to the last cookie, all three are of one answer, or another tab wrote in between, which `torn` and
  `mixed` record.

`DidRegistryProofs`, for any accounts, keys, contracts, deploys and word size (`RegistryParameters`,
`RegistryNone`, `CallsAreTyped`):

* `RegistryTypeCorrect`: the types, inductive with two facts added: deploys call installed contracts, and
  the dictionaries of others are empty.
* `DocumentsChangeByOwners`: from what each entry point leaves as it was (`OtherDocuments`).
* `OwnersHaveATitle`: inductive, since a set closed under more hand-overs is closed under fewer.
* `DelegationsAreTimely`: the grant executed last has the greatest block time, because no deploy is
  dated after the present.
* `RegistryImplementsDocuments`: initial states map to initial states, `Install` to `Open`, an entry point
  to the edit of the same name, everything else to a stutter.

Only model-checked:

* `EveryRequestAnswered` and `ReachedMilestoneIsBilled` (run `api`): liveness under fairness is out of
  the prover's reach. Every other property of a run is also proved, or is refuted by the run.

## Not modelled

* `Contract.addMilestone` of the smart contracts: nothing calls it.
* The parsing of UBL XML and of dates and periods, signing and key parsing, the layout of requests and
  responses, statuses of exceptions, CORS, access log, metrics, configuration, the GraphQL client,
  provisioning: they keep no protocol state. What a parser lets through and a later guard refuses (negative
  payment periods) is among the inputs.
* The token provider of the backend's own system user: a cached token, renewed before it expires, with
  one user and no logout.
* The order of lists, and with it the frontend's rule that milestones are completed in order, which the
  backend does not enforce.
* Layout and wording of the frontend, the fields of its forms before they are sent, the content of the account
  page, and pages that are used before the user's profile has arrived.
