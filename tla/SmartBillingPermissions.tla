----------------------- MODULE SmartBillingPermissions -----------------------
(***************************************************************************)
(* The smart contracts with the permissions that the API backend does not  *)
(* call but the NPL demos do (npl/src/test/npl/demo): the platform records *)
(* the payment of an invoice by its debtor (Invoice.pay), and a supplier   *)
(* decides late whether a milestone's invoice goes to the market           *)
(* (Milestone.changeTreadable).  Here milestones close, and contracts      *)
(* should.                                                                 *)
(***************************************************************************)
EXTENDS SmartBilling

\* Invoice.pay as a call of its own
Pay(i) ==
    /\ i \in DOMAIN invoice
    /\ CanPay(i)
    /\ invoice' = [invoice EXCEPT ![i].state = "paid"]
    /\ milestone' = MilestonesAfterPay(i)
    /\ contract' = ContractsAfterPay(i)
    /\ participant' = [q \in DOMAIN participant |-> ParticipantAfterPay(q, i)]
    /\ UNCHANGED <<participants, offer>>

\* Milestone.changeTreadable
ChangeTreadable(m, t) ==
    /\ m \in DOMAIN milestone
    /\ milestone[m].state = "created"
    /\ milestone' = [milestone EXCEPT ![m].details.invoiceToTrade = t]
    /\ UNCHANGED <<participants, participant, contract, invoice, offer>>

NextPermission ==
    \/ Next
    \/ \E i \in Invoices : Pay(i)
    \/ \E m \in Milestones, t \in BOOLEAN : ChangeTreadable(m, t)

PermissionSpec == Init /\ [][NextPermission]_vars

-----------------------------------------------------------------------------
(* Properties *)

\* A milestone is closed exactly when an invoice drawn for it that is not
\* traded is paid, whichever of the two ways the invoice was paid
\* (invoice.npl:65-72, milestone.npl:104-113).
ClosedWhenInvoicePaid ==
    \A m \in DOMAIN milestone :
        milestone[m].state = "closed" <=>
            \E i \in DOMAIN invoice : /\ invoice[i].milestone = m
                                      /\ ~invoice[i].toBeTraded
                                      /\ invoice[i].state = "paid"

\* No step sells an offer whose invoice its debtor has paid in the meantime, or
\* records a second payment (invoice.npl:65, offer.npl:44-48).
NoSaleAfterPayment ==
    [][\A i \in DOMAIN invoice : invoice[i].state = "paid" => 
          /\ i \in DOMAIN invoice' /\ invoice'[i] = invoice[i]
          /\ i \in DOMAIN offer => offer'[i].offerBuyer = offer[i].offerBuyer]_vars

\* A contract closes when the last of its milestones is closed
\* (milestone.npl:105-110, README.md:364).
ContractClosesWithLastMilestone ==
    \A c \in DOMAIN contract : AllMilestonesClosed(c) => contract[c].state = "closed"
=============================================================================
