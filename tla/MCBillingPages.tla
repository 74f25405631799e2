--------------------------- MODULE MCBillingPages ---------------------------
(* A small instance of BillingPages for TLC. *)
EXTENDS BillingPages

OneHolder == {[iban |-> 1, name |-> 1]}

Eur(n) == [amount |-> n, ccy |-> "EUR"]
Goods == {Eur(4)}
Asked == {Eur(3)}

Traded == {[amount |-> Eur(4), offerAmount |-> None, invoiceToTrade |-> TRUE,
            payAhead |-> TRUE]}

\* The slots do not depend on each other, so it is enough that the user keeps to
\* the pages of one slot at a time, and those that its actions move on to.
AllAreas ==
    {{"contracts"}, {"contract"}, {"newContract"}, {"milestone"}, {"invoices"},
     {"newInvoice", "invoice"}, {"offers"}, {"marketplace", "portfolio"}, {"offer"},
     {"verifyInvoice"}}

Symmetries == Permutations(Tasks)

\* no two documents have the same terms
TermsOf == [doc \in Documents |-> doc]
=============================================================================
