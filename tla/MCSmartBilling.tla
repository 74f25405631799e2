--------------------------- MODULE MCSmartBilling ---------------------------
(* Small instances of SmartBilling for TLC. *)
EXTENDS SmartBilling, TLC

\* the payment details of two suppliers
Details(iban, name) == [iban |-> iban, name |-> name]
OneHolder == {Details(1, 1)}
TwoHolders == {Details(1, 1), Details(2, 2)}

Eur(n) == [amount |-> n, ccy |-> "EUR"]
Usd(n) == [amount |-> n, ccy |-> "USD"]

\* market run: two face values, which are also the prices to ask for, so that
\* asking in the wrong currency is among the requests
MarketAmounts == {Eur(10), Usd(7)}

MarketSymmetry == Permutations(Invoices) \cup Permutations(Participants)

\* no two documents have the same terms
TermsOf == [doc \in Documents |-> doc]
=============================================================================
