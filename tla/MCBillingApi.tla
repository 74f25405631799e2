---------------------------- MODULE MCBillingApi ----------------------------
(* Small instances of BillingApi for TLC. *)
EXTENDS BillingApi, TLC

\* the payment details of suppliers; with two participants, both may have the same
TwoHolders == {[iban |-> 1, name |-> 1], [iban |-> 2, name |-> 2]}
OneHolder == {[iban |-> 1, name |-> 1]}

Eur(n) == [amount |-> n, ccy |-> "EUR"]
Usd(n) == [amount |-> n, ccy |-> "USD"]

\* every invoice and milestone is worth 4, and so are the goods
Goods == {Eur(4)}
Asked == {Eur(3)}
AskedInAnyCurrency == {Usd(3)}
AskedInEither == {Eur(3), Usd(3)}

\* a milestone whose invoice is traded, at a price that may be updated
Traded == {[amount |-> Eur(4), offerAmount |-> None, invoiceToTrade |-> TRUE,
            payAhead |-> TRUE]}

Symmetries == Permutations(Invoices) \cup Permutations(Requests)
              \cup Permutations(WellFormed) \cup Permutations(Participants)

\* no two documents have the same terms
TermsOf == [doc \in Documents |-> doc]
=============================================================================
