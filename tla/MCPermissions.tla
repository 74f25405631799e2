---------------------------- MODULE MCPermissions ----------------------------
(* Small instances of SmartBillingPermissions for TLC. *)
EXTENDS SmartBillingPermissions, TLC

CONSTANT Other     \* the document with terms of its own, if there is one

OneHolder == {[iban |-> 1, name |-> 1]}

Eur(n) == [amount |-> n, ccy |-> "EUR"]

\* goods worth 4: a milestone of 4, or one of 8 and a discount of 4
Goods == {Eur(4)}
Asked == {Eur(3)}

\* billed and paid by the debtor, or traded with and without a price that was asked for;
\* the second one's invoice is due before the milestone is complete
MilestoneOf(n, ask, trade, ahead) ==
    [amount |-> Eur(n), offerAmount |-> ask, invoiceToTrade |-> trade, payAhead |-> ahead]

Inputs ==
    {MilestoneOf(4, None, FALSE, TRUE), MilestoneOf(4, Eur(3), TRUE, FALSE),
     MilestoneOf(8, None, TRUE, TRUE), MilestoneOf(-4, None, FALSE, TRUE)}

\* Interchangeable documents differ in their numbers only, those of the same terms in
\* their numbers and issue dates.
Alike == WellFormed \ {Other}
TermsOf == [doc \in Documents |-> IF doc = Other THEN "other" ELSE "terms"]

Symmetries == Permutations(Invoices) \cup Permutations(Milestones)
              \cup Permutations(Alike)
=============================================================================
