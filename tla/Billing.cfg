SPECIFICATION PermissionSpec
CONSTANTS
    None = None
    Participants = {p1}
    Contracts = {c1}
    Milestones = {m1, m2}
    Invoices = {i1, i2}
    Documents = {d1, d2, d3, d4}
    WellFormed = {d1, d2, d4}
    Terms <- TermsOf
    Other = d4
    Currencies = {"EUR"}
    PaymentDetails <- OneHolder
    Amounts <- Goods
    Asks <- Asked
    MilestoneInputs <- Inputs
    Unit = 8000
SYMMETRY Symmetries
INVARIANTS
    TypeOK ClosedWhenInvoicePaid MilestoneInvoicesAgree BillsAddUpToGoods
PROPERTIES FinalisedInvoicesAreImmutable NoSaleAfterPayment
CHECK_DEADLOCK FALSE
