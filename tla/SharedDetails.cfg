SPECIFICATION Spec
CONSTANTS
    None = None
    Participants = {p1, p2}
    Contracts = {}
    Milestones = {}
    Invoices = {i1, i2}
    Documents = {d1}
    WellFormed = {d1}
    Terms <- TermsOf
    Currencies = {"EUR", "USD"}
    PaymentDetails <- OneHolder
    Amounts <- MarketAmounts
    Asks <- MarketAmounts
    MilestoneInputs = {}
    Unit = 8000
SYMMETRY MarketSymmetry
INVARIANT RegisteredInvoicesVerify
CHECK_DEADLOCK FALSE
