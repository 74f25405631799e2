SPECIFICATION ApiSpec
CONSTANTS
    None = None
    Participants = {p1}
    Contracts = {c1}
    Milestones = {m1}
    Invoices = {i1, i2}
    Documents = {d1, d2}
    WellFormed = {d1, d2}
    Terms <- TermsOf
    Currencies = {"EUR", "USD"}
    PaymentDetails <- OneHolder
    Amounts <- Goods
    Asks <- Asked
    MilestoneInputs <- Traded
    Unit = 8000
    Requests = {r1, r2}
    IncludeIpfs = TRUE
    Faulty = TRUE
SYMMETRY Symmetries
INVARIANT EveryInvoiceIsOnIpfs
CHECK_DEADLOCK FALSE
