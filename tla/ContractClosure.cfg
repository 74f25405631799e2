SPECIFICATION PermissionSpec
CONSTANTS
    None = None
    Participants = {p1}
    Contracts = {c1}
    Milestones = {m1, m2}
    Invoices = {i1, i2}
    Documents = {d1, d2}
    WellFormed = {d1, d2}
    Terms <- TermsOf
    Other = None
    Currencies = {"EUR"}
    PaymentDetails <- OneHolder
    Amounts <- Goods
    Asks <- Asked
    MilestoneInputs <- Inputs
    Unit = 8000
SYMMETRY Symmetries
INVARIANT ContractClosesWithLastMilestone
CHECK_DEADLOCK FALSE
