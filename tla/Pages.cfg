SPECIFICATION PageSpec
CONSTANTS
    None = None
    Participants = {p1, p2}
    Contracts = {c1}
    Milestones = {m1}
    Invoices = {i1}
    Documents = {d1}
    WellFormed = {d1}
    Terms <- TermsOf
    Currencies = {"EUR"}
    PaymentDetails <- OneHolder
    Amounts <- Goods
    Asks <- Asked
    MilestoneInputs <- Traded
    Unit = 8000
    Requests = {r1}
    IncludeIpfs = TRUE
    Faulty = TRUE
    User = p1
    Tasks = {t1, t2}
    Areas <- AllAreas
SYMMETRY Symmetries
INVARIANTS
    ShownHasHappened ShownReferencesAreStored LoadShowsTheChange AnswersFitTogether
CHECK_DEADLOCK FALSE
