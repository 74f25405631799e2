SPECIFICATION ApiSpec
CONSTANTS
    None = None
    Participants = {p1, p2}
    Contracts = {c1}
    Milestones = {m1}
    Invoices = {i1, i2}
    Documents = {d1, d2}
    WellFormed = {d1, d2}
    Terms <- TermsOf
    Currencies = {"EUR", "USD"}
    PaymentDetails <- TwoHolders
    Amounts <- Goods
    Asks <- AskedInEither
    MilestoneInputs <- Traded
    Unit = 8000
    Requests = {r1, r2}
    IncludeIpfs = TRUE
    Faulty = TRUE
SYMMETRY Symmetries
INVARIANTS
    ApiTypeOK FinalisedIsPublished SuccessIsTrue HalfMadeOnlyByFailure
    MilestoneBilledOnce BilledWithinGoodsValue SettlementAgrees ListedAsRequested
    EveryOpenOfferIsListed TrackRecordCountsPayments VerifyWhenDetailsUnique
PROPERTIES BoughtOffersAreFinal
CHECK_DEADLOCK FALSE
