SPECIFICATION Spec
CONSTANTS
    alice = alice
    bob = bob
    party1 = party1
    party2 = party2
    None = None
    User = {alice, bob}
    Party = {party1, party2}
    PartyOf <- PartyOfTwo
    Tab = {tab1, tab2}
    Task = {t1, t2}
    Grant = {g1, g2}
    Login = {l1, l2}
    Faulty = TRUE
SYMMETRY Symmetric
ACTION_CONSTRAINT Prompt
CONSTRAINT Bounded
VIEW Remembered
INVARIANTS SessionTypeOK TokensAreOfOneLogin CallsAreSentAsTheirUser
PROPERTIES SentBearersAreValid LogoutShowsLogin
CHECK_DEADLOCK FALSE
