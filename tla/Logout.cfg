SPECIFICATION Spec
CONSTANTS
    alice = alice
    bob = bob
    party1 = party1
    party2 = party2
    None = None
    User = {alice, bob}
    Party = {party1, party2}
    PartyOf <- PartyOfTwo
    Tab = {tab1}
    Task = {t1, t2}
    Grant = {g1, g2, g3}
    Login = {l1, l2}
    Faulty = FALSE
SYMMETRY Symmetric
VIEW Remembered
INVARIANT LogoutEndsTheLogin
CHECK_DEADLOCK FALSE
