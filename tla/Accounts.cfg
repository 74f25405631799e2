SPECIFICATION Spec
CONSTANTS
    user1 = user1
    user2 = user2
    auser1 = auser1
    anna = anna
    None = None
    User = {user1, user2, auser1, anna}
    Initial <- InitialTwo
    Found <- FoundByName
    Request = {r1, r2, r3}
    MaxSbps = 2
    MaxCreations = 6
SYMMETRY Symmetric
INVARIANTS
    AccountsTypeOK UsersActAsTheirOwn RegistrationsHold ParticipantsAreNotShared
    OneMarket InitialUsersAreRenewed
CHECK_DEADLOCK FALSE
