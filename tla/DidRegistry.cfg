SPECIFICATION Spec
CONSTANTS
    a1 = a1
    a2 = a2
    hash = hash
    c1 = c1
    c2 = c2
    d1 = d1
    d2 = d2
    d3 = d3
    Account = {a1, a2}
    OtherKey = {hash}
    Contract = {c1, c2}
    DelegateType = {sbpDelegates}
    AttributeName = {name}
    AttributeValue = {john}
    Validity = {1, 2}
    Word = 3
    LastBlock = 1
    Deploy = {d1, d2, d3}
    Calls <- MCCalls
    None = None
SYMMETRY Symmetric
INVARIANTS
    RegistryTypeOK
    OwnershipHasATitle
    DelegationsLastAsGranted
PROPERTIES
    OnlyOwnersChangeDocuments
    ImplementsDocuments
CHECK_DEADLOCK FALSE
