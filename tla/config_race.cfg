SPECIFICATION Spec
CONSTANTS
    Nil = Nil
    op1 = op1
    op2 = op2
    Request = {r1, r2}
    Api = {a1}
    Definition <- AllDefinitions
    Kind <- AllKinds
    Fault <- MostFaults
    VersionBound = 2
INVARIANTS TypeOK SingleVectorizer ModelAtHand OnlyUpdatesHoldAndWait
PROPERTIES VersionSteps CatalogImplemented
