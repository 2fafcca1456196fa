SPECIFICATION FairSpec
CONSTANTS
    Nil = Nil
    op1 = op1
    op2 = op2
    Request = {r1, r2}
    Api = {a1}
    Definition <- OneDefinition
    Kind <- AllKinds
    Fault <- NoFault
    VersionBound = 2
PROPERTIES UpdatesAnswered
CHECK_DEADLOCK FALSE
