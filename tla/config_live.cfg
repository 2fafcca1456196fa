SPECIFICATION FairSpec
CONSTANTS
    Nil = Nil
    op1 = op1
    op2 = op2
    Request = {r1, r2}
    Api = {a1}
    Definition <- AllDefinitions
    Kind <- NlqAndDelete
    Fault <- AllFaults
    VersionBound = 2
PROPERTIES RequestsAnswered ServableConfig
