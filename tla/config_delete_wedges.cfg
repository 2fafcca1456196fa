SPECIFICATION Spec
CONSTANTS
    Nil = Nil
    op1 = op1
    op2 = op2
    Request = {r1, r2}
    Api = {a1}
    Definition <- OneDefinition
    Kind <- NlqAndDelete
    Fault <- NoFault
    VersionBound = 3
INVARIANTS ServableAtRest
