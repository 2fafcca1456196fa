SPECIFICATION Spec
CONSTANTS
    Nil = Nil
    op1 = op1
    op2 = op2
    Request = {r1}
    Api = {a1, a2}
    Definition <- AllDefinitions
    Kind <- NlqAndDelete
    Fault <- KillAndStore
    VersionBound = 4
INVARIANTS ServableAtRest OneDefinitionAtRest
PROPERTIES DeleteAllOrNothing
