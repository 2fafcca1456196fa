SPECIFICATION Spec
CONSTANTS
    Nil = Nil
    Handler = {h1, h2}
    Initializer = {h1}
    Server = {s1, s2}
    Tool = {t1}
    Offers <- SameTools
    Fault <- AllFaults
    LoadBound = 2
INVARIANTS TypeOK NoOrphanClient ToolsHaveClient
