SPECIFICATION FairSpec
CONSTANTS
    Nil = Nil
    Handler = {h1, h2}
    Initializer = {h1, h2}
    Server = {s1}
    Tool = {t1}
    Offers <- SameTools
    Fault <- AllFaults
    LoadBound = 3
PROPERTIES RequestsAnswered WorkDecreases
