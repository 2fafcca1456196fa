SPECIFICATION FairSpec
CONSTANTS
    Nil = Nil
    e1 = e1
    e2 = e2
    Query = {q1, q2}
    Api = {a1, a2}
    Entry = {e1}
    Mute <- NoMute
    Fault <- AllFaults
    VersionBound = 1
PROPERTIES QueriesAnswered RoutingImplemented
