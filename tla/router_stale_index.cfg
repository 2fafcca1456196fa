SPECIFICATION Spec
CONSTANTS
    Nil = Nil
    e1 = e1
    e2 = e2
    Query = {q1}
    Api = {a1}
    Entry = {e1}
    Mute <- NoMute
    Fault <- NoFault
    VersionBound = 2
PROPERTIES RoutesToRegistered
