SPECIFICATION Spec
CONSTANTS
    Nil = Nil
    e1 = e1
    e2 = e2
    Query = {q1}
    Api = {a1, a2}
    Entry = {e1, e2}
    Mute <- MuteOne
    Fault <- NotEmbed
    VersionBound = 3
INVARIANTS TypeOK CacheCoherent IndexComplete
