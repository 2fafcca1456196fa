CONSTANTS
    a = a
    b = b
    i = i
    j = j
    r1 = r1
    r2 = r2
    Nil = Nil
    Name = {a, b}
    Inline = {i, j}
    Route = {r1, r2}
    Documents <- MCDocuments
    Operations <- MCOperations
    Requests <- MCRequests
SPECIFICATION Spec
INVARIANT ReferencesListed
