-------------------------- MODULE SchemaDepthProofs --------------------------
(***************************************************************************)
(* The recursion of getSchemasRef is no deeper than there are schemas: a   *)
(* schema is entered once. Named schemas are recorded in refs; an inline   *)
(* schema is used in one place, which is entered once.                     *)
(***************************************************************************)
EXTENDS SchemaRefsProofs, FiniteSetTheorems

\* Where the outermost loop has its schemas from.
Entries == IF phase = "body" THEN BodySchema ELSE operation.parameters \ parameters

\* path holds the schemas whose calls are under way, visited those that have been
\* entered.
Called(visited, path) ==
    /\ path \in [1..Len(stack) - 1 -> visited]
    /\ \A k, l \in 1..Len(stack) - 1 : path[k] = path[l] => k = l
    /\ \A k \in 1..Len(stack) - 1 : stack[k + 1] \subseteq Followed(path[k])
    /\ stack # <<>> => stack[1] \subseteq Entries
    /\ \A k \in 1..Len(stack) : stack[k] \cap Inline \cap visited = {}
    /\ parameters \cap Inline \cap visited = {}
    /\ \A i \in visited \cap Inline :
          \/ i \in operation.parameters
          \/ phase = "body" /\ i \in BodySchema
          \/ \E m \in visited : i \in Followed(m)
    /\ refs = visited \cap Name

PathInv ==
    phase # "none" =>
        \E visited \in SUBSET Node : \E path \in [1..Len(stack) - 1 -> visited] :
            Called(visited, path)

-----------------------------------------------------------------------------

LEMMA FollowedIsUsed ==
    ASSUME NEW n, NEW m \in Followed(n)
    PROVE  m \in Uses(document, n)
<1>1. Present(n) # {}
    BY DEF Followed
<1> DEFINE first == CHOOSE x \in Present(n) : \A y \in Present(n) : x <= y
<1>2. Present(n) \subseteq 1..6
    BY DEF Present, Keywords
<1>3. first \in Present(n)
    <2>1. \E x \in Present(n) : \A y \in Present(n) : x <= y
        BY <1>1, <1>2
    <2> QED
        BY <2>1
<1>4. Followed(n) = document[n][Keywords[first]]
    BY <1>1 DEF Followed
<1> HIDE DEF first
<1>5. Keywords[first] \in DOMAIN document[n]
    BY <1>3 DEF Present
<1> QED
    BY <1>4, <1>5 DEF Uses

\* An inline schema is an entry or below one schema, and not both.
LEMMA OneOwner ==
    ASSUME WrittenOnce, document \in Documents, operation \in Operations, NEW i \in Inline
    PROVE  /\ \A m, n \in Node : i \in Followed(m) /\ i \in Followed(n) => m = n
           /\ \A n \in Node : i \in Followed(n) => i \notin operation.parameters \cup BodySchema
           /\ i \in operation.parameters => i \notin BodySchema
<1>1. BodySchema \subseteq BodySchemas(operation)
    BY DEF BodySchema, BodySchemas
<1>2. \A n \in Node : i \in Followed(n) => i \in Uses(document, n)
    BY FollowedIsUsed
<1> QED
    BY <1>1, <1>2 DEF WrittenOnce

LEMMA StartPath == SchemaInv /\ BuildOperationString => PathInv'
<1> SUFFICES ASSUME SchemaInv, BuildOperationString PROVE PathInv'
    OBVIOUS
<1>1. stack' = <<>> /\ refs' = {} /\ phase' = "parameters"
    BY DEF SchemaInv, Idle, BuildOperationString
<1> DEFINE path == [k \in 1..0 - 1 |-> Nil]
<1>2. path \in [1..Len(stack)' - 1 -> {}]
    BY <1>1
<1>3. Called({}, path)'
    BY <1>1, <1>2 DEF Called
<1> QED
    BY <1>2, <1>3 DEF PathInv

\* The outermost call begins.
LEMMA EnterPath ==
    ASSUME WrittenOnce, SchemaInv, PathInv, ParameterRefs \/ RequestBodyRefs
    PROVE  PathInv'
<1>1. /\ phase = "parameters" /\ phase' \in {"parameters", "body"}
      /\ stack = <<>>
      /\ UNCHANGED <<document, operation, refs>>
      /\ parameters' \subseteq parameters
    BY DEF ParameterRefs, RequestBodyRefs
<1>2. document \in Documents /\ operation \in Operations /\ parameters \subseteq operation.parameters
    BY <1>1 DEF SchemaInv, Busy
<1>3. PICK visited \in SUBSET Node :
             \E path \in [1..Len(stack) - 1 -> visited] : Called(visited, path)
    BY <1>1 DEF PathInv
<1>3a. PICK path \in [1..Len(stack) - 1 -> visited] : Called(visited, path)
    BY <1>3
<1>4. /\ BodySchema' = BodySchema
      /\ \A n : Followed(n)' = Followed(n)
    BY <1>1, SameReached
<1>5. \/ stack' = <<>>
      \/ \E entry : stack' = <<entry>> /\ entry \subseteq Entries' /\ entry \cap Inline \cap visited = {}
    <2>1. CASE ParameterRefs
        <3>1. PICK p \in parameters : stack' = <<{p}>> /\ parameters' = parameters \ {p}
            BY <2>1 DEF ParameterRefs
        <3>2. phase' = "parameters"
            BY <1>1, <2>1 DEF ParameterRefs
        <3>3. {p} \subseteq Entries' /\ {p} \cap Inline \cap visited = {}
            BY <1>1, <1>2, <1>3a, <3>1, <3>2 DEF Entries, Called
        <3> QED
            BY <3>1, <3>3
    <2>2. CASE RequestBodyRefs
        <3>1. phase' = "body" /\ stack' = IF BodySchema = {} THEN <<>> ELSE <<BodySchema>>
            BY <2>2 DEF RequestBodyRefs
        <3>2. BodySchema \cap Inline \cap visited = {}
            <4> SUFFICES ASSUME NEW i \in Inline, i \in BodySchema, i \in visited PROVE FALSE
                OBVIOUS
            <4>1. i \in operation.parameters \/ \E m \in visited : i \in Followed(m)
                BY <1>1, <1>3a DEF Called
            <4> QED
                BY <1>2, <4>1, OneOwner
        <3> QED
            BY <1>4, <3>1, <3>2 DEF Entries
    <2> QED
        BY <2>1, <2>2
<1>6. /\ 1..Len(stack) - 1 = {}
      /\ 1..Len(stack') - 1 = {}
      /\ \A k \in 1..Len(stack') : k = 1 /\ stack' # <<>>
    <2>1. Len(stack) = 0 /\ (stack' = <<>> \/ Len(stack') = 1)
        BY <1>1, <1>5
    <2>2. \/ Len(stack') = 0
          \/ Len(stack') = 1 /\ stack' # <<>>
        <3>1. CASE stack' = <<>>
            BY <3>1
        <3>2. CASE \E entry : stack' = <<entry>>
            BY <3>2
        <3> QED
            BY <1>5, <3>1, <3>2
    <2>3. 1..0 - 1 = {} /\ 1..0 = {} /\ 1..1 - 1 = {} /\ \A k \in 1..1 : k = 1
        OBVIOUS
    <2> QED
        BY <2>1, <2>2, <2>3
<1>7. path \in [1..Len(stack') - 1 -> visited]
    BY <1>6
<1>8. \A k \in 1..Len(stack') : stack'[k] \subseteq Entries' /\ stack'[k] \cap Inline \cap visited = {}
    BY <1>5, <1>6
<1>9. stack' # <<>> => stack'[1] \subseteq Entries'
    BY <1>5
<1>10. Called(visited, path)'
    BY <1>1, <1>3a, <1>4, <1>6, <1>7, <1>8, <1>9 DEF Called
<1> QED
    BY <1>7, <1>10 DEF PathInv

\* A call returns, or one schema of its loop is done.
LEMMA ShorterPath ==
    ASSUME NEW visited \in SUBSET Node, NEW path \in [1..Len(stack) - 1 -> visited],
           Called(visited, path), stack \in Seq(SUBSET (Node \cup {Nil})),
           UNCHANGED <<document, operation, parameters, phase, refs>>,
           Len(stack') \in Nat, Len(stack') <= Len(stack),
           \A k \in 1..Len(stack') : stack'[k] \subseteq stack[k],
           stack' # <<>> => 1 \in 1..Len(stack')
    PROVE  PathInv'
<1>1. /\ BodySchema' = BodySchema
      /\ Entries' = Entries
      /\ \A n : Followed(n)' = Followed(n)
    BY SameReached DEF Entries
<1>2. /\ Len(stack) \in Nat
      /\ \A k \in 1..Len(stack') - 1 : k \in 1..Len(stack) - 1 /\ k + 1 \in 1..Len(stack')
      /\ \A k \in 1..Len(stack') : k \in 1..Len(stack)
    OBVIOUS
<1>3. PICK calls \in [1..Len(stack') - 1 -> visited] :
             \A k \in 1..Len(stack') - 1 : calls[k] = path[k]
    <2>1. [k \in 1..Len(stack') - 1 |-> path[k]] \in [1..Len(stack') - 1 -> visited]
        BY <1>2
    <2> QED
        BY <2>1
<1>5. \A k, l \in 1..Len(stack') - 1 : calls[k] = calls[l] => k = l
    BY <1>2, <1>3 DEF Called
<1>6. \A k \in 1..Len(stack') - 1 : stack'[k + 1] \subseteq Followed(calls[k])'
    BY <1>1, <1>2, <1>3 DEF Called
<1>7. \A k \in 1..Len(stack') : stack'[k] \cap Inline \cap visited = {}
    BY <1>2 DEF Called
<1>8. stack' # <<>> => stack'[1] \subseteq Entries'
    BY <1>1, <1>2 DEF Called
<1>9. Called(visited, calls)'
    BY <1>1, <1>3, <1>5, <1>6, <1>7, <1>8 DEF Called
<1> QED
    BY <1>3, <1>9 DEF PathInv

LEMMA ReturnPath ==
    ASSUME SchemaInv, PathInv, NEW n,
           NilSchema \/ LoopEnds \/ KnownReference(n)
    PROVE  PathInv'
<1>1. stack # <<>> /\ UNCHANGED <<document, operation, parameters, phase, refs>>
    BY DEF NilSchema, LoopEnds, KnownReference
<1>2. phase # "none" /\ stack \in Seq(SUBSET (Node \cup {Nil}))
    BY <1>1, InLoop
<1>3. PICK visited \in SUBSET Node :
             \E path \in [1..Len(stack) - 1 -> visited] : Called(visited, path)
    BY <1>2 DEF PathInv
<1>3a. PICK path \in [1..Len(stack) - 1 -> visited] : Called(visited, path)
    BY <1>3
<1>4. /\ Len(stack') \in Nat /\ Len(stack') <= Len(stack)
      /\ \A k \in 1..Len(stack') : stack'[k] \subseteq stack[k]
      /\ stack' # <<>> => 1 \in 1..Len(stack')
    <2>1. CASE NilSchema \/ LoopEnds
        <3>1. stack' = SubSeq(stack, 1, Len(stack) - 1)
            BY <2>1 DEF NilSchema, LoopEnds, Caller
        <3>2. /\ stack' \in Seq(SUBSET (Node \cup {Nil}))
              /\ Len(stack') = Len(stack) - 1
              /\ \A k \in 1..Len(stack) - 1 : stack'[k] = stack[k]
            BY <1>1, <1>2, <3>1, CallerFrames
        <3> QED
            BY <1>2, <3>2
    <2>2. CASE KnownReference(n)
        <3>1. stack' = [stack EXCEPT ![Len(stack)] = @ \ {n}]
            BY <2>2 DEF KnownReference, Without
        <3>2. /\ stack' \in Seq(SUBSET (Node \cup {Nil}))
              /\ Len(stack') = Len(stack)
              /\ \A k \in 1..Len(stack) : stack'[k] \subseteq stack[k]
            BY <1>1, <1>2, <3>1, WithoutFrames
        <3> QED
            BY <1>2, <3>2
    <2> QED
        BY <2>1, <2>2
<1> QED
    BY <1>1, <1>2, <1>3a, <1>4, ShorterPath

\* The next call: a schema that has not been entered yet.
LEMMA LongerPath == \A n \in Node : WrittenOnce /\ SchemaInv /\ PathInv /\ Visit(n) => PathInv'
<1> SUFFICES ASSUME NEW n \in Node, WrittenOnce, SchemaInv, PathInv, Visit(n) PROVE PathInv'
    OBVIOUS
<1> DEFINE without == [stack EXCEPT ![Len(stack)] = @ \ {n}]
<1>1. /\ stack # <<>>
      /\ n \in Top /\ n \notin refs
      /\ refs' = refs \cup ({n} \cap Name)
      /\ stack' = Append(without, Followed(n))
      /\ UNCHANGED <<document, operation, parameters, phase>>
    BY DEF Visit, Without
<1>2. /\ phase # "none"
      /\ document \in Documents /\ operation \in Operations
      /\ stack \in Seq(SUBSET (Node \cup {Nil}))
      /\ Len(stack) \in Nat /\ Len(stack) \in 1..Len(stack)
    BY <1>1, InLoop
<1>3. /\ Len(stack') = Len(stack) + 1
      /\ \A k \in 1..Len(stack) : stack'[k] \subseteq stack[k]
      /\ n \notin stack'[Len(stack)]
      /\ stack'[Len(stack) + 1] = Followed(n)
    BY <1>1, <1>2
<1> HIDE DEF without
<1>4. PICK visited \in SUBSET Node :
             \E path \in [1..Len(stack) - 1 -> visited] : Called(visited, path)
    BY <1>2 DEF PathInv
<1>5. PICK path \in [1..Len(stack) - 1 -> visited] : Called(visited, path)
    BY <1>4
<1>6. /\ BodySchema' = BodySchema
      /\ Entries' = Entries
      /\ \A m : Followed(m)' = Followed(m)
    BY <1>1, SameReached DEF Entries
<1>7. n \in stack[Len(stack)] /\ n \notin visited
    BY <1>1, <1>2, <1>5 DEF Called, Top, Node
<1>8. \A i \in Inline, k \in 1..Len(stack) :
            i \in stack[k] =>
                \/ k = 1 /\ i \in Entries
                \/ k - 1 \in 1..Len(stack) - 1 /\ i \in Followed(path[k - 1]) /\ path[k - 1] \in visited
    <2> SUFFICES ASSUME NEW i \in Inline, NEW k \in 1..Len(stack), i \in stack[k]
                 PROVE  \/ k = 1 /\ i \in Entries
                        \/ /\ k - 1 \in 1..Len(stack) - 1
                           /\ i \in Followed(path[k - 1])
                           /\ path[k - 1] \in visited
        OBVIOUS
    <2>1. k = 1 \/ (k - 1 \in 1..Len(stack) - 1 /\ (k - 1) + 1 = k)
        BY <1>2
    <2> QED
        BY <1>1, <1>5, <2>1 DEF Called
<1>9. Entries \cap Node \subseteq operation.parameters \cup (IF phase = "body" THEN BodySchema ELSE {})
    BY DEF Entries
<1>10. \A i \in Inline : i \in Entries => \A m \in Node : i \notin Followed(m)
    BY <1>2, OneOwner DEF Entries
<1>11. Inline \subseteq Node
    BY DEF Node
<1>12. \A i \in Inline : i \in Followed(n) => i \notin visited /\ i # n
    <2> SUFFICES ASSUME NEW i \in Inline, i \in Followed(n) PROVE i \notin visited /\ i # n
        OBVIOUS
    <2>1. i \notin operation.parameters \cup BodySchema /\ \A m \in Node : i \in Followed(m) => m = n
        BY <1>2, OneOwner
    <2>2. i \notin visited
        BY <1>5, <1>7, <2>1 DEF Called
    <2>3. i # n
        BY <1>7, <1>8, <1>10, <1>2, <2>1
    <2> QED
        BY <2>2, <2>3
<1>13. \A k \in 1..Len(stack) : n \in Inline => n \notin stack'[k]
    <2> SUFFICES ASSUME NEW k \in 1..Len(stack), n \in Inline, n \in stack'[k] PROVE FALSE
        OBVIOUS
    <2>1. n \in stack[k] /\ k # Len(stack)
        BY <1>3
    <2>2. CASE k = 1
        <3>1. n \in Entries
            BY <1>8, <2>1, <2>2
        <3>2. /\ n \in Followed(path[Len(stack) - 1])
              /\ path[Len(stack) - 1] \in Node
            BY <1>2, <1>7, <1>8, <2>1, <2>2
        <3> QED
            BY <1>10, <3>1, <3>2
    <2>3. CASE k # 1
        <3>1. /\ k - 1 \in 1..Len(stack) - 1 /\ n \in Followed(path[k - 1])
              /\ path[k - 1] \in Node
            BY <1>8, <2>1, <2>3
        <3>2. n \notin Entries
            BY <1>10, <3>1
        <3>3. /\ Len(stack) - 1 \in 1..Len(stack) - 1 /\ n \in Followed(path[Len(stack) - 1])
              /\ path[Len(stack) - 1] \in Node
            BY <1>2, <1>7, <1>8, <3>2
        <3>4. path[k - 1] = path[Len(stack) - 1]
            BY <1>2, <3>1, <3>3, OneOwner
        <3>5. k - 1 = Len(stack) - 1
            BY <1>5, <3>1, <3>3, <3>4 DEF Called
        <3>6. \A x, y \in Int : x - 1 = y - 1 => x = y
            OBVIOUS
        <3>7. k \in Int /\ Len(stack) \in Int
            BY <1>2
        <3> QED
            BY <2>1, <3>5, <3>6, <3>7
    <2> QED
        BY <2>2, <2>3
<1> DEFINE next == visited \cup {n}
<1>14. PICK calls \in [1..Len(stack') - 1 -> next] :
              /\ \A k \in 1..Len(stack) - 1 : calls[k] = path[k]
              /\ calls[Len(stack)] = n
    <2> DEFINE longer == [k \in 1..Len(stack) |-> IF k = Len(stack) THEN n ELSE path[k]]
    <2>1. \A k \in 1..Len(stack) : k = Len(stack) \/ k \in 1..Len(stack) - 1
        BY <1>2
    <2>2. longer \in [1..Len(stack) -> next]
        BY <2>1
    <2>3. \A k \in 1..Len(stack) - 1 : k \in 1..Len(stack) /\ k # Len(stack)
        BY <1>2
    <2>4. longer[Len(stack)] = n /\ \A k \in 1..Len(stack) - 1 : longer[k] = path[k]
        BY <1>2, <2>3
    <2>5. Len(stack') - 1 = Len(stack)
        BY <1>2, <1>3
    <2> HIDE DEF longer, next
    <2> QED
        BY <2>2, <2>4, <2>5
<1>15. \A k \in 1..Len(stack') - 1 : k = Len(stack) \/ k \in 1..Len(stack) - 1
    BY <1>2, <1>3
<1>16. \A k, l \in 1..Len(stack') - 1 : calls[k] = calls[l] => k = l
    BY <1>5, <1>7, <1>14, <1>15 DEF Called
<1>17. \A k \in 1..Len(stack') - 1 : stack'[k + 1] \subseteq Followed(calls[k])'
    <2> SUFFICES ASSUME NEW k \in 1..Len(stack') - 1 PROVE stack'[k + 1] \subseteq Followed(calls[k])
        BY <1>6
    <2>1. CASE k = Len(stack)
        BY <1>3, <1>14, <2>1
    <2>2. CASE k \in 1..Len(stack) - 1
        <3>1. k + 1 \in 1..Len(stack)
            BY <1>2, <2>2
        <3> QED
            BY <1>3, <1>5, <1>14, <2>2, <3>1 DEF Called
    <2> QED
        BY <1>15, <2>1, <2>2
<1>18. stack'[1] \subseteq Entries'
    <2>1. 1 \in 1..Len(stack)
        BY <1>2
    <2> QED
        BY <1>1, <1>3, <1>5, <1>6, <2>1 DEF Called
<1>19. \A k \in 1..Len(stack') : stack'[k] \cap Inline \cap next = {}
    <2> SUFFICES ASSUME NEW k \in 1..Len(stack') PROVE stack'[k] \cap Inline \cap next = {}
        OBVIOUS
    <2>1. k \in 1..Len(stack) \/ k = Len(stack) + 1
        BY <1>2, <1>3
    <2>2. CASE k \in 1..Len(stack)
        BY <1>3, <1>5, <1>13, <2>2 DEF Called
    <2>3. CASE k = Len(stack) + 1
        BY <1>3, <1>12, <2>3
    <2> QED
        BY <2>1, <2>2, <2>3
<1>20. parameters \cap Inline \cap next = {}
    <2>1. n \in Inline => n \notin parameters
        <3> SUFFICES ASSUME n \in Inline, n \in parameters PROVE FALSE
            OBVIOUS
        <3>1. n \in operation.parameters /\ phase # "body"
            BY <1>2 DEF SchemaInv, Busy
        <3>2. n \in Entries
            <4>1. \A m \in Node : n \notin Followed(m)
                BY <1>2, <3>1, OneOwner
            <4> QED
                BY <1>2, <1>7, <1>8, <4>1
        <3> QED
            BY <3>1, <3>2 DEF Entries
    <2> QED
        BY <1>5, <2>1 DEF Called
<1>21. \A i \in next \cap Inline :
          \/ i \in operation.parameters
          \/ phase = "body" /\ i \in BodySchema
          \/ \E m \in next : i \in Followed(m)
    <2>1. n \in Inline =>
              \/ n \in operation.parameters
              \/ phase = "body" /\ n \in BodySchema
              \/ \E m \in visited : n \in Followed(m)
        BY <1>2, <1>7, <1>8, <1>9, <1>11
    <2> QED
        BY <1>5, <2>1 DEF Called
<1>22. refs' = next \cap Name
    BY <1>1, <1>5 DEF Called
<1>23. next \in SUBSET Node
    OBVIOUS
<1> HIDE DEF next
<1>24. Called(next, calls)'
    BY <1>1, <1>6, <1>14, <1>16, <1>17, <1>18, <1>19, <1>20, <1>21, <1>22 DEF Called
<1> QED
    BY <1>14, <1>23, <1>24 DEF PathInv

-----------------------------------------------------------------------------

LEMMA PathInvariant == ASSUME WrittenOnce PROVE SchemaSpec => []PathInv
<1>1. SchemaInit => PathInv
    BY DEF SchemaInit, PathInv
<1>2. SchemaInv /\ PathInv /\ [SchemaNext]_schemaVars => PathInv'
    <2> SUFFICES ASSUME SchemaInv, PathInv, [SchemaNext]_schemaVars PROVE PathInv'
        OBVIOUS
    <2>1. CASE BuildOperationString
        BY <2>1, StartPath
    <2>2. CASE ParameterRefs \/ RequestBodyRefs
        BY <2>2, EnterPath
    <2>3. CASE NilSchema \/ LoopEnds
        BY <2>3, ReturnPath
    <2>4. CASE \E n \in Node : KnownReference(n) \/ Visit(n)
        BY <2>4, ReturnPath, LongerPath
    <2>5. CASE OperationString
        BY <2>5 DEF OperationString, PathInv
    <2>6. CASE UNCHANGED schemaVars
        <3>1. UNCHANGED <<document, operation, parameters, phase, stack, refs>>
            BY <2>6 DEF schemaVars
        <3>2. BodySchema' = BodySchema /\ \A n : Followed(n)' = Followed(n)
            BY <3>1, SameReached
        <3>3. \A visited, path : Called(visited, path)' <=> Called(visited, path)
            BY <3>1, <3>2 DEF Called, Entries
        <3> QED
            BY <3>1, <3>3 DEF PathInv
    <2> QED
        BY <2>1, <2>2, <2>3, <2>4, <2>5, <2>6 DEF SchemaNext, CollectRefs
<1> QED
    BY <1>1, <1>2, SchemaInvariant, PTL DEF SchemaSpec

LEMMA PathBounded ==
    ASSUME IsFiniteSet(Node), SchemaInv, PathInv
    PROVE  RecursionBounded
<1>1. Cardinality(Node) \in Nat
    BY FS_CardinalityType
<1>2. CASE stack = <<>>
    BY <1>1, <1>2 DEF RecursionBounded
<1>3. CASE stack # <<>>
    <2>1. phase # "none" /\ Len(stack) \in Nat /\ Len(stack) \in 1..Len(stack)
        BY <1>3, InLoop
    <2>2. PICK visited \in SUBSET Node :
                \E path \in [1..Len(stack) - 1 -> visited] : Called(visited, path)
        BY <2>1 DEF PathInv
    <2>3. PICK path \in [1..Len(stack) - 1 -> visited] : Called(visited, path)
        BY <2>2
    <2> DEFINE calls == 1..Len(stack) - 1
    <2>4. \A k, l \in calls : path[k] = path[l] => k = l
        BY <2>3 DEF Called
    <2>5. path \in [calls -> Node]
        OBVIOUS
    <2>6. Len(stack) - 1 \in Nat
        BY <2>1
    <2>7. IsFiniteSet(calls) /\ Cardinality(calls) = Len(stack) - 1
        BY <2>6, FS_Interval
    <2> HIDE DEF calls
    <2>8. ~(Cardinality(Node) < Cardinality(calls))
        BY <2>4, <2>5, <2>7, FS_PigeonHole
    <2> QED
        BY <1>1, <2>6, <2>7, <2>8 DEF RecursionBounded
<1> QED
    BY <1>2, <1>3

\* The calls of getSchemasRef nest no deeper than there are schemas, for any definition
\* whose inline schemas are written in one place, as they are in a JSON document.
THEOREM BoundsRecursion ==
    ASSUME WrittenOnce, IsFiniteSet(Node) PROVE SchemaSpec => []RecursionBounded
<1>1. SchemaInv /\ PathInv => RecursionBounded
    BY PathBounded
<1> QED
    BY <1>1, SchemaInvariant, PathInvariant, PTL

=============================================================================
