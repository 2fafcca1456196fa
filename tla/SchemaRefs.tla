------------------------------ MODULE SchemaRefs ------------------------------
(***************************************************************************)
(* buildOperationString (agent_bridge_rewrite.go): the text of an          *)
(* operation for the LLM, followed by the list of the schemas it refers    *)
(* to. getSchemasRef collects them with a depth-first traversal, as the    *)
(* schemas of a definition may refer to each other in cycles.              *)
(***************************************************************************)
EXTENDS Naturals, Sequences, FiniteSets

CONSTANTS
    Nil,          \* no schema
    Name,         \* the named schemas, the targets of "$ref"
    Inline,       \* the schemas written where they are used
    Documents,    \* the definitions: the content of every schema
    Operations    \* the operations: schemas of parameters, request body, responses

Node == Name \cup Inline

\* What a schema can be made of. getSchemasRef tries the keywords of this
\* sequence in turn and follows the first one that is there.
Keywords == <<"anyOf", "oneOf", "allOf", "not", "items", "properties">>

Keyword == {"anyOf", "oneOf", "allOf", "not", "items", "properties",
            "additionalProperties"}

\* A definition gives every schema its keywords, and these the schemas they use.
IsDocument(definition) ==
    \A n \in Node :
        /\ DOMAIN definition[n] \subseteq Keyword
        /\ \A k \in DOMAIN definition[n] : definition[n][k] \subseteq Node

ContentType == {"json", "wildcard", "other"}

Contents == UNION {[types -> Node \cup {Nil}] : types \in SUBSET ContentType}

\* (The schemas of shared parameters, "#/components/parameters/...", are among
\* the parameters: the references to them are resolved before the plugin runs.)
ASSUME SchemaAssumption ==
    /\ Nil \notin Node
    /\ Name \cap Inline = {}
    /\ \A definition \in Documents : IsDocument(definition)
    /\ Nil \notin Documents \cup Operations
    /\ Operations \subseteq [parameters : SUBSET Node, content : Contents,
                              responses : SUBSET Node]

VARIABLES
    document,    \* the definition of the operation at hand
    operation,
    parameters,  \* the parameters still to be looked at
    phase,       \* which part of the operation is being looked at
    stack,       \* the loops of the nested calls: schemas still to be visited
    refs         \* the references found

schemaVars == <<document, operation, parameters, phase, stack, refs>>

Phases == {"none", "parameters", "body"}

SchemaTypeOK ==
    /\ document \in Documents \cup {Nil}
    /\ operation \in Operations \cup {Nil}
    /\ parameters \in SUBSET Node
    /\ phase \in Phases
    /\ phase # "none" => document # Nil /\ operation # Nil
    /\ stack \in Seq(SUBSET (Node \cup {Nil}))
    /\ refs \in SUBSET Name

SchemaInit ==
    /\ document = Nil
    /\ operation = Nil
    /\ parameters = {}
    /\ phase = "none"
    /\ stack = <<>>
    /\ refs = {}

-----------------------------------------------------------------------------
(* The operators of the traversal.                                         *)

Present(n) == {i \in DOMAIN Keywords : Keywords[i] \in DOMAIN document[n]}

Followed(n) ==
    IF Present(n) = {} THEN {}
    ELSE document[n][Keywords[CHOOSE i \in Present(n) : \A j \in Present(n) : i <= j]]

\* requestBody.Content.Get: what there is for JSON, or else for any type.
BodySchema ==
    LET content == operation.content
        types == {"json", "wildcard"} \cap DOMAIN content
    IN  IF types = {} THEN {}
        ELSE {content[IF "json" \in types THEN "json" ELSE "wildcard"]}

Top == stack[Len(stack)]

\* The innermost loop goes on without n.
Without(n) == [stack EXCEPT ![Len(stack)] = @ \ {n}]

Caller == SubSeq(stack, 1, Len(stack) - 1)

-----------------------------------------------------------------------------
(* The steps.                                                              *)

\* buildOperationString is called.
BuildOperationString ==
    /\ phase = "none"
    /\ document' \in Documents
    /\ operation' \in Operations
    /\ parameters' = operation'.parameters
    /\ phase' = "parameters"
    /\ UNCHANGED <<stack, refs>>

\* getParameterRefs: one call of getSchemasRef for each parameter.
ParameterRefs ==
    /\ phase = "parameters" /\ stack = <<>>
    /\ \E p \in parameters :
          /\ stack' = <<{p}>>
          /\ parameters' = parameters \ {p}
    /\ UNCHANGED <<document, operation, phase, refs>>

\* getRequestBodyRefs: a body that is neither JSON nor of any type has no
\* references.
RequestBodyRefs ==
    /\ phase = "parameters" /\ stack = <<>> /\ parameters = {}
    /\ phase' = "body"
    /\ stack' = IF BodySchema = {} THEN <<>> ELSE <<BodySchema>>
    /\ UNCHANGED <<document, operation, parameters, refs>>

\* A missing schema ends the loop it is found in.
NilSchema ==
    /\ stack # <<>>
    /\ Nil \in Top
    /\ stack' = Caller
    /\ UNCHANGED <<document, operation, parameters, phase, refs>>

\* Mutant: a reference that is known ends the loop.
KnownReferenceReturns(n) ==
    /\ stack # <<>>
    /\ n \in Top \cap refs
    /\ stack' = Caller
    /\ UNCHANGED <<document, operation, parameters, phase, refs>>

\* A reference that has been collected is not followed again.
KnownReference(n) ==
    /\ stack # <<>>
    /\ n \in Top \cap refs
    /\ stack' = Without(n)
    /\ UNCHANGED <<document, operation, parameters, phase, refs>>

\* Mutant: it is.
VisitAgain(n) ==
    /\ stack # <<>>
    /\ n \in Top \cap Node
    /\ refs' = refs \cup ({n} \cap Name)
    /\ stack' = Append(Without(n), Followed(n))
    /\ UNCHANGED <<document, operation, parameters, phase>>

\* Mutant: inline schemas are collected, too.
VisitCollectsInline(n) ==
    /\ stack # <<>>
    /\ n \in (Top \cap Node) \ refs
    /\ refs' = refs \cup {n}
    /\ stack' = Append(Without(n), Followed(n))
    /\ UNCHANGED <<document, operation, parameters, phase>>

\* A reference is collected; its schema, or an inline one, is followed.
Visit(n) ==
    /\ stack # <<>>
    /\ n \in (Top \cap Node) \ refs
    /\ refs' = refs \cup ({n} \cap Name)
    /\ stack' = Append(Without(n), Followed(n))
    /\ UNCHANGED <<document, operation, parameters, phase>>

\* A loop is over: its call of getSchemasRef returns.
LoopEnds ==
    /\ stack # <<>>
    /\ Top = {}
    /\ stack' = Caller
    /\ UNCHANGED <<document, operation, parameters, phase, refs>>

Collected == phase = "body" /\ stack = <<>>

\* buildOperationString returns the operation with what has been collected.
OperationString ==
    /\ Collected
    /\ document' = Nil
    /\ operation' = Nil
    /\ parameters' = {}
    /\ phase' = "none"
    /\ stack' = <<>>
    /\ refs' = {}

CollectRefs ==
    \/ ParameterRefs \/ RequestBodyRefs
    \/ NilSchema \/ LoopEnds
    \/ \E n \in Node : KnownReference(n) \/ Visit(n)

SchemaNext == BuildOperationString \/ CollectRefs \/ OperationString

SchemaSpec == SchemaInit /\ [][SchemaNext]_schemaVars

-----------------------------------------------------------------------------
(* Properties                                                              *)

\* What getSchemasRef follows, and all that a schema is made of.
FollowedBy == [n \in Node |-> Followed(n)]

Uses(definition, n) == UNION {definition[n][k] : k \in DOMAIN definition[n]}

BodySchemas(op) == {op.content[type] : type \in DOMAIN op.content}

\* What getParameterRefs and getRequestBodyRefs start from, and all the schemas
\* an operation is made of.
Roots == operation.parameters \cup (BodySchema \ {Nil})

SchemasOf(op) == op.parameters \cup (BodySchemas(op) \ {Nil}) \cup op.responses

\* The least set that holds the roots and is closed under next.
Reached(next, roots) ==
    {n \in Node : \A X \in SUBSET Node :
        roots \subseteq X /\ (\A m \in X : next[m] \subseteq X) => n \in X}

\* The traversal finds the references that can be reached by the keywords it
\* follows, all of them and no others, in whatever order the maps are read and
\* however the schemas refer to each other.
CollectedExactly == Collected => refs = Reached(FollowedBy, Roots) \cap Name

\* The comment on buildOperationString: its text contains "the list of references
\* used in the operation". Every schema that the operation refers to, directly or
\* by way of other schemas, is in the list. It is not so (see the README).
ReferencesListed ==
    Collected => Reached([n \in Node |-> Uses(document, n)], SchemasOf(operation)) \cap Name
                     \subseteq refs

\* An inline schema is written in one place: below one schema, in the parameters or
\* in the body of an operation.
WrittenOnce ==
    /\ \A d \in Documents, i \in Inline, m, n \in Node :
          i \in Uses(d, m) \cap Uses(d, n) => m = n
    /\ \A d \in Documents, o \in Operations, i \in Inline, n \in Node :
          i \in Uses(d, n) => i \notin o.parameters \cup BodySchemas(o)
    /\ \A o \in Operations : Inline \cap o.parameters \cap BodySchemas(o) = {}

\* The calls of getSchemasRef do not nest deeper than there are schemas, although
\* these may be recursive: no request overflows the stack of its goroutine.
RecursionBounded == Len(stack) <= 1 + Cardinality(Node)

=============================================================================
