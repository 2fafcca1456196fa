------------------------- MODULE MCRequestPipeline -------------------------
(***************************************************************************)
(* Two named schemas that may refer to each other and to themselves, an    *)
(* inline schema that only the definitions use and one that only the       *)
(* operations use: inline schemas are written in one place.                *)
(***************************************************************************)
EXTENDS RequestPipeline

CONSTANTS a, b, i, j, r1, r2

Leaf == [k \in {} |-> {}]

With(keyword, schemas) == [k \in {keyword} |-> schemas]

Mixed(first, second) ==
    [k \in DOMAIN first \cup DOMAIN second |->
        IF k \in DOMAIN first THEN first[k] ELSE second[k]]

MCDocuments ==
    {[n \in {a, b, i, j} |->
        CASE n = a -> schemaA [] n = b -> schemaB [] n = i -> inlined
          [] n = j -> With("items", {a})] :
        schemaA \in {Leaf, With("items", {a}), With("anyOf", {a, b}),
                     With("properties", {b, i}), With("additionalProperties", {b}),
                     Mixed(With("oneOf", {i}), With("properties", {b}))},
        schemaB \in {Leaf, With("not", {a}), With("allOf", {a, b})},
        inlined \in {Leaf, With("oneOf", {a, b})}}

\* "other" stands for a body that is no JSON, like a form.
Operation(params, content, results) ==
    [parameters |-> params, content |-> content, responses |-> results]

MCOperations ==
    {Operation({}, Leaf, {}),
     Operation({}, With("other", b), {}),
     Operation({a, b}, With("other", b), {}),
     Operation({j}, With("json", Nil), {b}),
     Operation({}, Mixed(With("json", a), With("wildcard", b)), {}),
     Operation({b}, With("wildcard", j), {a})}

\* Paths and limits that the hook does not look at are fixed, and so is the
\* session of a request that brings its own wishes.
MCRequests ==
    {q \in Ask :
        /\ q.hook = "APIBridgeAgent" \/ ~q.nlq => q.path = Elsewhere
        /\ q.long => q.hook = "APIBridgeAgent" /\ q.nlq
        /\ q.nlq => q.session # Foreign
        /\ q.hook = "RewriteQueryToOas" /\ q.nlq => q.session = Nil}

\* What the theorem on RecursionBounded assumes holds of this instance.
ASSUME MCWrittenOnce == WrittenOnce

=============================================================================
