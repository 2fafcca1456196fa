------------------------ MODULE RequestPipelineProofs ------------------------
(***************************************************************************)
(* What a request becomes on its way through the hooks, for any operations *)
(* of the API, whatever clients ask for.                                   *)
(***************************************************************************)
EXTENDS RequestPipeline, SchemaDepthProofs

AsAsked == request = [path |-> asked.path, body |-> "asked"]

FilledIn == request.path \in rewritten /\ request.body \in {"llm", "nil"}

\* The request before and while it is rewritten.
RequestInv ==
    /\ pc \in {"hook", "select", "route"} => AsAsked /\ selected = {} /\ rewritten = {}
    /\ pc = "loop" =>
        /\ rewritten \subseteq selected
        /\ (rewritten = {} /\ AsAsked) \/ FilledIn
    /\ pc \in {"rewrite", "collect", "llm"} =>
        /\ request.path \in Route
        /\ rewritten \subseteq selected
        /\ rewritten # {} => request.path \in selected /\ request.path \notin rewritten
        /\ asked.hook = "APIBridgeAgent" => request.path \in selected
    /\ pc = "rewrite" /\ rewritten = {} => request.body = "asked"
    /\ pc \in {"select", "loop", "route", "rewrite", "collect", "llm"} => asked.nlq
    /\ pc \in {"select", "loop"} => asked.hook = "APIBridgeAgent"
    /\ pc = "route" => asked.hook = "RewriteQueryToOas"
    /\ pc \in {"rewrite", "collect", "llm"} /\ asked.hook = "RewriteQueryToOas"
        => rewritten = {}
    /\ SentWhole

\* The session says what the client asked for from the first hook on.
SessionSaved ==
    IF asked.nlq
    THEN session = [sentence |-> "asked",
                    type |-> IF asked.hook = "APIBridgeAgent" THEN "nl" ELSE asked.type]
    ELSE session = asked.session

SessionInv ==
    /\ pc = "hook" => session = asked.session
    /\ pc \notin {"idle", "hook"} \/ reply = "delivered" => asked \in Requests /\ SessionSaved

\* The response on its way back.
ResponseInv ==
    /\ pc # "idle" => reply = Nil
    /\ pc \in {"response", "answer"} => response \in Response /\ response.text = "upstream"
    /\ pc = "response" => response.coded = response.declared
    /\ pc = "answer" => /\ session \in [sentence : Body, type : {"nl"}]
                        /\ response.declared # "other" => response.declared = "identity"
    /\ AnsweredAsAsked
    /\ EncodingTrue

PipelineInv == PipelineTypeOK /\ RequestInv /\ SessionInv /\ ResponseInv

-----------------------------------------------------------------------------

\* Seen from getSchemasRef, each step of the pipeline is one of its own or none:
\* no hook disturbs a traversal, and no request starts on the remains of another.
THEOREM PipelineTraverses == Spec => SchemaSpec
<1>1. Init => SchemaInit
    BY DEF Init
<1>2. [Next]_vars => [SchemaNext]_schemaVars
    <2> SUFFICES ASSUME [Next]_vars PROVE SchemaNext \/ UNCHANGED schemaVars
        OBVIOUS
    <2> QED
        BY DEF vars, Next, Step, selectAndRewrite, RewriteQueryToOas, rewriteQueryForRoute,
               RewriteResponseToNl, Arrive, PassRequest, HookFails, RefuseLong, ReadQuery,
               SelectFails, SelectNoDefinition, Select, LoopDone, RewriteOperation, SaveQuery,
               FindRoute, FindRouteFails, ReadSentence, ReadSentenceFails, DescribeOperation,
               DescribeSchemas, OperationDescribed, OverrideRequest, LlmFails, UpstreamAnswers,
               KeepResponse, NoMetadata, ReadResponse, RewriteResponse, ResponseFails, SchemaNext
<1> QED
    BY <1>1, <1>2, PTL DEF Spec, SchemaSpec

LEMMA InitPipelineInv == Init => PipelineInv
BY PipelineAssumption
   DEF PipelineAssumption, Init, PipelineInv, PipelineTypeOK, RequestInv, SessionInv, ResponseInv,
       SentWhole, AnsweredAsAsked, EncodingTrue, Labels, Body, Reply

\* A request arrives.
LEMMA ArriveStep == PipelineInv /\ Arrive => PipelineInv'
<1> SUFFICES ASSUME PipelineInv, Arrive PROVE PipelineInv'
    OBVIOUS
<1>1. asked' \in Ask /\ asked' \in Requests /\ Nil \notin Reply
    BY PipelineAssumption DEF PipelineAssumption, Arrive
<1>2. PipelineTypeOK'
    <2>1. request' \in [path : Route \cup {Elsewhere}, body : Body]
        BY <1>1 DEF Arrive, Ask, Body
    <2>2. session' \in Session \cup {Nil, Foreign}
        BY <1>1 DEF Arrive, Ask, Routed, Session, Body, ResponseType
    <2>3. asked' # Nil
        BY <1>1, PipelineAssumption DEF PipelineAssumption
    <2> QED
        BY <1>1, <2>1, <2>2, <2>3 DEF Arrive, PipelineTypeOK, Labels, Body
<1>3. RequestInv'
    BY <1>1 DEF Arrive, RequestInv, AsAsked, SentWhole
<1>4. SessionInv' /\ ResponseInv'
    BY <1>1 DEF Arrive, SessionInv, ResponseInv, AnsweredAsAsked, EncodingTrue, Reply
<1> QED
    BY <1>2, <1>3, <1>4 DEF PipelineInv

\* The plugin refuses or fails.
LEMMA FailureStep ==
    PipelineInv /\ (HookFails \/ RefuseLong \/ SelectFails \/ FindRouteFails \/ ReadSentenceFails
                    \/ LlmFails \/ NoMetadata \/ ResponseFails)
        => PipelineInv'
<1> SUFFICES ASSUME PipelineInv,
                    HookFails \/ RefuseLong \/ SelectFails \/ FindRouteFails \/ ReadSentenceFails
                        \/ LlmFails \/ NoMetadata \/ ResponseFails
             PROVE  PipelineInv'
    OBVIOUS
<1>1. /\ pc' = "idle" /\ reply' \in {"404", "413", "500", "panic"}
      /\ UNCHANGED <<asked, request, session, selected, rewritten, sentence, response>>
    BY DEF HookFails, RefuseLong, SelectFails, FindRouteFails, ReadSentenceFails, LlmFails,
           NoMetadata, ResponseFails, Answer
<1>2. PipelineTypeOK'
    BY <1>1 DEF PipelineInv, PipelineTypeOK, Labels, Reply
<1>3. RequestInv' /\ SessionInv' /\ ResponseInv'
    BY <1>1 DEF RequestInv, SentWhole, SessionInv, ResponseInv, AnsweredAsAsked, EncodingTrue
<1> QED
    BY <1>2, <1>3 DEF PipelineInv

\* The request goes on to its next label, nothing else changes.
LEMMA PassStep ==
    PipelineInv /\ (PassRequest \/ SelectNoDefinition \/ LoopDone \/ FindRoute) => PipelineInv'
<1> SUFFICES ASSUME PipelineInv, PassRequest \/ SelectNoDefinition \/ LoopDone \/ FindRoute
             PROVE  PipelineInv'
    OBVIOUS
<1> USE DEF PipelineInv
<1>1. UNCHANGED <<asked, request, session, selected, rewritten, sentence, response, reply>>
    BY DEF PassRequest, SelectNoDefinition, LoopDone, FindRoute
<1>2. PipelineTypeOK'
    BY <1>1 DEF PassRequest, SelectNoDefinition, LoopDone, FindRoute, PipelineTypeOK, Labels
<1>3. RequestInv'
    <2>1. CASE PassRequest \/ SelectNoDefinition
        BY <1>1, <2>1 DEF PassRequest, SelectNoDefinition, RequestInv, AsAsked, SentWhole
    <2>2. CASE LoopDone
        BY <1>1, <2>2 DEF LoopDone, RequestInv, AsAsked, FilledIn, SentWhole
    <2>3. CASE FindRoute
        BY <1>1, <2>3 DEF FindRoute, RequestInv, AsAsked, SentWhole
    <2> QED
        BY <2>1, <2>2, <2>3
<1>4. SessionInv'
    <2>1. SessionSaved' = SessionSaved
        BY <1>1 DEF SessionSaved
    <2>2. CASE PassRequest
        BY <1>1, <2>1, <2>2, PipelineAssumption
           DEF PassRequest, SessionInv, SessionSaved, PipelineTypeOK
    <2>3. CASE ~PassRequest
        BY <1>1, <2>1, <2>3 DEF SelectNoDefinition, LoopDone, FindRoute, SessionInv
    <2> QED
        BY <2>2, <2>3
<1>5. ResponseInv'
    BY <1>1 DEF PassRequest, SelectNoDefinition, LoopDone, FindRoute, ResponseInv, AnsweredAsAsked,
                NlAsked, EncodingTrue
<1> QED
    BY <1>2, <1>3, <1>4, <1>5

\* The query is read and kept for the response.
LEMMA SaveStep == PipelineInv /\ (ReadQuery \/ SaveQuery) => PipelineInv'
<1> SUFFICES ASSUME PipelineInv, ReadQuery \/ SaveQuery PROVE PipelineInv'
    OBVIOUS
<1> USE DEF PipelineInv
<1>1. /\ UNCHANGED <<asked, request, selected, rewritten, sentence, response, reply>>
      /\ pc = "hook" /\ asked.nlq
      /\ pc' = IF asked.hook = "APIBridgeAgent" THEN "select" ELSE "route"
      /\ session' = [sentence |-> request.body,
                     type |-> IF asked.hook = "APIBridgeAgent" THEN "nl" ELSE asked.type]
      /\ asked.hook \in Hook
    BY DEF ReadQuery, SaveQuery, Hook
<1>2. asked \in Requests /\ asked \in Ask
    BY <1>1, PipelineAssumption DEF PipelineAssumption, PipelineTypeOK
<1>3. request.body = "asked"
    BY <1>1 DEF RequestInv, AsAsked
<1>4. PipelineTypeOK'
    <2>1. session' \in Session
        BY <1>1, <1>2, <1>3 DEF Session, Body, Ask, ResponseType
    <2> QED
        BY <1>1, <2>1 DEF PipelineTypeOK, Labels
<1>5. RequestInv'
    BY <1>1 DEF RequestInv, AsAsked, SentWhole, Hook
<1>6. SessionInv'
    BY <1>1, <1>2, <1>3 DEF SessionInv, SessionSaved
<1>7. ResponseInv'
    <2>1. reply # "delivered"
        BY <1>1, PipelineAssumption DEF PipelineAssumption, ResponseInv, Reply
    <2> QED
        BY <1>1, <2>1 DEF ResponseInv, AnsweredAsAsked, EncodingTrue
<1> QED
    BY <1>4, <1>5, <1>6, <1>7

\* The request is rewritten.
LEMMA RewriteStep ==
    PipelineInv /\ (Select \/ (\E route \in Route : RewriteOperation(route))
                    \/ ReadSentence \/ DescribeOperation \/ DescribeSchemas
                    \/ OperationDescribed \/ OverrideRequest)
        => PipelineInv'
<1> SUFFICES ASSUME PipelineInv,
                    Select \/ (\E route \in Route : RewriteOperation(route))
                        \/ ReadSentence \/ DescribeOperation \/ DescribeSchemas
                        \/ OperationDescribed \/ OverrideRequest
             PROVE  PipelineInv'
    OBVIOUS
<1> USE DEF PipelineInv
<1>1. /\ UNCHANGED <<asked, session, response, reply>>
      /\ pc \in {"select", "loop", "rewrite", "collect", "llm"}
      /\ pc' \in {"loop", "rewrite", "collect", "llm", "upstream"}
    BY DEF Select, RewriteOperation, ReadSentence, DescribeOperation, DescribeSchemas,
           OperationDescribed, OverrideRequest, Rewritten, pipelineVars
<1>2. SessionInv'
    BY <1>1 DEF SessionInv, SessionSaved
<1>3. ResponseInv'
    BY <1>1 DEF ResponseInv, AnsweredAsAsked, NlAsked, EncodingTrue
<1>4. asked # Nil /\ asked \in Requests
    BY <1>1 DEF PipelineTypeOK
<1>5. asked.hook \in Hook
    BY <1>4, PipelineAssumption DEF PipelineAssumption, Ask
<1>6. PipelineTypeOK' /\ RequestInv'
    <2>1. CASE Select
        BY <1>1, <2>1 DEF Select, PipelineTypeOK, Labels, RequestInv, AsAsked, SentWhole
    <2>2. CASE \E route \in Route : RewriteOperation(route)
        <3>1. PICK route \in Route : RewriteOperation(route)
            BY <2>2
        <3>2. /\ request' = [request EXCEPT !.path = route]
              /\ request \in [path : Route \cup {Elsewhere}, body : Body]
            BY <3>1 DEF RewriteOperation, PipelineTypeOK
        <3>3. /\ request' \in [path : Route \cup {Elsewhere}, body : Body]
              /\ request'.path = route /\ request'.body = request.body
            BY <3>2
        <3>4. PipelineTypeOK'
            BY <1>1, <3>1, <3>3 DEF RewriteOperation, PipelineTypeOK, Labels
        <3>5. rewritten = {} => request.body = "asked"
            BY <3>1 DEF RewriteOperation, RequestInv, AsAsked, FilledIn
        <3>6. RequestInv'
            BY <1>1, <3>1, <3>3, <3>5 DEF RewriteOperation, RequestInv, SentWhole
        <3> QED
            BY <3>4, <3>6
    <2>3. CASE ReadSentence
        <3>1. /\ request' \in [path : Route \cup {Elsewhere}, body : Body]
              /\ request'.path = request.path
            BY <2>3 DEF ReadSentence, PipelineTypeOK, Body
        <3>2. request.body \in Body
            BY DEF PipelineTypeOK
        <3>3. PipelineTypeOK'
            BY <1>1, <2>3, <3>1, <3>2 DEF ReadSentence, PipelineTypeOK, Labels
        <3>4. RequestInv'
            BY <1>1, <2>3, <3>1 DEF ReadSentence, RequestInv, SentWhole
        <3> QED
            BY <3>3, <3>4
    <2>4. CASE DescribeOperation \/ DescribeSchemas
        BY <1>1, <2>4 DEF DescribeOperation, DescribeSchemas, pipelineVars, PipelineTypeOK,
                          RequestInv, AsAsked, FilledIn, SentWhole
    <2>5. CASE OperationDescribed
        BY <1>1, <2>5 DEF OperationDescribed, PipelineTypeOK, Labels, RequestInv, SentWhole
    <2>6. CASE OverrideRequest
        <3>1. PICK body \in {"llm", "nil"} : request' = [request EXCEPT !.body = body]
            BY <2>6 DEF OverrideRequest
        <3>2. /\ request' \in [path : Route \cup {Elsewhere}, body : Body]
              /\ request'.path = request.path /\ request'.body = body
            BY <3>1 DEF PipelineTypeOK, Body
        <3>3. /\ request.path \in Route
              /\ pc = "llm"
              /\ rewritten' = rewritten \cup {request.path}
              /\ pc' = Rewritten
              /\ UNCHANGED <<selected, sentence>>
            BY <2>6 DEF OverrideRequest, RequestInv
        <3>4. PipelineTypeOK'
            BY <1>1, <3>2, <3>3 DEF PipelineTypeOK, Labels
        <3>5. RequestInv'
            <4>1. /\ request'.path \in rewritten' /\ request'.body \in {"llm", "nil"}
                  /\ asked' = asked /\ asked.nlq
                BY <1>1, <3>2, <3>3 DEF RequestInv
            <4>2. CASE asked.hook = "APIBridgeAgent"
                <5>1. pc' = "loop" /\ rewritten' \subseteq selected'
                    BY <3>3, <4>2 DEF RequestInv, Rewritten
                <5> QED
                    BY <4>1, <4>2, <5>1 DEF RequestInv, FilledIn, SentWhole
            <4>3. CASE asked.hook # "APIBridgeAgent"
                <5>1. pc' = "upstream"
                    BY <3>3, <4>3 DEF Rewritten
                <5> QED
                    BY <4>1, <5>1 DEF RequestInv, SentWhole
            <4> QED
                BY <4>2, <4>3
        <3> QED
            BY <3>4, <3>5
    <2> QED
        BY <2>1, <2>2, <2>3, <2>4, <2>5, <2>6
<1> QED
    BY <1>2, <1>3, <1>6

\* The response comes, is kept, read or replaced.
LEMMA ResponseStep ==
    PipelineInv /\ (UpstreamAnswers \/ KeepResponse \/ ReadResponse \/ RewriteResponse)
        => PipelineInv'
<1> SUFFICES ASSUME PipelineInv,
                    UpstreamAnswers \/ KeepResponse \/ ReadResponse \/ RewriteResponse
             PROVE  PipelineInv'
    OBVIOUS
<1> USE DEF PipelineInv
<1>1. /\ UNCHANGED <<asked, request, session, selected, rewritten, sentence>>
      /\ pc \in {"upstream", "response", "answer"}
      /\ pc' \in {"response", "answer", "idle"}
    BY DEF UpstreamAnswers, KeepResponse, ReadResponse, RewriteResponse, Answer
<1>2. RequestInv'
    BY <1>1 DEF RequestInv, SentWhole
<1>3. asked \in Requests /\ SessionSaved
    BY <1>1 DEF SessionInv
<1>4. SessionInv'
    BY <1>1, <1>3 DEF SessionInv, SessionSaved
<1>5. asked \in Ask
    BY <1>3, PipelineAssumption DEF PipelineAssumption
<1>6. reply = Nil /\ Nil \notin Reply
    BY <1>1, PipelineAssumption DEF ResponseInv, PipelineAssumption
<1>7. NlAsked' = NlAsked
    BY <1>1 DEF NlAsked
<1>8. CASE UpstreamAnswers
    <2>1. PICK coding \in Coding :
              response' = [text |-> "upstream", coded |-> coding, declared |-> coding]
        BY <1>8 DEF UpstreamAnswers
    <2>2. response' \in Response
        BY <2>1 DEF Response
    <2>3. pc' = "response" /\ reply' = Nil
        BY <1>6, <1>8 DEF UpstreamAnswers
    <2>4. PipelineTypeOK'
        BY <1>1, <2>2, <2>3 DEF PipelineTypeOK, Labels
    <2>5. ResponseInv'
        BY <1>6, <2>1, <2>2, <2>3 DEF ResponseInv, AnsweredAsAsked, EncodingTrue, Reply
    <2> QED
        BY <1>2, <1>4, <2>4, <2>5
<1>9. CASE KeepResponse
    <2>1. /\ pc = "response" /\ pc' = "idle" /\ reply' = "delivered" /\ response' = response
          /\ session \in {Nil} \cup [sentence : Body, type : {"upstream", "absent"}]
        BY <1>9 DEF KeepResponse, Answer
    <2>2. session # [sentence |-> "asked", type |-> "nl"]
        <3>1. Nil # [sentence |-> "asked", type |-> "nl"]
            BY PipelineAssumption DEF PipelineAssumption, Session, Body, ResponseType
        <3> QED
            BY <2>1, <3>1
    <2>3. ~NlAsked
        BY <1>3, <2>2 DEF NlAsked, SessionSaved, Routed
    <2>4. /\ response \in Response /\ response.text = "upstream"
          /\ response.coded = response.declared
        BY <2>1 DEF ResponseInv
    <2>5. AnsweredAsAsked' /\ EncodingTrue'
        BY <1>7, <2>1, <2>3, <2>4 DEF AnsweredAsAsked, EncodingTrue
    <2>6. PipelineTypeOK' /\ ResponseInv'
        BY <1>1, <2>1, <2>5 DEF PipelineTypeOK, Labels, Reply, ResponseInv
    <2> QED
        BY <1>2, <1>4, <2>6
<1>10. CASE ReadResponse
    <2>1. /\ pc = "response" /\ pc' = "answer" /\ reply' = Nil
          /\ session \in [sentence : Body, type : {"nl"}]
          /\ response' = IF response.declared = "gzip"
                         THEN [response EXCEPT !.coded = "identity", !.declared = "identity"]
                         ELSE response
        BY <1>6, <1>10 DEF ReadResponse
    <2>2. /\ response \in Response /\ response.text = "upstream"
        BY <2>1 DEF ResponseInv
    <2>3. /\ response' \in Response /\ response'.text = "upstream"
          /\ response'.declared # "other" => response'.declared = "identity"
        BY <2>1, <2>2 DEF Response, Coding
    <2>4. PipelineTypeOK'
        BY <1>1, <2>1, <2>3 DEF PipelineTypeOK, Labels
    <2>5. ResponseInv'
        BY <1>1, <1>6, <2>1, <2>3 DEF ResponseInv, AnsweredAsAsked, EncodingTrue, Reply
    <2> QED
        BY <1>2, <1>4, <2>4, <2>5
<1>11. CASE RewriteResponse
    <2>1. /\ pc = "answer" /\ pc' = "idle" /\ reply' = "delivered"
          /\ response' = [response EXCEPT !.text = "nl", !.coded = "identity"]
        BY <1>11 DEF RewriteResponse, Answer
    <2>2. /\ response \in Response
          /\ session \in [sentence : Body, type : {"nl"}]
          /\ response.declared # "other" => response.declared = "identity"
        BY <2>1 DEF ResponseInv
    <2>3. /\ response' \in Response /\ response'.text = "nl" /\ response'.coded = "identity"
          /\ response'.declared = response.declared
        BY <2>1, <2>2 DEF Response, Coding
    <2>4. session.type = "nl"
        BY <2>2
    <2>5. NlAsked /\ session.sentence = "asked"
        <3>1. CASE asked.nlq
            BY <1>3, <2>4, <3>1 DEF NlAsked, SessionSaved
        <3>2. CASE ~asked.nlq
            <4>1. session = asked.session /\ asked.session \in {Nil, Foreign, Routed}
                BY <1>3, <1>5, <3>2 DEF SessionSaved, Ask
            <4>2. session # Foreign
                BY <2>4 DEF Foreign
            <4>3. session \in Session
                BY <2>2 DEF Session, ResponseType
            <4>4. session # Nil
                BY <4>3, PipelineAssumption DEF PipelineAssumption
            <4> QED
                BY <3>2, <4>1, <4>2, <4>4 DEF NlAsked, Routed
        <3> QED
            BY <3>1, <3>2
    <2>6. AnsweredAsAsked' /\ EncodingTrue'
        BY <1>1, <1>7, <2>1, <2>2, <2>3, <2>5 DEF AnsweredAsAsked, EncodingTrue
    <2>7. PipelineTypeOK' /\ ResponseInv'
        BY <1>1, <2>1, <2>3, <2>6 DEF PipelineTypeOK, Labels, Reply, ResponseInv
    <2> QED
        BY <1>2, <1>4, <2>7
<1> QED
    BY <1>8, <1>9, <1>10, <1>11

LEMMA PipelineInvariant == Spec => []PipelineInv
<1>1. PipelineInv /\ [Next]_vars => PipelineInv'
    <2> SUFFICES ASSUME PipelineInv, [Next]_vars PROVE PipelineInv'
        OBVIOUS
    <2>1. CASE Arrive
        BY <2>1, ArriveStep
    <2>2. CASE HookFails \/ RefuseLong \/ SelectFails \/ FindRouteFails \/ ReadSentenceFails
               \/ LlmFails \/ NoMetadata \/ ResponseFails
        BY <2>2, FailureStep
    <2>3. CASE PassRequest \/ SelectNoDefinition \/ LoopDone \/ FindRoute
        BY <2>3, PassStep
    <2>4. CASE ReadQuery \/ SaveQuery
        BY <2>4, SaveStep
    <2>5. CASE Select \/ (\E route \in Route : RewriteOperation(route))
               \/ ReadSentence \/ DescribeOperation \/ DescribeSchemas
               \/ OperationDescribed \/ OverrideRequest
        BY <2>5, RewriteStep
    <2>6. CASE UpstreamAnswers \/ KeepResponse \/ ReadResponse \/ RewriteResponse
        BY <2>6, ResponseStep
    <2>7. CASE UNCHANGED vars
        BY <2>7 DEF vars, PipelineInv, PipelineTypeOK, RequestInv, AsAsked, FilledIn, SentWhole,
                    SessionInv, SessionSaved, ResponseInv, AnsweredAsAsked, NlAsked, EncodingTrue
    <2> QED
        BY <2>1, <2>2, <2>3, <2>4, <2>5, <2>6, <2>7
           DEF Next, Step, selectAndRewrite, RewriteQueryToOas, rewriteQueryForRoute,
               RewriteResponseToNl
<1> QED
    BY <1>1, InitPipelineInv, PTL DEF Spec

-----------------------------------------------------------------------------

\* Type correctness of a request's way through the hooks.
THEOREM PipelineTypeCorrect == Spec => []PipelineTypeOK
BY PipelineInvariant, PTL DEF PipelineInv

\* The upstream gets the client's request or the LLM's, for any number of operations
\* with the identifier selected.
THEOREM RequestsSentWhole == Spec => []SentWhole
BY PipelineInvariant, PTL DEF PipelineInv, RequestInv

\* The response is rewritten if and only if it was asked for.
THEOREM ResponsesAsAsked == Spec => []AnsweredAsAsked
BY PipelineInvariant, PTL DEF PipelineInv, ResponseInv

\* The encoding a response declares is the one it has.
THEOREM EncodingsTrue == Spec => []EncodingTrue
BY PipelineInvariant, PTL DEF PipelineInv, ResponseInv

\* In the pipeline, too, exactly the references that can be reached are collected.
THEOREM PipelineCollectsExactly == Spec => []CollectedExactly
BY PipelineTraverses, CollectsExactly, PTL

\* In the pipeline, too, the calls of getSchemasRef nest no deeper than there are
\* schemas.
THEOREM PipelineBoundsRecursion ==
    ASSUME WrittenOnce, IsFiniteSet(Node) PROVE Spec => []RecursionBounded
BY PipelineTraverses, BoundsRecursion, PTL

=============================================================================
