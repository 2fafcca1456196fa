--------------------------- MODULE RequestPipeline ---------------------------
(***************************************************************************)
(* One request on its way through the two hooks of an API:                 *)
(*   - on the way to the upstream APIBridgeAgent (selectAndRewrite) or     *)
(*     RewriteQueryToOas replaces a natural language query by a call of    *)
(*     the API, with an LLM that is given the operation and its schemas    *)
(*     (SchemaRefs);                                                       *)
(*   - on the way back RewriteResponseToNl replaces the response, if the   *)
(*     session says so.                                                    *)
(* A request shares nothing with others here but its configuration, which  *)
(* is in PluginConfig, so there is one.                                    *)
(***************************************************************************)
EXTENDS SchemaRefs

CONSTANTS
    Route,      \* the operations of the API: a method and a path each
    Requests    \* what clients ask for

Elsewhere == "elsewhere"        \* a path without an operation

-----------------------------------------------------------------------------
(* The requests and what becomes of them.                                  *)

Hook == {"APIBridgeAgent", "RewriteQueryToOas"}

\* The value of X-Nl-Response-Type, trimmed and in lower case.
ResponseType == {"nl", "upstream", "absent"}

\* A body: the client's, which Tyk lets the plugin read again; the one written
\* by the LLM, which can be read once; nil.
Body == {"asked", "llm", "drained", "nil"}

\* A session of the plugin, or of another middleware, without its metadata.
Session == [sentence : Body, type : ResponseType]
Foreign == [sentence |-> "none", type |-> "none"]

\* The session processSelectService leaves when it routes a query to the API.
Routed == [sentence |-> "asked", type |-> "nl"]

\* nlq: the headers ask for a rewriting; long: Content-Length is over the limit.
Ask == [hook : Hook, nlq : BOOLEAN, type : ResponseType, long : BOOLEAN,
        path : Route \cup {Elsewhere},
        session : {Nil, Foreign, Routed}]

Reply == {"delivered", "404", "413", "500", "panic"}

ASSUME PipelineAssumption ==
    /\ Elsewhere \notin Route
    /\ Requests \subseteq Ask
    /\ Nil \notin Requests \cup Session \cup {Foreign} \cup Reply

\* Content-Encoding; the plugin knows gzip only.
Coding == {"identity", "gzip", "other"}

\* The text of a response, how it is coded, and how its header says it is.
Response == [text : {"upstream", "nl"}, coded : Coding, declared : Coding]

Labels == {"idle", "hook", "select", "loop", "route", "rewrite", "collect",
           "llm", "upstream", "response", "answer"}

VARIABLES
    pc,
    asked,      \* what the client asked for
    request,    \* what will be sent upstream: operation and body
    session,    \* the metadata that travels from one hook to the other
    selected,   \* the operations that have the identifier selected
    rewritten,  \* the operations the request has been rewritten for
    sentence,   \* nlSentence: what the LLM is told that the client wants
    response,
    reply       \* how the plugin is done with the request

pipelineVars == <<pc, asked, request, session, selected, rewritten, sentence,
                  response, reply>>

vars == <<pc, asked, request, session, selected, rewritten, sentence,
          response, reply, schemaVars>>

PipelineTypeOK ==
    /\ pc \in Labels
    /\ asked \in Requests \cup {Nil}
    /\ pc # "idle" => asked # Nil
    /\ request \in [path : Route \cup {Elsewhere}, body : Body]
    /\ session \in Session \cup {Nil, Foreign}
    /\ selected \in SUBSET Route
    /\ rewritten \in SUBSET Route
    /\ sentence \in Body
    /\ response \in Response \cup {Nil}
    /\ reply \in Reply \cup {Nil}

-----------------------------------------------------------------------------
(* The steps.                                                              *)

Init ==
    /\ pc = "idle"
    /\ asked = Nil
    /\ request = [path |-> Elsewhere, body |-> "nil"]
    /\ session = Nil
    /\ selected = {}
    /\ rewritten = {}
    /\ sentence = "nil"
    /\ response = Nil
    /\ reply = Nil
    /\ SchemaInit

\* The request leaves the plugin.
Answer(answer) ==
    /\ pc' = "idle"
    /\ reply' = answer

Arrive ==
    /\ pc = "idle"
    /\ asked' \in Requests
    /\ request' = [path |-> asked'.path, body |-> "asked"]
    /\ session' = asked'.session
    /\ selected' = {}
    /\ rewritten' = {}
    /\ sentence' = "nil"
    /\ response' = Nil
    /\ reply' = Nil
    /\ pc' = "hook"
    /\ UNCHANGED schemaVars

\* The hook has nothing to do.
PassRequest ==
    /\ pc = "hook"
    /\ ~asked.nlq
    /\ pc' = "upstream"
    /\ UNCHANGED <<asked, request, session, selected, rewritten, sentence,
                   response, reply, schemaVars>>

\* No configuration, or the body cannot be read. APIBridgeAgent looks at neither
\* for a request that is not for it.
HookFails ==
    /\ pc = "hook"
    /\ asked.hook = "APIBridgeAgent" => asked.nlq
    /\ Answer("500")
    /\ UNCHANGED <<asked, request, session, selected, rewritten, sentence,
                   response, schemaVars>>

(* selectAndRewrite *)

RefuseLong ==
    /\ pc = "hook"
    /\ asked.hook = "APIBridgeAgent" /\ asked.nlq /\ asked.long
    /\ Answer("413")
    /\ UNCHANGED <<asked, request, session, selected, rewritten, sentence,
                   response, schemaVars>>

ReadQuery ==
    /\ pc = "hook"
    /\ asked.hook = "APIBridgeAgent" /\ asked.nlq /\ ~asked.long
    /\ session' = [sentence |-> request.body, type |-> "nl"]
    /\ pc' = "select"
    /\ UNCHANGED <<asked, request, selected, rewritten, sentence, response,
                   reply, schemaVars>>

\* No index or an error; no operation that is relevant enough.
SelectFails ==
    /\ pc = "select"
    /\ \E answer \in {"500", "404"} : Answer(answer)
    /\ UNCHANGED <<asked, request, session, selected, rewritten, sentence,
                   response, schemaVars>>

\* The configuration is cached, the definition is not attached to the request.
SelectNoDefinition ==
    /\ pc = "select"
    /\ pc' = "upstream"
    /\ UNCHANGED <<asked, request, session, selected, rewritten, sentence,
                   response, reply, schemaVars>>

\* The operations of the definition whose operationId is the one selected: none
\* if the index is older than the definition, several if it is not unique.
Select ==
    /\ pc = "select"
    /\ selected' \in SUBSET Route
    /\ pc' = "loop"
    /\ UNCHANGED <<asked, request, session, rewritten, sentence, response,
                   reply, schemaVars>>

RewriteOperation(route) ==
    /\ pc = "loop"
    /\ route \in selected \ rewritten
    /\ request' = [request EXCEPT !.path = route]
    /\ pc' = "rewrite"
    /\ UNCHANGED <<asked, session, selected, rewritten, sentence, response,
                   reply, schemaVars>>

LoopDone ==
    /\ pc = "loop"
    /\ selected \subseteq rewritten
    /\ pc' = "upstream"
    /\ UNCHANGED <<asked, request, session, selected, rewritten, sentence,
                   response, reply, schemaVars>>

(* RewriteQueryToOas *)

\* Mutant: every response is rewritten.
SaveQueryNl ==
    /\ pc = "hook"
    /\ asked.hook = "RewriteQueryToOas" /\ asked.nlq
    /\ session' = [sentence |-> request.body, type |-> "nl"]
    /\ pc' = "route"
    /\ UNCHANGED <<asked, request, selected, rewritten, sentence, response,
                   reply, schemaVars>>

SaveQuery ==
    /\ pc = "hook"
    /\ asked.hook = "RewriteQueryToOas" /\ asked.nlq
    /\ session' = [sentence |-> request.body, type |-> asked.type]
    /\ pc' = "route"
    /\ UNCHANGED <<asked, request, selected, rewritten, sentence, response,
                   reply, schemaVars>>

\* Mutant: the error of getRoute is not looked at.
FindRouteUnchecked ==
    /\ pc = "route"
    /\ pc' = "rewrite"
    /\ UNCHANGED <<asked, request, session, selected, rewritten, sentence,
                   response, reply, schemaVars>>

FindRoute ==
    /\ pc = "route"
    /\ request.path \in Route
    /\ pc' = "rewrite"
    /\ UNCHANGED <<asked, request, session, selected, rewritten, sentence,
                   response, reply, schemaVars>>

\* No definition or no operation. A panic: stripListenPath looks at the first
\* character of a path of which nothing is left, or the router could not be made
\* of the definition and is nil.
FindRouteFails ==
    /\ pc = "route"
    /\ \E answer \in {"500", "panic"} : Answer(answer)
    /\ UNCHANGED <<asked, request, session, selected, rewritten, sentence,
                   response, schemaVars>>

(* rewriteQueryForRoute *)

ReadSentence ==
    /\ pc = "rewrite"
    /\ request.body # "nil"
    /\ sentence' = request.body
    /\ request' = [request EXCEPT !.body = IF @ = "llm" THEN "drained" ELSE @]
    /\ pc' = "collect"
    /\ UNCHANGED <<asked, session, selected, rewritten, response, reply, schemaVars>>

\* No configuration, the body cannot be read, or there is none.
ReadSentenceFails ==
    /\ pc = "rewrite"
    /\ \/ Answer("500")
       \/ request.body = "nil" /\ Answer("panic")
    /\ UNCHANGED <<asked, request, session, selected, rewritten, sentence,
                   response, schemaVars>>

DescribeOperation ==
    /\ pc = "collect"
    /\ BuildOperationString
    /\ UNCHANGED pipelineVars

DescribeSchemas ==
    /\ pc = "collect"
    /\ CollectRefs
    /\ UNCHANGED pipelineVars

OperationDescribed ==
    /\ pc = "collect"
    /\ OperationString
    /\ pc' = "llm"
    /\ UNCHANGED <<asked, request, session, selected, rewritten, sentence,
                   response, reply>>

Rewritten == IF asked.hook = "APIBridgeAgent" THEN "loop" ELSE "upstream"

\* The request becomes what the LLM has made of the sentence.
OverrideRequest ==
    /\ pc = "llm"
    /\ \E body \in {"llm", "nil"} : request' = [request EXCEPT !.body = body]
    /\ rewritten' = rewritten \cup {request.path}
    /\ pc' = Rewritten
    /\ UNCHANGED <<asked, session, selected, sentence, response, reply, schemaVars>>

\* Mutant: the request is sent as it is then.
LlmFailsIgnored ==
    /\ pc = "llm"
    /\ pc' = "upstream"
    /\ UNCHANGED <<asked, request, session, selected, rewritten, sentence,
                   response, reply, schemaVars>>

\* Mutant: the LLM is asked again.
LlmFailsRetried ==
    /\ pc = "llm"
    /\ pc' = "rewrite"
    /\ UNCHANGED <<asked, request, session, selected, rewritten, sentence,
                   response, reply, schemaVars>>

\* The LLM fails, or its answer is not the JSON object it was asked for.
LlmFails ==
    /\ pc = "llm"
    /\ Answer("500")
    /\ UNCHANGED <<asked, request, session, selected, rewritten, sentence,
                   response, schemaVars>>

(* RewriteResponseToNl *)

UpstreamAnswers ==
    /\ pc = "upstream"
    /\ \E coding \in Coding :
          response' = [text |-> "upstream", coded |-> coding, declared |-> coding]
    /\ pc' = "response"
    /\ UNCHANGED <<asked, request, session, selected, rewritten, sentence,
                   reply, schemaVars>>

\* shouldRewriteResponseToNl: the session does not ask for it.
KeepResponse ==
    /\ pc = "response"
    /\ session \in {Nil} \cup [sentence : Body, type : {"upstream", "absent"}]
    /\ Answer("delivered")
    /\ UNCHANGED <<asked, request, session, selected, rewritten, sentence,
                   response, schemaVars>>

\* The metadata is asserted to be a string.
NoMetadata ==
    /\ pc = "response"
    /\ session = Foreign
    /\ Answer("panic")
    /\ UNCHANGED <<asked, request, session, selected, rewritten, sentence,
                   response, schemaVars>>

\* Mutant: the header is not told that the body has been unzipped.
ReadResponseKeepHeader ==
    /\ pc = "response"
    /\ session \in [sentence : Body, type : {"nl"}]
    /\ response' = [response EXCEPT !.coded = IF @ = "gzip" THEN "identity" ELSE @]
    /\ pc' = "answer"
    /\ UNCHANGED <<asked, request, session, selected, rewritten, sentence,
                   reply, schemaVars>>

\* The body is read, and unzipped.
ReadResponse ==
    /\ pc = "response"
    /\ session \in [sentence : Body, type : {"nl"}]
    /\ response' = IF response.declared = "gzip"
                   THEN [response EXCEPT !.coded = "identity", !.declared = "identity"]
                   ELSE response
    /\ pc' = "answer"
    /\ UNCHANGED <<asked, request, session, selected, rewritten, sentence,
                   reply, schemaVars>>

\* responseToNL has an answer, and the response is replaced by it.
RewriteResponse ==
    /\ pc = "answer"
    /\ response' = [response EXCEPT !.text = "nl", !.coded = "identity"]
    /\ Answer("delivered")
    /\ UNCHANGED <<asked, request, session, selected, rewritten, sentence, schemaVars>>

\* No configuration, a body that cannot be read or unzipped; the LLM fails.
ResponseFails ==
    /\ pc \in {"response", "answer"}
    /\ Answer("500")
    /\ UNCHANGED <<asked, request, session, selected, rewritten, sentence,
                   response, schemaVars>>

-----------------------------------------------------------------------------

selectAndRewrite ==
    \/ RefuseLong \/ ReadQuery
    \/ SelectFails \/ SelectNoDefinition \/ Select
    \/ LoopDone \/ \E route \in Route : RewriteOperation(route)

RewriteQueryToOas == SaveQuery \/ FindRoute \/ FindRouteFails

rewriteQueryForRoute ==
    \/ ReadSentence \/ ReadSentenceFails
    \/ DescribeOperation \/ DescribeSchemas \/ OperationDescribed
    \/ OverrideRequest \/ LlmFails

RewriteResponseToNl ==
    KeepResponse \/ NoMetadata \/ ReadResponse \/ RewriteResponse \/ ResponseFails

Step ==
    \/ PassRequest \/ HookFails
    \/ selectAndRewrite \/ RewriteQueryToOas \/ rewriteQueryForRoute
    \/ UpstreamAnswers \/ RewriteResponseToNl

Next == Arrive \/ Step

Spec == Init /\ [][Next]_vars

\* The goroutine of the request runs; the LLM and the upstream answer or fail.
FairSpec == Spec /\ WF_vars(Step)

-----------------------------------------------------------------------------
(* Properties                                                              *)

\* What is sent upstream is the client's request as it came, or a call of an
\* operation that the LLM has filled in: never the path of an operation with
\* the client's sentence as its body.
SentWhole ==
    pc = "upstream" =>
        \/ request = [path |-> asked.path, body |-> "asked"]
        \/ request.path \in rewritten /\ request.body \in {"llm", "nil"}

\* Does the plugin owe the client a natural language answer? A request of content
\* type application/nlq always gets one: X-Nl-Response-Type is not looked at then.
\* Otherwise that header decides, or the request comes from the cross-API router.
NlAsked ==
    IF asked.nlq THEN asked.hook = "APIBridgeAgent" \/ asked.type = "nl"
    ELSE asked.session = Routed

\* The second hook rewrites the response if and only if the first one, or the
\* cross-API router, has put the client's request and wish into the session, and
\* whatever session another middleware has left.
AnsweredAsAsked ==
    reply = "delivered" =>
        /\ response.text = "nl" <=> NlAsked
        /\ NlAsked => session.sentence = "asked"

\* A client can decode what it receives: the header that was true of the upstream's
\* body is true of the one that replaces it. (Not so for an encoding other than gzip.)
EncodingTrue ==
    reply = "delivered" /\ response.declared # "other" => response.declared = response.coded

\* Every request is answered, by the upstream or by the plugin, whatever fails and
\* however the schemas of the operation refer to each other.
RequestAnswered == pc # "idle" ~> pc = "idle"

=============================================================================
