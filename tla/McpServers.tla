------------------------------ MODULE McpServers ------------------------------
(***************************************************************************)
(* The MCP side of the plugin (plugins/agent_bridge_mcp_client.go).        *)
(* POST /mcp/init closes the clients of the configured MCP servers, loads  *)
(* a new configuration and starts a client for each of its servers; a      *)
(* natural-language query lets the LLM call the tools of these servers,    *)
(* for DEFAULT_MAX_LLM_ITERATIONS rounds at most.                          *)
(*                                                                         *)
(* mcpConfig and llmConfig are package variables that no lock guards, so   *)
(* each access of a handler is a step of its own. mcpConfig maps names to  *)
(* pointers: what it points to is named by the configuration that created  *)
(* it and the server, and a range loop goes on over the map it started     *)
(* with when the variable gets another one.                                *)
(***************************************************************************)
EXTENDS Naturals, FiniteSets

CONSTANTS
    Handler,      \* slots for requests in flight
    Initializer,  \* the slots that may serve /mcp/init
    Server,       \* the names of the MCP servers
    Tool,
    Offers,       \* the tools each server lists
    Fault,        \* which failures may happen, a subset of Faults
    LoadBound,    \* a process loads a configuration this many times at most
    Nil

DEFAULT_MAX_LLM_ITERATIONS == 3

Faults == {"kill",         \* the gateway is killed
           "config",       \* a definition, a key or a server entry is unusable
           "start",        \* an SSE client cannot be started
           "server",       \* an MCP server answers with an error
           "llm",          \* the LLM answers with an error or with nothing usable
           "no_message"}   \* the LLM answers with a choice without message

Record == (1..LoadBound) \X Server   \* what an *MCPServerConfig points to
Client == Handler \X Record          \* a client, named by who started it for what

ASSUME McpAssumption ==
    /\ Initializer \subseteq Handler
    /\ Offers \in [Server -> SUBSET Tool]
    /\ Fault \subseteq Faults
    /\ LoadBound \in Nat
    /\ Nil \notin Record
    /\ Nil \notin Client

VARIABLES
    mcpConfig,  \* the records in the current map
    loaded,     \* how many configurations have been loaded
    client,     \* MCPServerConfig.Client
    listed,     \* the records whose Tools are set
    open,       \* the clients that are connected
    llm,        \* is llmConfig.azureClient set?
    pc,         \* where each handler is
    pending,    \* the records its range loop has left
    target,     \* the record it works on
    calls,      \* the tool calls of the LLM it has still to answer
    round,
    reply       \* the answer to the last request of each slot

serverVars == <<mcpConfig, loaded, client, listed, open, llm>>
mcpVars == <<serverVars, pc, pending, target, calls, round, reply>>

Labels == {"idle", "deinit", "close", "unset", "load", "llm", "range", "init", "start",
           "initialize", "list", "query",
           "ask", "call", "calling"}

Replies == {"none", "initialized", "answered", "error", "panic"}

TypeOK ==
    /\ mcpConfig \in SUBSET Record
    /\ loaded \in 0..LoadBound
    /\ client \in [Record -> Client \cup {Nil}]
    /\ listed \in SUBSET Record
    /\ open \in SUBSET Client
    /\ llm \in BOOLEAN
    /\ pc \in [Handler -> Labels]
    /\ pending \in [Handler -> SUBSET Record]
    /\ target \in [Handler -> Record \cup {Nil}]
    /\ calls \in [Handler -> SUBSET Tool]
    /\ round \in [Handler -> 0..DEFAULT_MAX_LLM_ITERATIONS]
    /\ reply \in [Handler -> Replies]

Init ==
    /\ mcpConfig = {}
    /\ loaded = 0
    /\ client = [r \in Record |-> Nil]
    /\ listed = {}
    /\ open = {}
    /\ llm = FALSE
    /\ pc = [h \in Handler |-> "idle"]
    /\ pending = [h \in Handler |-> {}]
    /\ target = [h \in Handler |-> Nil]
    /\ calls = [h \in Handler |-> {}]
    /\ round = [h \in Handler |-> 0]
    /\ reply = [h \in Handler |-> "none"]

-----------------------------------------------------------------------------
(* Control flow of one handler.                                            *)

Goto(h, label) == pc' = [pc EXCEPT ![h] = label]

\* The request is answered and its local variables are gone. A panic ends the
\* request and not the process: net/http recovers it.
Answer(h, answer) ==
    /\ Goto(h, "idle")
    /\ reply' = [reply EXCEPT ![h] = answer]
    /\ pending' = [pending EXCEPT ![h] = {}]
    /\ target' = [target EXCEPT ![h] = Nil]
    /\ calls' = [calls EXCEPT ![h] = {}]
    /\ round' = [round EXCEPT ![h] = 0]

\* The process ends, its clients with it, and starts again.
ProcessExit ==
    /\ mcpConfig' = {}
    /\ loaded' = 0
    /\ client' = [r \in Record |-> Nil]
    /\ listed' = {}
    /\ open' = {}
    /\ llm' = FALSE
    /\ pc' = [h \in Handler |-> "idle"]
    /\ pending' = [h \in Handler |-> {}]
    /\ target' = [h \in Handler |-> Nil]
    /\ calls' = [h \in Handler |-> {}]
    /\ round' = [h \in Handler |-> 0]
    /\ reply' = [h \in Handler |-> "none"]

WillLoad == {h \in Initializer : pc[h] \in {"deinit", "close", "unset", "load"}}

\* POST /mcp/init: mcpInit begins with deinitMCPClient.
ArriveInit(h) ==
    /\ pc[h] = "idle"
    /\ h \in Initializer
    /\ loaded + Cardinality(WillLoad) < LoadBound
    /\ Goto(h, "deinit")
    /\ pending' = [pending EXCEPT ![h] = mcpConfig]
    /\ reply' = [reply EXCEPT ![h] = "none"]
    /\ UNCHANGED <<serverVars, target, calls, round>>

\* POST /mcp, or a query that no API can answer.
ArriveQuery(h) ==
    /\ pc[h] = "idle"
    /\ Goto(h, "query")
    /\ reply' = [reply EXCEPT ![h] = "none"]
    /\ UNCHANGED <<serverVars, pending, target, calls, round>>

-----------------------------------------------------------------------------
(* mcpInit                                                                 *)

\* Mutant: only a server whose tools are listed has a client to close.
FindListedClient(h, r) ==
    /\ pc[h] = "deinit"
    /\ r \in pending[h]
    /\ pending' = [pending EXCEPT ![h] = @ \ {r}]
    /\ \/ /\ client[r] = Nil \/ r \notin listed
          /\ UNCHANGED <<pc, target>>
       \/ /\ client[r] # Nil /\ r \in listed
          /\ target' = [target EXCEPT ![h] = r]
          /\ Goto(h, "close")
    /\ UNCHANGED <<serverVars, calls, round, reply>>

\* deinitMCPClient passes the servers that have no client ...
FindClient(h, r) ==
    /\ pc[h] = "deinit"
    /\ r \in pending[h]
    /\ pending' = [pending EXCEPT ![h] = @ \ {r}]
    /\ \/ /\ client[r] = Nil
          /\ UNCHANGED <<pc, target>>
       \/ /\ client[r] # Nil
          /\ target' = [target EXCEPT ![h] = r]
          /\ Goto(h, "close")
    /\ UNCHANGED <<serverVars, calls, round, reply>>

\* ... closes the client of one that has, reading the field again ...
CloseClient(h) ==
    /\ pc[h] = "close"
    /\ client[target[h]] # Nil
    /\ open' = open \ {client[target[h]]}
    /\ Goto(h, "unset")
    /\ UNCHANGED <<mcpConfig, loaded, client, listed, llm, pending, target, calls, round, reply>>

\* (another initialization may have set it to nil in between)
CloseNoClient(h) ==
    /\ pc[h] = "close"
    /\ client[target[h]] = Nil
    /\ Answer(h, "panic")
    /\ UNCHANGED serverVars

\* ... and then forgets it.
UnsetClient(h) ==
    /\ pc[h] = "unset"
    /\ client' = [client EXCEPT ![target[h]] = Nil]
    /\ target' = [target EXCEPT ![h] = Nil]
    /\ Goto(h, "deinit")
    /\ UNCHANGED <<mcpConfig, loaded, listed, open, llm, pending, calls, round, reply>>

\* Mutant: the old configuration stays until there is a new one.
KeepServers(h) ==
    /\ pc[h] = "deinit"
    /\ pending[h] = {}
    /\ Goto(h, "load")
    /\ UNCHANGED <<serverVars, pending, target, calls, round, reply>>

ClearServers(h) ==
    /\ pc[h] = "deinit"
    /\ pending[h] = {}
    /\ mcpConfig' = {}
    /\ Goto(h, "load")
    /\ UNCHANGED <<loaded, client, listed, open, llm, pending, target, calls, round, reply>>

\* loadMCPPluginConfig assigns the configured servers, none of which has a
\* client or tools yet.
LoadServers(h) ==
    /\ pc[h] = "load"
    /\ loaded' = loaded + 1
    /\ \E names \in SUBSET Server : mcpConfig' = {loaded + 1} \X names
    /\ Goto(h, "llm")
    /\ UNCHANGED <<client, listed, open, llm, pending, target, calls, round, reply>>

\* The OpenAI client is made last: a configuration without key leaves the
\* previous one in place.
ConfigureLlm(h) ==
    /\ pc[h] = "llm"
    /\ llm' = TRUE
    /\ Goto(h, "range")
    /\ UNCHANGED <<mcpConfig, loaded, client, listed, open, pending, target, calls, round, reply>>

\* The definition, the key or the endpoint is unusable. A client that could
\* not be made is assigned all the same.
LoadFails(h) ==
    /\ "config" \in Fault
    /\ pc[h] \in {"load", "llm"}
    /\ llm' \in {llm} \cup (IF pc[h] = "llm" THEN {FALSE} ELSE {})
    /\ Answer(h, "error")
    /\ UNCHANGED <<mcpConfig, loaded, client, listed, open>>

\* initMCPClient reads mcpConfig anew.
RangeServers(h) ==
    /\ pc[h] = "range"
    /\ pending' = [pending EXCEPT ![h] = mcpConfig]
    /\ Goto(h, "init")
    /\ UNCHANGED <<serverVars, target, calls, round, reply>>

SkipServer(h, r) ==
    /\ pc[h] = "init"
    /\ r \in pending[h]
    /\ client[r] # Nil
    /\ pending' = [pending EXCEPT ![h] = @ \ {r}]
    /\ UNCHANGED <<serverVars, pc, target, calls, round, reply>>

StartClient(h, r) ==
    /\ pc[h] = "init"
    /\ r \in pending[h]
    /\ client[r] = Nil
    /\ target' = [target EXCEPT ![h] = r]
    /\ Goto(h, "start")
    /\ UNCHANGED <<serverVars, pending, calls, round, reply>>

\* A missing environment variable, neither address nor command, or a client
\* that cannot be made: the other servers of the map are left as they are.
StartClientFails(h) ==
    /\ "config" \in Fault
    /\ pc[h] = "start"
    /\ Answer(h, "error")
    /\ UNCHANGED serverVars

\* client.Start fails: logger.Fatalf.
StartClientFatal(h) ==
    /\ "start" \in Fault
    /\ pc[h] = "start"
    /\ ProcessExit

SetClient(h) ==
    /\ pc[h] = "start"
    /\ open' = open \cup {<<h, target[h]>>}
    /\ client' = [client EXCEPT ![target[h]] = <<h, target[h]>>]
    /\ Goto(h, "initialize")
    /\ UNCHANGED <<mcpConfig, loaded, listed, llm, pending, target, calls, round, reply>>

\* Initialize and ListTools go through config.Client, which is read again.
Connected(h) == client[target[h]] \in open

Initialize(h) ==
    /\ pc[h] = "initialize"
    /\ Connected(h)
    /\ Goto(h, "list")
    /\ UNCHANGED <<serverVars, pending, target, calls, round, reply>>

ListTools(h) ==
    /\ pc[h] = "list"
    /\ Connected(h)
    /\ listed' = listed \cup {target[h]}
    /\ pending' = [pending EXCEPT ![h] = @ \ {target[h]}]
    /\ target' = [target EXCEPT ![h] = Nil]
    /\ Goto(h, "init")
    /\ UNCHANGED <<mcpConfig, loaded, client, open, llm, calls, round, reply>>

\* The server answers with an error, the client has been closed, or there is
\* none any more: a nil pointer.
ServerFails(h) ==
    /\ pc[h] \in {"initialize", "list"}
    /\ Connected(h) => "server" \in Fault
    /\ Answer(h, IF client[target[h]] = Nil THEN "panic" ELSE "error")
    /\ UNCHANGED serverVars

FinishInit(h) ==
    /\ pc[h] = "init"
    /\ pending[h] = {}
    /\ Answer(h, "initialized")
    /\ UNCHANGED serverVars

-----------------------------------------------------------------------------
(* processQueryWithMCP and callMCPTool                                     *)

Available == UNION {Offers[r[2]] : r \in mcpConfig \cap listed}

ReadTools(h) ==
    /\ pc[h] = "query"
    /\ Available # {}
    /\ llm
    /\ Goto(h, "ask")
    /\ UNCHANGED <<serverVars, pending, target, calls, round, reply>>

RefuseQuery(h) ==
    /\ pc[h] = "query"
    /\ Available = {} \/ ~llm
    /\ Answer(h, "error")
    /\ UNCHANGED serverVars

\* Mutant: only the rounds in which a tool is called are counted.
AskCountingCalls(h) ==
    /\ pc[h] = "ask"
    /\ round[h] < DEFAULT_MAX_LLM_ITERATIONS
    /\ llm
    /\ \E asked \in SUBSET Tool :
          /\ calls' = [calls EXCEPT ![h] = asked]
          /\ round' = [round EXCEPT ![h] = IF asked = {} THEN @ ELSE @ + 1]
    /\ Goto(h, "call")
    /\ UNCHANGED <<serverVars, pending, target, reply>>

\* Mutant: the number of rounds is not limited.
AskBeyondLimit(h) ==
    /\ pc[h] = "ask"
    /\ llm
    /\ \E asked \in SUBSET Tool : calls' = [calls EXCEPT ![h] = asked]
    /\ round' = [round EXCEPT ![h] = @ + 1]
    /\ Goto(h, "call")
    /\ UNCHANGED <<serverVars, pending, target, reply>>

\* A round: the LLM asks for some tools, whether it was offered them or not,
\* or stops early for want of tokens and asks for none.
AskForTools(h) ==
    /\ pc[h] = "ask"
    /\ round[h] < DEFAULT_MAX_LLM_ITERATIONS
    /\ llm
    /\ \E asked \in SUBSET Tool : calls' = [calls EXCEPT ![h] = asked]
    /\ round' = [round EXCEPT ![h] = @ + 1]
    /\ Goto(h, "call")
    /\ UNCHANGED <<serverVars, pending, target, reply>>

\* The LLM is done.
StopAsking(h) ==
    /\ pc[h] = "ask"
    /\ round[h] < DEFAULT_MAX_LLM_ITERATIONS
    /\ llm
    /\ Answer(h, "answered")
    /\ UNCHANGED serverVars

\* No answer, none that is complete, or no client to ask. The message of a
\* choice is used before it is checked.
AskFails(h) ==
    /\ pc[h] = "ask"
    /\ round[h] < DEFAULT_MAX_LLM_ITERATIONS
    /\ \/ llm /\ "llm" \in Fault /\ Answer(h, "error")
       \/ llm /\ "no_message" \in Fault /\ Answer(h, "panic")
       \/ ~llm /\ Answer(h, "panic")
    /\ UNCHANGED serverVars

GiveUp(h) ==
    /\ pc[h] = "ask"
    /\ round[h] = DEFAULT_MAX_LLM_ITERATIONS
    /\ Answer(h, "error")
    /\ UNCHANGED serverVars

\* callMCPTool looks for the tool in the map of now. With several servers that
\* offer it the last one in the random order of the map is taken.
FindTool(h, t) ==
    /\ pc[h] = "call"
    /\ t \in calls[h]
    /\ calls' = [calls EXCEPT ![h] = @ \ {t}]
    /\ \E r \in mcpConfig \cap listed :
          t \in Offers[r[2]] /\ target' = [target EXCEPT ![h] = r]
    /\ Goto(h, "calling")
    /\ UNCHANGED <<serverVars, pending, round, reply>>

\* Arguments that are not JSON, or a tool that no server has: the LLM is told
\* that the call failed.
ToolNotFound(h, t) ==
    /\ pc[h] = "call"
    /\ t \in calls[h]
    /\ (\E r \in mcpConfig \cap listed : t \in Offers[r[2]]) => "llm" \in Fault
    /\ calls' = [calls EXCEPT ![h] = @ \ {t}]
    /\ UNCHANGED <<serverVars, pc, pending, target, round, reply>>

\* The tool is called and its result, or that it failed, is a message to the
\* LLM.
CallTool(h) ==
    /\ pc[h] = "calling"
    /\ client[target[h]] # Nil
    /\ target' = [target EXCEPT ![h] = Nil]
    /\ Goto(h, "call")
    /\ UNCHANGED <<serverVars, pending, calls, round, reply>>

\* The client of the server is gone: a nil pointer.
CallNoClient(h) ==
    /\ pc[h] = "calling"
    /\ client[target[h]] = Nil
    /\ Answer(h, "panic")
    /\ UNCHANGED serverVars

\* Every call of the round is answered: next round.
NextRound(h) ==
    /\ pc[h] = "call"
    /\ calls[h] = {}
    /\ Goto(h, "ask")
    /\ UNCHANGED <<serverVars, pending, target, calls, round, reply>>

-----------------------------------------------------------------------------
(* The specification.                                                      *)

Kill == "kill" \in Fault /\ ProcessExit

mcpInit(h) ==
    \/ \E r \in Record : FindClient(h, r) \/ SkipServer(h, r) \/ StartClient(h, r)
    \/ CloseClient(h) \/ CloseNoClient(h) \/ UnsetClient(h) \/ ClearServers(h)
    \/ LoadServers(h) \/ ConfigureLlm(h) \/ LoadFails(h)
    \/ RangeServers(h) \/ StartClientFails(h) \/ StartClientFatal(h) \/ SetClient(h)
    \/ Initialize(h) \/ ListTools(h) \/ ServerFails(h) \/ FinishInit(h)

processQueryWithMCP(h) ==
    \/ ReadTools(h) \/ RefuseQuery(h)
    \/ AskForTools(h) \/ StopAsking(h) \/ AskFails(h) \/ GiveUp(h)
    \/ \E t \in Tool : FindTool(h, t) \/ ToolNotFound(h, t)
    \/ CallTool(h) \/ CallNoClient(h) \/ NextRound(h)

Step(h) == mcpInit(h) \/ processQueryWithMCP(h)

Next == Kill \/ \E h \in Handler : ArriveInit(h) \/ ArriveQuery(h) \/ Step(h)

Spec == Init /\ [][Next]_mcpVars

\* Goroutines run, and servers and the LLM answer or fail in the end (every
\* context is context.TODO: the code itself has no timeout).
FairSpec == Spec /\ \A h \in Handler : WF_mcpVars(Step(h))

-----------------------------------------------------------------------------
(* Properties                                                              *)

Initializing == \E h \in Initializer : pc[h] \notin {"idle", "query", "ask", "call", "calling"}

\* No client is leaked: one that is connected can be reached from mcpConfig,
\* where the next deinitMCPClient finds it, also after an initialization that
\* failed half-way.
NoOrphanClient == \A c \in open : \E r \in mcpConfig : client[r] = c

\* Unless an initialization is under way, a server whose tools are offered to
\* the LLM has a connected client to call them through.
ToolsHaveClient ==
    ~Initializing => \A r \in mcpConfig \cap listed : client[r] \in open

\* How many steps of its own a request has left at most.
ReloadWork == 4 * Cardinality(Record) + 2
RoundWork  == 2 * Cardinality(Tool) + 2

Work(h) ==
    LET servers == Cardinality(pending[h])
        answers == Cardinality(calls[h])
        rounds  == (DEFAULT_MAX_LLM_ITERATIONS - round[h]) * RoundWork
    IN  CASE pc[h] = "idle"       -> 0
          [] pc[h] = "deinit"     -> ReloadWork + 3 + 3 * servers
          [] pc[h] = "close"      -> ReloadWork + 5 + 3 * servers
          [] pc[h] = "unset"      -> ReloadWork + 4 + 3 * servers
          [] pc[h] = "load"       -> ReloadWork + 2
          [] pc[h] = "llm"        -> ReloadWork + 1
          [] pc[h] = "range"      -> ReloadWork
          [] pc[h] = "init"       -> 4 * servers + 1
          [] pc[h] = "start"      -> 4 * servers
          [] pc[h] = "initialize" -> 4 * servers - 1
          [] pc[h] = "list"       -> 4 * servers - 2
          [] pc[h] = "query"      -> rounds + 2
          [] pc[h] = "ask"        -> rounds + 1
          [] pc[h] = "call"       -> rounds + 2 * answers + 2
          [] pc[h] = "calling"    -> rounds + 2 * answers + 3

WorksOn(h) ==
    \/ Work(h)' < Work(h)
    \/ <<pc[h], pending[h], target[h], calls[h], round[h]>>'
           = <<pc[h], pending[h], target[h], calls[h], round[h]>>

\* Whatever the LLM and the servers reply and whatever the other handlers do
\* to the map it walks through, a step either takes work off a request or
\* leaves it alone: no request can go on for ever.
WorkDecreases == [][\A h \in Handler : pc[h] # "idle" => WorksOn(h)]_mcpVars

\* Every initialization and every query is answered, whatever the LLM replies.
RequestsAnswered == \A h \in Handler : pc[h] # "idle" ~> pc[h] = "idle"

=============================================================================
