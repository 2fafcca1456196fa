--------------------------- MODULE McpServersProofs ---------------------------
(***************************************************************************)
(* Theorems about McpServers, for every number of servers, tools, queries  *)
(* and configurations, when one slot serves /mcp/init. (With two at once   *)
(* clients are leaked: one handler's loop ranges over the map that the     *)
(* other has replaced.)                                                    *)
(*                                                                         *)
(* The inductive invariant follows the one initialization through          *)
(* deinitMCPClient (what is still connected is still to be closed), the    *)
(* reload (nothing is connected) and initMCPClient (it works on the        *)
(* current map, and a server it starts has no client yet).                 *)
(***************************************************************************)
EXTENDS McpServers, FiniteSetTheorems, TLAPS

QueryLabels == {"idle", "query", "ask", "call", "calling"}
Closing     == {"deinit", "close", "unset"}
Working     == {"start", "initialize", "list"}

\* Only an initializer runs mcpInit.
Apart == \A h \in Handler : h \notin Initializer => pc[h] \in QueryLabels

\* What a configuration that is still to be loaded will be made of is unused.
Fresh == \A r \in mcpConfig \cup listed : r[1] <= loaded

CloseInv(h) ==
    /\ pc[h] \in Closing \cup {"load"} => loaded < LoadBound
    /\ pc[h] \in Closing => pending[h] \subseteq mcpConfig
    /\ pc[h] \in {"deinit", "unset"} =>
           \A c \in open : \E r \in pending[h] : client[r] = c
    /\ pc[h] = "close" =>
           /\ target[h] \in Record
           /\ client[target[h]] # Nil
           /\ \A c \in open \ {client[target[h]]} : \E r \in pending[h] : client[r] = c
    /\ pc[h] = "unset" => target[h] \in Record /\ client[target[h]] \notin open
    /\ pc[h] \in {"load", "llm", "range"} => open = {}

StartInv(h) ==
    /\ pc[h] \in {"init"} \cup Working => pending[h] \subseteq mcpConfig
    /\ pc[h] \in Working => target[h] \in mcpConfig
    /\ pc[h] = "start" => client[target[h]] = Nil

Listed ==
    (\A h \in Initializer : pc[h] \notin Closing) =>
        \A r \in mcpConfig \cap listed : client[r] \in open

IInv == /\ TypeOK
        /\ Apart
        /\ Fresh
        /\ \A h \in Initializer : CloseInv(h) /\ StartInv(h)
        /\ NoOrphanClient
        /\ Listed

\* POST /mcp/init requests are sent one at a time.
OneInitializer == \A h, k \in Initializer : h = k

-----------------------------------------------------------------------------
(* Initial states, restarts, and the steps that touch no server.           *)

LEMMA BlankOK ==
    ASSUME mcpConfig = {}, loaded = 0, client = [r \in Record |-> Nil], listed = {},
           open = {}, llm = FALSE, pc = [h \in Handler |-> "idle"],
           pending = [h \in Handler |-> {}], target = [h \in Handler |-> Nil],
           calls = [h \in Handler |-> {}], round = [h \in Handler |-> 0],
           reply = [h \in Handler |-> "none"]
    PROVE  IInv
<1>1. TypeOK
  <2>1. loaded \in 0..LoadBound /\ round \in [Handler -> 0..DEFAULT_MAX_LLM_ITERATIONS]
    BY McpAssumption DEF DEFAULT_MAX_LLM_ITERATIONS
  <2>2. llm \in BOOLEAN
    OBVIOUS
  <2>3. client \in [Record -> Client \cup {Nil}] /\ target \in [Handler -> Record \cup {Nil}]
    OBVIOUS
  <2> QED
    BY <2>1, <2>2, <2>3 DEF TypeOK, Labels, Replies
<1>2. \A h \in Handler : pc[h] = "idle"
  OBVIOUS
<1>3. Apart /\ Fresh /\ NoOrphanClient /\ Listed
  BY <1>2 DEF Apart, QueryLabels, Fresh, NoOrphanClient, Listed
<1>4. \A h \in Initializer : CloseInv(h) /\ StartInv(h)
  BY <1>2, McpAssumption DEF CloseInv, StartInv, Closing, Working
<1> QED
  BY <1>1, <1>3, <1>4 DEF IInv

LEMMA ExitOK == ProcessExit => IInv'
<1> SUFFICES ASSUME ProcessExit PROVE IInv'
  OBVIOUS
<1>1. TypeOK'
  <2>1. loaded' \in 0..LoadBound /\ round' \in [Handler -> 0..DEFAULT_MAX_LLM_ITERATIONS]
    BY McpAssumption DEF ProcessExit, DEFAULT_MAX_LLM_ITERATIONS
  <2>2. llm' \in BOOLEAN
    BY DEF ProcessExit
  <2>3. client' \in [Record -> Client \cup {Nil}] /\ target' \in [Handler -> Record \cup {Nil}]
    BY DEF ProcessExit
  <2> QED
    BY <2>1, <2>2, <2>3 DEF ProcessExit, TypeOK, Labels, Replies
<1>2. \A h \in Handler : pc'[h] = "idle"
  BY DEF ProcessExit
<1>3. (Apart /\ Fresh /\ NoOrphanClient /\ Listed)'
  BY <1>2 DEF ProcessExit, Apart, QueryLabels, Fresh, NoOrphanClient, Listed
<1>4. \A h \in Initializer : CloseInv(h)' /\ StartInv(h)'
  BY <1>2, McpAssumption DEF CloseInv, StartInv, Closing, Working
<1> QED
  BY <1>1, <1>3, <1>4 DEF IInv

\* An answer leaves every variable of the handler in its initial type.
LEMMA AnswerTyped ==
    ASSUME TypeOK, NEW h \in Handler, NEW answer \in Replies, Answer(h, answer)
    PROVE  /\ pc' \in [Handler -> Labels]
           /\ pending' \in [Handler -> SUBSET Record]
           /\ target' \in [Handler -> Record \cup {Nil}]
           /\ calls' \in [Handler -> SUBSET Tool]
           /\ round' \in [Handler -> 0..DEFAULT_MAX_LLM_ITERATIONS]
           /\ reply' \in [Handler -> Replies]
           /\ pc'[h] = "idle"
           /\ \A k \in Handler \ {h} : /\ pc'[k] = pc[k]
                                       /\ pending'[k] = pending[k]
                                       /\ target'[k] = target[k]
BY DEF Answer, Goto, TypeOK, Labels, DEFAULT_MAX_LLM_ITERATIONS

\* A step that changes no server and keeps its handler among the labels of a
\* query, or takes it there, preserves everything.
LEMMA AsideOK ==
    ASSUME IInv, TypeOK', NEW h \in Handler,
           UNCHANGED <<mcpConfig, loaded, client, listed, open>>,
           pc'[h] \in QueryLabels, pc[h] \notin Closing,
           \A k \in Handler \ {h} : /\ pc'[k] = pc[k]
                                    /\ pending'[k] = pending[k]
                                    /\ target'[k] = target[k]
    PROVE  IInv'
<1>1. Apart'
  BY DEF IInv, Apart
<1>2. Fresh' /\ NoOrphanClient'
  BY DEF IInv, Fresh, NoOrphanClient
<1>3. \A k \in Initializer : CloseInv(k)' /\ StartInv(k)'
  <2> SUFFICES ASSUME NEW k \in Initializer PROVE CloseInv(k)' /\ StartInv(k)'
    OBVIOUS
  <2>1. k \in Handler
    BY McpAssumption
  <2>2. CASE k = h
    BY <2>2 DEF CloseInv, StartInv, QueryLabels, Closing, Working
  <2>3. CASE k # h
    BY <2>1, <2>3 DEF IInv, CloseInv, StartInv
  <2> QED
    BY <2>2, <2>3
<1>4. Listed'
  <2>1. SUFFICES ASSUME \A k \in Initializer : pc'[k] \notin Closing
                 PROVE  \A k \in Initializer : pc[k] \notin Closing
    BY DEF IInv, Listed
  <2> QED
    BY <2>1, McpAssumption
<1> QED
  BY <1>1, <1>2, <1>3, <1>4 DEF IInv

-----------------------------------------------------------------------------
(* Queries, and the ends of an initialization.                             *)

LEMMA ArriveQueryOK ==
    ASSUME IInv, NEW h \in Handler, ArriveQuery(h)
    PROVE  IInv'
<1>1. TypeOK'
  BY DEF IInv, ArriveQuery, TypeOK, serverVars, Goto, Labels, Replies
<1> QED
  BY <1>1, AsideOK DEF IInv, TypeOK, ArriveQuery, serverVars, Goto, QueryLabels, Closing

LEMMA QueryOK ==
    ASSUME IInv, NEW h \in Handler, processQueryWithMCP(h)
    PROVE  IInv'
<1> USE DEF serverVars
<1>1. CASE \E answer \in Replies :
              /\ Answer(h, answer)
              /\ pc[h] \in QueryLabels
              /\ UNCHANGED serverVars
  <2>1. PICK answer \in Replies : Answer(h, answer)
    BY <1>1
  <2>2. TypeOK'
    BY <1>1, <2>1, AnswerTyped DEF IInv, TypeOK
  <2> QED
    BY <1>1, <2>1, <2>2, AnswerTyped, AsideOK DEF IInv, QueryLabels, Closing
<1>2. ASSUME NEW label \in QueryLabels, Goto(h, label) \/ UNCHANGED pc, TypeOK',
             pc[h] \in QueryLabels,
             UNCHANGED <<serverVars, pending>>,
             \A k \in Handler \ {h} : target'[k] = target[k]
      PROVE  IInv'
  BY <1>2, AsideOK DEF IInv, TypeOK, Goto, QueryLabels, Closing
<1>3. CASE ReadTools(h)
  <2>1. TypeOK'
    BY <1>3 DEF ReadTools, IInv, TypeOK, Goto, Labels
  <2> QED
    BY <1>2, <1>3, <2>1 DEF ReadTools, QueryLabels
<1>4. CASE AskForTools(h)
  <2>1. TypeOK'
    <3>1. round' \in [Handler -> 0..DEFAULT_MAX_LLM_ITERATIONS]
      BY <1>4 DEF AskForTools, IInv, TypeOK, DEFAULT_MAX_LLM_ITERATIONS
    <3> QED
      BY <1>4, <3>1 DEF AskForTools, IInv, TypeOK, Goto, Labels
  <2> QED
    BY <1>2, <1>4, <2>1 DEF AskForTools, QueryLabels
<1>5. CASE CallTool(h)
  <2>1. TypeOK'
    BY <1>5 DEF CallTool, IInv, TypeOK, Goto, Labels
  <2> QED
    BY <1>2, <1>5, <2>1 DEF CallTool, QueryLabels, IInv, TypeOK
<1>6. CASE NextRound(h)
  <2>1. TypeOK'
    BY <1>6 DEF NextRound, IInv, TypeOK, Goto, Labels
  <2> QED
    BY <1>2, <1>6, <2>1 DEF NextRound, QueryLabels
<1>7. ASSUME NEW t \in Tool, FindTool(h, t) PROVE IInv'
  <2>1. PICK r \in mcpConfig \cap listed : target' = [target EXCEPT ![h] = r]
    BY <1>7 DEF FindTool
  <2>2. TypeOK'
    BY <1>7, <2>1 DEF FindTool, IInv, TypeOK, Goto, Labels
  <2> QED
    BY <1>2, <1>7, <2>1, <2>2 DEF FindTool, QueryLabels, IInv, TypeOK
<1>8. ASSUME NEW t \in Tool, ToolNotFound(h, t) PROVE IInv'
  <2>1. TypeOK'
    BY <1>8 DEF ToolNotFound, IInv, TypeOK
  <2> QED
    BY <1>2, <1>8, <2>1 DEF ToolNotFound, QueryLabels
<1>9. CASE RefuseQuery(h) \/ StopAsking(h) \/ AskFails(h) \/ GiveUp(h) \/ CallNoClient(h)
  BY <1>1, <1>9
     DEF RefuseQuery, StopAsking, AskFails, GiveUp, CallNoClient, Replies, QueryLabels
<1> QED
  BY <1>3, <1>4, <1>5, <1>6, <1>7, <1>8, <1>9 DEF processQueryWithMCP

\* An initialization that ends leaves the servers as they are.
LEMMA EndOK ==
    ASSUME IInv, NEW h \in Handler,
           LoadFails(h) \/ StartClientFails(h) \/ ServerFails(h) \/ FinishInit(h)
    PROVE  IInv'
<1>1. PICK answer \in Replies : Answer(h, answer)
  BY DEF LoadFails, StartClientFails, ServerFails, FinishInit, Replies
<1>2. /\ UNCHANGED <<mcpConfig, loaded, client, listed, open>>
      /\ pc[h] \notin Closing
  BY DEF LoadFails, StartClientFails, ServerFails, FinishInit, serverVars, Closing
<1>3. llm' \in BOOLEAN
  BY DEF LoadFails, StartClientFails, ServerFails, FinishInit, serverVars, IInv, TypeOK
<1>4. TypeOK'
  BY <1>1, <1>2, <1>3, AnswerTyped DEF IInv, TypeOK
<1> QED
  BY <1>1, <1>2, <1>4, AnswerTyped, AsideOK DEF IInv, QueryLabels

-----------------------------------------------------------------------------
(* The steps of the one initialization.                                    *)

\* With one initializer, what has to be shown of it is shown of every one.
LEMMA OnlyOneOK ==
    ASSUME IInv, OneInitializer, NEW h \in Initializer, NEW label \in Labels,
           pc' = [pc EXCEPT ![h] = label],
           TypeOK', Fresh', CloseInv(h)', StartInv(h)', NoOrphanClient',
           label \notin Closing => \A r \in mcpConfig' \cap listed' : client'[r] \in open'
    PROVE  IInv'
<1>1. Apart'
  BY DEF IInv, TypeOK, Apart
<1>2. pc'[h] = label
  BY McpAssumption DEF IInv, TypeOK
<1>3. \A k \in Initializer : CloseInv(k)' /\ StartInv(k)'
  BY DEF OneInitializer
<1>4. Listed'
  BY <1>2 DEF Listed
<1> QED
  BY <1>1, <1>3, <1>4 DEF IInv

\* POST /mcp/init finds every connected client in the map it will close.
LEMMA ArriveInitOK ==
    ASSUME IInv, OneInitializer, NEW h \in Handler, ArriveInit(h)
    PROVE  IInv'
<1>1. /\ h \in Initializer
      /\ pc[h] = "idle"
      /\ pc' = [pc EXCEPT ![h] = "deinit"]
      /\ pending' = [pending EXCEPT ![h] = mcpConfig]
      /\ UNCHANGED <<mcpConfig, loaded, client, listed, open>>
  BY DEF ArriveInit, Goto, serverVars
<1>2. WillLoad = {}
  BY <1>1 DEF WillLoad, OneInitializer
<1>3. loaded < LoadBound
  <2>1. Cardinality(WillLoad) = 0
    BY <1>2, FS_EmptySet
  <2> QED
    BY <2>1, McpAssumption DEF ArriveInit, IInv, TypeOK
<1>4. TypeOK'
  BY <1>1 DEF ArriveInit, IInv, TypeOK, serverVars, Labels, Replies
<1>5. Fresh' /\ NoOrphanClient'
  BY <1>1 DEF IInv, Fresh, NoOrphanClient
<1>6. CloseInv(h)' /\ StartInv(h)'
  BY <1>1, <1>3 DEF IInv, TypeOK, NoOrphanClient, CloseInv, StartInv, Closing, Working
<1> QED
  BY <1>1, <1>4, <1>5, <1>6, OnlyOneOK DEF Labels, Closing

\* A server without client leaves the loop with nothing to close; the other
\* one is the loop's own from now on.
LEMMA FindOK ==
    ASSUME IInv, OneInitializer, NEW h \in Initializer, NEW r \in Record, FindClient(h, r)
    PROVE  IInv'
<1>1. /\ h \in Handler
      /\ pc[h] = "deinit"
      /\ r \in pending[h]
      /\ pending' = [pending EXCEPT ![h] = @ \ {r}]
      /\ UNCHANGED <<mcpConfig, loaded, client, listed, open>>
  BY McpAssumption DEF FindClient, serverVars
<1>2. CloseInv(h)
  BY DEF IInv
<1>3. /\ pending'[h] = pending[h] \ {r} /\ pending[h] \subseteq mcpConfig
      /\ loaded < LoadBound
      /\ \A c \in open : \E s \in pending[h] : client[s] = c
  BY <1>1, <1>2 DEF IInv, TypeOK, CloseInv, Closing
<1>4. Fresh' /\ NoOrphanClient'
  BY <1>1 DEF IInv, Fresh, NoOrphanClient
<1>5. CASE client[r] = Nil /\ UNCHANGED <<pc, target>>
  <2>1. pc' = [pc EXCEPT ![h] = "deinit"]
    BY <1>1, <1>5 DEF IInv, TypeOK
  <2>2. TypeOK'
    BY <1>1, <1>5 DEF FindClient, IInv, TypeOK, serverVars
  <2>3. \A c \in open : c # Nil
    BY McpAssumption DEF IInv, TypeOK
  <2>4. CloseInv(h)' /\ StartInv(h)'
    BY <1>1, <1>3, <1>5, <2>3 DEF CloseInv, StartInv, Closing, Working
  <2> QED
    BY <1>4, <2>1, <2>2, <2>4, OnlyOneOK DEF Labels, Closing
<1>6. CASE /\ client[r] # Nil
           /\ target' = [target EXCEPT ![h] = r]
           /\ Goto(h, "close")
  <2>1. pc' = [pc EXCEPT ![h] = "close"] /\ pc'[h] = "close" /\ target'[h] = r
    BY <1>1, <1>6 DEF Goto, IInv, TypeOK
  <2>2. TypeOK'
    BY <1>1, <1>6, <2>1 DEF FindClient, IInv, TypeOK, Labels, serverVars
  <2>3. CloseInv(h)' /\ StartInv(h)'
    BY <1>1, <1>3, <1>6, <2>1 DEF CloseInv, StartInv, Closing, Working
  <2> QED
    BY <1>4, <2>1, <2>2, <2>3, OnlyOneOK DEF Labels, Closing
<1> QED
  BY <1>5, <1>6 DEF FindClient

\* Closing a client takes it from what is open: what is left is to be closed.
LEMMA CloseOK ==
    ASSUME IInv, OneInitializer, NEW h \in Initializer, CloseClient(h)
    PROVE  IInv'
<1>1. /\ h \in Handler
      /\ pc[h] = "close"
      /\ open' = open \ {client[target[h]]}
      /\ pc' = [pc EXCEPT ![h] = "unset"]
      /\ UNCHANGED <<mcpConfig, loaded, client, listed, pending, target>>
  BY McpAssumption DEF CloseClient, Goto
<1>2. CloseInv(h) /\ pc'[h] = "unset"
  BY <1>1 DEF IInv, TypeOK
<1>3. TypeOK'
  BY <1>1 DEF CloseClient, IInv, TypeOK, Labels
<1>4. Fresh' /\ NoOrphanClient'
  BY <1>1 DEF IInv, Fresh, NoOrphanClient
<1>5. CloseInv(h)' /\ StartInv(h)'
  BY <1>1, <1>2 DEF CloseInv, StartInv, Closing, Working
<1> QED
  BY <1>1, <1>3, <1>4, <1>5, OnlyOneOK DEF Labels, Closing

\* The client found is there to be closed: nobody else sets it to nil.
LEMMA NeverNoClient ==
    ASSUME IInv, NEW h \in Initializer, CloseNoClient(h)
    PROVE  FALSE
BY DEF IInv, CloseInv, CloseNoClient

\* A client that is forgotten has been closed.
LEMMA UnsetOK ==
    ASSUME IInv, OneInitializer, NEW h \in Initializer, UnsetClient(h)
    PROVE  IInv'
<1>1. /\ h \in Handler
      /\ pc[h] = "unset"
      /\ client' = [client EXCEPT ![target[h]] = Nil]
      /\ pc' = [pc EXCEPT ![h] = "deinit"]
      /\ UNCHANGED <<mcpConfig, loaded, listed, open, pending>>
  BY McpAssumption DEF UnsetClient, Goto
<1>2. /\ CloseInv(h)
      /\ target[h] \in Record
      /\ client[target[h]] \notin open
  BY <1>1 DEF IInv, CloseInv
<1>3. \A r \in Record : client[r] \in open => client'[r] = client[r]
  BY <1>1, <1>2 DEF IInv, TypeOK
<1>4. TypeOK'
  BY <1>1, <1>2 DEF UnsetClient, IInv, TypeOK, Labels
<1>5. Fresh' /\ NoOrphanClient'
  BY <1>1, <1>3 DEF IInv, TypeOK, Fresh, NoOrphanClient
<1>6. CloseInv(h)' /\ StartInv(h)'
  <2>1. \A c \in open : \E r \in pending[h] : client'[r] = c
    BY <1>1, <1>2, <1>3 DEF IInv, TypeOK, CloseInv, Closing
  <2>2. pc'[h] = "deinit"
    BY <1>1 DEF IInv, TypeOK
  <2> QED
    BY <1>1, <1>2, <2>1, <2>2 DEF CloseInv, StartInv, Closing, Working
<1> QED
  BY <1>1, <1>4, <1>5, <1>6, OnlyOneOK DEF Labels, Closing

\* When nothing is left to close nothing is connected: the map can go.
LEMMA ClearOK ==
    ASSUME IInv, OneInitializer, NEW h \in Initializer, ClearServers(h)
    PROVE  IInv'
<1>1. /\ h \in Handler
      /\ pc[h] = "deinit"
      /\ pending[h] = {}
      /\ mcpConfig' = {}
      /\ pc' = [pc EXCEPT ![h] = "load"]
      /\ UNCHANGED <<loaded, client, listed, open>>
  BY McpAssumption DEF ClearServers, Goto
<1>2. open = {} /\ loaded < LoadBound
  BY <1>1 DEF IInv, CloseInv, Closing
<1>3. TypeOK'
  BY <1>1 DEF ClearServers, IInv, TypeOK, Labels
<1>4. Fresh' /\ NoOrphanClient'
  BY <1>1, <1>2 DEF IInv, Fresh, NoOrphanClient
<1>5. CloseInv(h)' /\ StartInv(h)'
  <2>1. pc'[h] = "load"
    BY <1>1 DEF IInv, TypeOK
  <2> QED
    BY <1>1, <1>2, <2>1 DEF CloseInv, StartInv, Closing, Working
<1> QED
  BY <1>1, <1>3, <1>4, <1>5, OnlyOneOK DEF Labels

\* The servers of a new configuration have no tools yet.
LEMMA LoadOK ==
    ASSUME IInv, OneInitializer, NEW h \in Initializer, LoadServers(h)
    PROVE  IInv'
<1>1. /\ h \in Handler
      /\ pc[h] = "load"
      /\ loaded' = loaded + 1
      /\ pc' = [pc EXCEPT ![h] = "llm"]
      /\ UNCHANGED <<client, listed, open, pending>>
  BY McpAssumption DEF LoadServers, Goto
<1>2. PICK names \in SUBSET Server : mcpConfig' = {loaded + 1} \X names
  BY DEF LoadServers
<1>3. open = {} /\ loaded < LoadBound /\ loaded \in Nat
  BY <1>1, McpAssumption DEF IInv, TypeOK, CloseInv
<1>4. loaded + 1 \in 1..LoadBound
  BY <1>3, McpAssumption
<1>5. TypeOK'
  <2>1. mcpConfig' \in SUBSET Record
    BY <1>2, <1>4 DEF Record
  <2>2. loaded' \in 0..LoadBound
    BY <1>1, <1>4, McpAssumption
  <2> QED
    BY <1>1, <2>1, <2>2 DEF LoadServers, IInv, TypeOK, Labels
<1>6. Fresh' /\ NoOrphanClient'
  <2>1. \A r \in mcpConfig' : r[1] = loaded + 1
    BY <1>2
  <2>2. \A r \in listed : r[1] \in Nat /\ r[1] <= loaded
    BY DEF IInv, TypeOK, Fresh, Record
  <2> QED
    BY <1>1, <1>3, <2>1, <2>2 DEF Fresh, NoOrphanClient
<1>7. CloseInv(h)' /\ StartInv(h)'
  <2>1. pc'[h] = "llm"
    BY <1>1 DEF IInv, TypeOK
  <2> QED
    BY <1>1, <1>3, <2>1 DEF CloseInv, StartInv, Closing, Working
<1>8. mcpConfig' \cap listed' = {}
  <2>1. \A r \in mcpConfig' : r[1] = loaded + 1
    BY <1>2
  <2>2. \A r \in listed : r[1] \in Nat /\ r[1] <= loaded
    BY DEF IInv, TypeOK, Fresh, Record
  <2> QED
    BY <1>1, <1>3, <2>1, <2>2
<1> QED
  BY <1>1, <1>5, <1>6, <1>7, <1>8, OnlyOneOK DEF Labels

\* The steps between the reload and the first client move nothing but control.
LEMMA WalkOK ==
    ASSUME IInv, OneInitializer, NEW h \in Initializer,
           \/ ConfigureLlm(h) \/ RangeServers(h) \/ Initialize(h)
           \/ \E r \in Record : SkipServer(h, r) \/ StartClient(h, r)
    PROVE  IInv'
<1>1. h \in Handler /\ CloseInv(h) /\ StartInv(h)
  BY McpAssumption DEF IInv
<1>2. \A r \in mcpConfig \cap listed : pc[h] \notin Closing => client[r] \in open
  BY DEF IInv, Listed, OneInitializer
<1>3. CASE ConfigureLlm(h)
  <2>1. /\ pc[h] = "llm" /\ pc' = [pc EXCEPT ![h] = "range"] /\ pc'[h] = "range"
        /\ UNCHANGED <<mcpConfig, loaded, client, listed, open>>
    BY <1>1, <1>3 DEF ConfigureLlm, Goto, IInv, TypeOK
  <2>2. TypeOK'
    <3>1. llm' \in BOOLEAN
      BY <1>3 DEF ConfigureLlm
    <3> QED
      BY <1>3, <2>1, <3>1 DEF ConfigureLlm, IInv, TypeOK, Labels
  <2>3. Fresh' /\ NoOrphanClient'
    BY <2>1 DEF IInv, Fresh, NoOrphanClient
  <2>4. CloseInv(h)' /\ StartInv(h)'
    BY <1>1, <2>1 DEF CloseInv, StartInv, Closing, Working
  <2> QED
    BY <1>2, <2>1, <2>2, <2>3, <2>4, OnlyOneOK DEF Labels, Closing
<1>4. CASE RangeServers(h)
  <2>1. /\ pc[h] = "range" /\ pc' = [pc EXCEPT ![h] = "init"] /\ pc'[h] = "init"
        /\ pending'[h] = mcpConfig
        /\ UNCHANGED <<mcpConfig, loaded, client, listed, open>>
    BY <1>1, <1>4 DEF RangeServers, Goto, IInv, TypeOK, serverVars
  <2>2. TypeOK'
    BY <1>4 DEF RangeServers, Goto, IInv, TypeOK, Labels, serverVars
  <2>3. Fresh' /\ NoOrphanClient'
    BY <2>1 DEF IInv, Fresh, NoOrphanClient
  <2>4. CloseInv(h)' /\ StartInv(h)'
    BY <2>1 DEF CloseInv, StartInv, Closing, Working
  <2> QED
    BY <1>2, <2>1, <2>2, <2>3, <2>4, OnlyOneOK DEF Labels, Closing
<1>5. CASE Initialize(h)
  <2>1. /\ pc[h] = "initialize" /\ pc' = [pc EXCEPT ![h] = "list"] /\ pc'[h] = "list"
        /\ UNCHANGED <<mcpConfig, loaded, client, listed, open, pending, target>>
    BY <1>1, <1>5 DEF Initialize, Goto, IInv, TypeOK, serverVars
  <2>2. TypeOK'
    BY <1>5 DEF Initialize, Goto, IInv, TypeOK, Labels, serverVars
  <2>3. Fresh' /\ NoOrphanClient'
    BY <2>1 DEF IInv, Fresh, NoOrphanClient
  <2>4. CloseInv(h)' /\ StartInv(h)'
    BY <1>1, <2>1 DEF CloseInv, StartInv, Closing, Working
  <2> QED
    BY <1>2, <2>1, <2>2, <2>3, <2>4, OnlyOneOK DEF Labels, Closing
<1>6. ASSUME NEW r \in Record, SkipServer(h, r) PROVE IInv'
  <2>1. /\ pc[h] = "init" /\ pc' = [pc EXCEPT ![h] = "init"] /\ pc'[h] = "init"
        /\ pending'[h] \subseteq pending[h]
        /\ UNCHANGED <<mcpConfig, loaded, client, listed, open>>
    BY <1>1, <1>6 DEF SkipServer, IInv, TypeOK, serverVars
  <2>2. TypeOK'
    BY <1>6 DEF SkipServer, IInv, TypeOK, serverVars
  <2>3. Fresh' /\ NoOrphanClient'
    BY <2>1 DEF IInv, Fresh, NoOrphanClient
  <2>4. CloseInv(h)' /\ StartInv(h)'
    BY <1>1, <2>1 DEF CloseInv, StartInv, Closing, Working
  <2> QED
    BY <1>2, <2>1, <2>2, <2>3, <2>4, OnlyOneOK DEF Labels, Closing
<1>7. ASSUME NEW r \in Record, StartClient(h, r) PROVE IInv'
  <2>1. /\ pc[h] = "init" /\ pc' = [pc EXCEPT ![h] = "start"] /\ pc'[h] = "start"
        /\ target'[h] = r /\ r \in pending[h] /\ client[r] = Nil
        /\ UNCHANGED <<mcpConfig, loaded, client, listed, open, pending>>
    BY <1>1, <1>7 DEF StartClient, Goto, IInv, TypeOK, serverVars
  <2>2. TypeOK'
    BY <1>7 DEF StartClient, Goto, IInv, TypeOK, Labels, serverVars
  <2>3. Fresh' /\ NoOrphanClient'
    BY <2>1 DEF IInv, Fresh, NoOrphanClient
  <2>4. CloseInv(h)' /\ StartInv(h)'
    BY <1>1, <2>1 DEF CloseInv, StartInv, Closing, Working
  <2> QED
    BY <1>2, <2>1, <2>2, <2>3, <2>4, OnlyOneOK DEF Labels, Closing
<1> QED
  BY <1>3, <1>4, <1>5, <1>6, <1>7

\* The record of a new client is in the map and had no client.
LEMMA SetOK ==
    ASSUME IInv, OneInitializer, NEW h \in Initializer, SetClient(h)
    PROVE  IInv'
<1> DEFINE new == <<h, target[h]>>
<1>1. /\ h \in Handler
      /\ pc[h] = "start"
      /\ open' = open \cup {new}
      /\ client' = [client EXCEPT ![target[h]] = new]
      /\ pc' = [pc EXCEPT ![h] = "initialize"]
      /\ UNCHANGED <<mcpConfig, loaded, listed, pending, target>>
  BY McpAssumption DEF SetClient, Goto
<1>2. /\ CloseInv(h) /\ StartInv(h)
      /\ target[h] \in mcpConfig
      /\ target[h] \in Record
      /\ client[target[h]] = Nil
  BY <1>1 DEF IInv, TypeOK, StartInv, Working
<1>3. new \in Client
  BY <1>1, <1>2 DEF Client
<1>4. /\ client'[target[h]] = new
      /\ \A r \in Record \ {target[h]} : client'[r] = client[r]
  BY <1>1, <1>2 DEF IInv, TypeOK
<1>5. TypeOK'
  BY <1>1, <1>2, <1>3 DEF SetClient, IInv, TypeOK, Labels
<1>6. Fresh'
  BY <1>1 DEF IInv, Fresh
<1>7. NoOrphanClient'
  <2>1. \A c \in open : c # Nil
    BY McpAssumption DEF IInv, TypeOK
  <2>2. \A c \in open : \E r \in mcpConfig : client'[r] = c
    BY <1>2, <1>4, <2>1 DEF IInv, TypeOK, NoOrphanClient
  <2> QED
    BY <1>1, <1>2, <1>4, <2>2 DEF NoOrphanClient
<1>8. CloseInv(h)' /\ StartInv(h)'
  <2>1. pc'[h] = "initialize"
    BY <1>1 DEF IInv, TypeOK
  <2> QED
    BY <1>1, <1>2, <2>1 DEF CloseInv, StartInv, Closing, Working
<1>9. \A r \in mcpConfig' \cap listed' : client'[r] \in open'
  <2>1. \A r \in mcpConfig \cap listed : client[r] \in open
    BY <1>1 DEF IInv, Listed, OneInitializer, Closing
  <2> QED
    BY <1>1, <1>4, <2>1 DEF IInv, TypeOK
<1> QED
  BY <1>1, <1>5, <1>6, <1>7, <1>8, <1>9, OnlyOneOK DEF Labels

\* A server whose tools are listed has just answered through its client.
LEMMA ListOK ==
    ASSUME IInv, OneInitializer, NEW h \in Initializer, ListTools(h)
    PROVE  IInv'
<1>1. /\ h \in Handler
      /\ pc[h] = "list"
      /\ client[target[h]] \in open
      /\ listed' = listed \cup {target[h]}
      /\ pending' = [pending EXCEPT ![h] = @ \ {target[h]}]
      /\ pc' = [pc EXCEPT ![h] = "init"]
      /\ UNCHANGED <<mcpConfig, loaded, client, open>>
  BY McpAssumption DEF ListTools, Goto, Connected
<1>2. CloseInv(h) /\ StartInv(h) /\ target[h] \in mcpConfig
  BY <1>1 DEF IInv, StartInv, Working
<1>3. TypeOK'
  BY <1>1, <1>2 DEF ListTools, IInv, TypeOK, Labels
<1>4. Fresh' /\ NoOrphanClient'
  BY <1>1, <1>2 DEF IInv, Fresh, NoOrphanClient
<1>5. CloseInv(h)' /\ StartInv(h)'
  <2>1. pc'[h] = "init" /\ pending'[h] \subseteq pending[h]
    BY <1>1 DEF IInv, TypeOK
  <2> QED
    BY <1>1, <1>2, <2>1 DEF CloseInv, StartInv, Closing, Working
<1>6. \A r \in mcpConfig \cap listed : client[r] \in open
  BY <1>1 DEF IInv, Listed, OneInitializer, Closing
<1> QED
  BY <1>1, <1>3, <1>4, <1>5, <1>6, OnlyOneOK DEF Labels

-----------------------------------------------------------------------------
(* The theorems.                                                           *)

LEMMA InitializerOK ==
    ASSUME IInv, OneInitializer, NEW h \in Handler, mcpInit(h)
    PROVE  IInv'
<1>1. CASE h \in Initializer
  BY <1>1, FindOK, CloseOK, NeverNoClient, UnsetOK, ClearOK, LoadOK, WalkOK, SetOK, ListOK, EndOK, ExitOK
     DEF mcpInit, StartClientFatal
<1>2. CASE h \notin Initializer
  <2>1. pc[h] \in QueryLabels
    BY <1>2 DEF IInv, Apart
  <2> QED
    BY <2>1
       DEF QueryLabels, mcpInit, FindClient, CloseClient, CloseNoClient, UnsetClient,
           ClearServers, LoadServers, ConfigureLlm, LoadFails, RangeServers, SkipServer, StartClient,
           StartClientFails, StartClientFatal, SetClient, Initialize, ListTools,
           ServerFails, FinishInit
<1> QED
  BY <1>1, <1>2

LEMMA NextOK == OneInitializer /\ IInv /\ [Next]_mcpVars => IInv'
<1> SUFFICES ASSUME OneInitializer, IInv, [Next]_mcpVars PROVE IInv'
  OBVIOUS
<1>1. CASE Kill
  BY <1>1, ExitOK DEF Kill
<1>2. ASSUME NEW h \in Handler, ArriveInit(h) PROVE IInv'
  BY <1>2, ArriveInitOK
<1>3. ASSUME NEW h \in Handler, ArriveQuery(h) PROVE IInv'
  BY <1>3, ArriveQueryOK
<1>4. ASSUME NEW h \in Handler, Step(h) PROVE IInv'
  BY <1>4, InitializerOK, QueryOK DEF Step
<1>5. CASE UNCHANGED mcpVars
  BY <1>5
     DEF mcpVars, serverVars, IInv, TypeOK, Apart, Fresh, CloseInv, StartInv,
         NoOrphanClient, Listed
<1> QED
  BY <1>1, <1>2, <1>3, <1>4, <1>5 DEF Next

LEMMA McpInvariant == ASSUME OneInitializer PROVE Spec => []IInv
<1>1. Init => IInv
  BY BlankOK DEF Init
<1>2. IInv /\ [Next]_mcpVars => IInv'
  BY NextOK
<1> QED
  BY <1>1, <1>2, PTL DEF Spec

\* With one initialization at a time no MCP client is ever leaked, however it
\* fails and whatever the queries do meanwhile.
THEOREM NoClientLeaked == ASSUME OneInitializer PROVE Spec => []NoOrphanClient
BY McpInvariant, PTL DEF IInv

\* With one initialization at a time the tools offered between initializations
\* can be called.
THEOREM OfferedToolsCallable == ASSUME OneInitializer PROVE Spec => []ToolsHaveClient
<1>1. IInv => ToolsHaveClient
  <2> SUFFICES ASSUME IInv, ~Initializing PROVE \A r \in mcpConfig \cap listed : client[r] \in open
    BY DEF ToolsHaveClient
  <2>1. \A h \in Initializer : pc[h] \notin Closing
    BY DEF Initializing, Closing
  <2> QED
    BY <2>1 DEF IInv, Listed
<1> QED
  BY <1>1, McpInvariant, PTL

=============================================================================
