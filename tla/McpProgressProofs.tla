--------------------------- MODULE McpProgressProofs ---------------------------
(***************************************************************************)
(* Theorems about McpServers that hold for any number of initializations   *)
(* at a time, when requests, servers and tools are finitely many: every    *)
(* variable keeps its type (LoadBound bounds the model and is kept by the  *)
(* initializations under way, each of which may still load once), and      *)
(* every request works its way to its answer, whatever the others do.      *)
(***************************************************************************)
EXTENDS McpServersProofs

BeforeLoad == {"deinit", "close", "unset", "load"}

\* Each initialization that has not loaded yet still may.
Budget == loaded + Cardinality(WillLoad) <= LoadBound

\* The server a loop works on is left in the loop until its tools are listed.
LoopInv(h) ==
    /\ pc[h] \in {"close", "unset", "calling"} \cup Working => target[h] \in Record
    /\ pc[h] \in Working => target[h] \in pending[h]

RaceInv == /\ TypeOK
           /\ Apart
           /\ Budget
           /\ \A h \in Handler : LoopInv(h)

-----------------------------------------------------------------------------
(* The budget of loads.                                                    *)

LEMMA WillLoadFinite ==
    ASSUME IsFiniteSet(Initializer)
    PROVE  IsFiniteSet(WillLoad) /\ Cardinality(WillLoad) \in Nat
<1>1. WillLoad \subseteq Initializer
  BY DEF WillLoad
<1>2. IsFiniteSet(WillLoad)
  BY <1>1, FS_Subset
<1> QED
  BY <1>2, FS_CardinalityType

LEMMA BudgetKept ==
    ASSUME IsFiniteSet(Initializer), TypeOK, Budget,
           loaded' = loaded, WillLoad' \subseteq WillLoad
    PROVE  Budget'
<1>1. /\ Cardinality(WillLoad) \in Nat
      /\ IsFiniteSet(WillLoad') /\ Cardinality(WillLoad') <= Cardinality(WillLoad)
  BY WillLoadFinite, FS_Subset
<1>2. Cardinality(WillLoad') \in Nat
  BY <1>1, FS_CardinalityType
<1> QED
  BY <1>1, <1>2, McpAssumption DEF Budget, TypeOK

\* A step of one handler that starts no initialization and loads nothing.
LEMMA MoveOK ==
    ASSUME IsFiniteSet(Initializer), RaceInv, TypeOK', NEW h \in Handler,
           loaded' = loaded,
           pc'[h] \in BeforeLoad => pc[h] \in BeforeLoad,
           pc'[h] \in QueryLabels \/ pc[h] \notin QueryLabels,
           LoopInv(h)',
           \A k \in Handler \ {h} : /\ pc'[k] = pc[k]
                                    /\ pending'[k] = pending[k]
                                    /\ target'[k] = target[k]
    PROVE  RaceInv'
<1>1. WillLoad' \subseteq WillLoad
  BY McpAssumption DEF WillLoad, BeforeLoad
<1>2. Budget'
  BY <1>1, BudgetKept DEF RaceInv
<1>3. Apart'
  BY DEF RaceInv, Apart
<1>4. \A k \in Handler : LoopInv(k)'
  BY DEF RaceInv, LoopInv
<1> QED
  BY <1>2, <1>3, <1>4 DEF RaceInv

LEMMA BlankRaceOK ==
    /\ Init => RaceInv
    /\ IsFiniteSet(Initializer) /\ ProcessExit => RaceInv'
<1>1. Init => RaceInv
  <2> SUFFICES ASSUME Init PROVE RaceInv
    OBVIOUS
  <2>1. TypeOK /\ Apart
    BY BlankOK DEF Init, IInv
  <2>2. \A h \in Handler : pc[h] = "idle"
    BY DEF Init
  <2>3. WillLoad = {}
    BY <2>2, McpAssumption DEF WillLoad
  <2>4. loaded + Cardinality(WillLoad) = 0
    BY <2>3, FS_EmptySet DEF Init
  <2> QED
    BY <2>1, <2>2, <2>4, McpAssumption DEF RaceInv, Budget, LoopInv, Working
<1>2. ASSUME ProcessExit PROVE RaceInv'
  <2>1. TypeOK' /\ Apart'
    BY <1>2, ExitOK DEF IInv
  <2>2. \A h \in Handler : pc'[h] = "idle"
    BY <1>2 DEF ProcessExit
  <2>3. WillLoad' = {}
    BY <2>2, McpAssumption DEF WillLoad
  <2>4. loaded' + Cardinality(WillLoad') = 0
    BY <1>2, <2>3, FS_EmptySet DEF ProcessExit
  <2> QED
    BY <2>1, <2>2, <2>4, McpAssumption DEF RaceInv, Budget, LoopInv, Working
<1> QED
  BY <1>1, <1>2

\* Whatever ends a request, its variables are as they were before it.
LEMMA RaceAnswerOK ==
    ASSUME IsFiniteSet(Initializer), RaceInv, NEW h \in Handler,
           NEW answer \in Replies, Answer(h, answer),
           UNCHANGED <<mcpConfig, loaded, client, listed, open>>, llm' \in BOOLEAN
    PROVE  RaceInv'
<1>1. TypeOK'
  BY AnswerTyped DEF RaceInv, TypeOK
<1>2. LoopInv(h)'
  BY AnswerTyped DEF RaceInv, LoopInv, Working
<1> QED
  BY <1>1, <1>2, AnswerTyped, MoveOK DEF RaceInv, BeforeLoad, QueryLabels

-----------------------------------------------------------------------------
(* The steps.                                                              *)

LEMMA RaceArriveOK ==
    ASSUME IsFiniteSet(Initializer), RaceInv, NEW h \in Handler,
           ArriveInit(h) \/ ArriveQuery(h)
    PROVE  RaceInv'
<1>1. TypeOK'
  BY DEF ArriveInit, ArriveQuery, RaceInv, TypeOK, serverVars, Goto, Labels, Replies
<1>2. CASE ArriveInit(h)
  <2>1. /\ h \in Initializer /\ pc[h] = "idle"
        /\ pc'[h] = "deinit" /\ \A k \in Handler \ {h} : pc'[k] = pc[k]
        /\ loaded' = loaded
        /\ loaded + Cardinality(WillLoad) < LoadBound
        /\ UNCHANGED target
        /\ \A k \in Handler \ {h} : pending'[k] = pending[k]
    BY <1>2 DEF ArriveInit, Goto, serverVars, RaceInv, TypeOK
  <2>2. WillLoad' = WillLoad \cup {h} /\ h \notin WillLoad
    BY <2>1, McpAssumption DEF WillLoad
  <2>3. Cardinality(WillLoad') = Cardinality(WillLoad) + 1
    BY <2>2, WillLoadFinite, FS_AddElement
  <2>4. Budget'
    BY <2>1, <2>3, WillLoadFinite, McpAssumption DEF Budget, RaceInv, TypeOK
  <2>5. Apart'
    BY <2>1 DEF RaceInv, Apart
  <2>6. \A k \in Handler : LoopInv(k)'
    BY <2>1 DEF RaceInv, LoopInv, Working
  <2> QED
    BY <1>1, <2>4, <2>5, <2>6 DEF RaceInv
<1>3. CASE ArriveQuery(h)
  <2>1. /\ pc'[h] = "query" /\ \A k \in Handler \ {h} : pc'[k] = pc[k]
        /\ UNCHANGED <<loaded, pending, target>>
    BY <1>3 DEF ArriveQuery, Goto, serverVars, RaceInv, TypeOK
  <2>2. LoopInv(h)'
    BY <2>1 DEF LoopInv, Working
  <2> QED
    BY <1>1, <2>1, <2>2, MoveOK DEF RaceInv, BeforeLoad, QueryLabels
<1> QED
  BY <1>2, <1>3

\* A load spends what the initialization had reserved.
LEMMA RaceLoadOK ==
    ASSUME IsFiniteSet(Initializer), RaceInv, NEW h \in Handler, LoadServers(h)
    PROVE  RaceInv'
<1>1. /\ pc[h] = "load"
      /\ pc'[h] = "llm" /\ \A k \in Handler \ {h} : pc'[k] = pc[k]
      /\ loaded' = loaded + 1
      /\ UNCHANGED <<pending, target>>
  BY DEF LoadServers, Goto, RaceInv, TypeOK
<1>2. h \in Initializer
  BY <1>1 DEF RaceInv, Apart, QueryLabels
<1>3. h \in WillLoad /\ WillLoad' = WillLoad \ {h}
  BY <1>1, <1>2, McpAssumption DEF WillLoad
<1>4. /\ Cardinality(WillLoad') = Cardinality(WillLoad) - 1
      /\ Cardinality(WillLoad) \in Nat /\ Cardinality(WillLoad') \in Nat
  BY <1>3, WillLoadFinite, FS_RemoveElement, FS_CardinalityType
<1>5. Budget' /\ loaded + 1 \in 1..LoadBound
  BY <1>1, <1>4, McpAssumption DEF Budget, RaceInv, TypeOK
<1>6. TypeOK'
  <2>1. PICK names \in SUBSET Server : mcpConfig' = {loaded + 1} \X names
    BY DEF LoadServers
  <2>2. mcpConfig' \in SUBSET Record
    BY <1>5, <2>1 DEF Record
  <2>3. loaded' \in 0..LoadBound
    BY <1>1, <1>5, McpAssumption
  <2> QED
    BY <2>2, <2>3 DEF LoadServers, Goto, RaceInv, TypeOK, Labels
<1>7. Apart'
  BY <1>1, <1>2 DEF RaceInv, Apart
<1>8. \A k \in Handler : LoopInv(k)'
  BY <1>1 DEF RaceInv, LoopInv, Working
<1> QED
  BY <1>5, <1>6, <1>7, <1>8 DEF RaceInv

LEMMA RaceInitOK ==
    ASSUME IsFiniteSet(Initializer), RaceInv, NEW h \in Handler, mcpInit(h)
    PROVE  RaceInv'
<1> USE DEF serverVars
<1>1. ASSUME NEW label \in Labels, Goto(h, label), TypeOK', loaded' = loaded,
             label \in BeforeLoad => pc[h] \in BeforeLoad,
             pc[h] \notin QueryLabels, LoopInv(h)',
             \A k \in Handler \ {h} : pending'[k] = pending[k] /\ target'[k] = target[k]
      PROVE  RaceInv'
  BY <1>1, MoveOK DEF RaceInv, TypeOK, Goto
<1>2. ASSUME NEW r \in Record, FindClient(h, r) PROVE RaceInv'
  <2>1. TypeOK'
    BY <1>2 DEF FindClient, RaceInv, TypeOK, Goto, Labels
  <2>2. /\ pc[h] = "deinit" /\ loaded' = loaded
        /\ \A k \in Handler \ {h} : pending'[k] = pending[k] /\ target'[k] = target[k]
    BY <1>2 DEF FindClient, RaceInv, TypeOK
  <2>3. CASE client[r] = Nil
    <3>1. Goto(h, "deinit")
      BY <1>2, <2>3 DEF FindClient, Goto, RaceInv, TypeOK
    <3>2. LoopInv(h)'
      BY <2>2, <3>1 DEF Goto, RaceInv, TypeOK, LoopInv, Working
    <3> QED
      BY <1>1, <2>1, <2>2, <3>1, <3>2 DEF Labels, BeforeLoad, QueryLabels
  <2>4. CASE client[r] # Nil
    <3>1. Goto(h, "close") /\ target'[h] = r
      BY <1>2, <2>4 DEF FindClient, RaceInv, TypeOK
    <3>2. LoopInv(h)'
      BY <3>1 DEF Goto, RaceInv, TypeOK, LoopInv, Working
    <3> QED
      BY <1>1, <2>1, <2>2, <3>1, <3>2 DEF Labels, BeforeLoad, QueryLabels
  <2> QED
    BY <2>3, <2>4
<1>3. ASSUME NEW r \in Record, SkipServer(h, r) PROVE RaceInv'
  <2>1. TypeOK' /\ Goto(h, "init")
    BY <1>3 DEF SkipServer, RaceInv, TypeOK, Goto
  <2>2. LoopInv(h)'
    BY <1>3 DEF SkipServer, LoopInv, Working
  <2> QED
    BY <1>1, <1>3, <2>1, <2>2
       DEF SkipServer, RaceInv, TypeOK, Labels, BeforeLoad, QueryLabels
<1>4. ASSUME NEW r \in Record, StartClient(h, r) PROVE RaceInv'
  <2>1. TypeOK'
    BY <1>4 DEF StartClient, RaceInv, TypeOK, Goto, Labels
  <2>2. LoopInv(h)'
    BY <1>4 DEF StartClient, Goto, RaceInv, TypeOK, LoopInv, Working
  <2> QED
    BY <1>1, <1>4, <2>1, <2>2
       DEF StartClient, RaceInv, TypeOK, Labels, BeforeLoad, QueryLabels
<1>5. CASE UnsetClient(h)
  <2>1. TypeOK'
    BY <1>5 DEF UnsetClient, RaceInv, TypeOK, Goto, Labels
  <2>2. LoopInv(h)'
    BY <1>5 DEF UnsetClient, Goto, RaceInv, TypeOK, LoopInv, Working
  <2> QED
    BY <1>1, <1>5, <2>1, <2>2
       DEF UnsetClient, RaceInv, TypeOK, Labels, BeforeLoad, QueryLabels
<1>6. CASE ClearServers(h)
  <2>1. TypeOK'
    BY <1>6 DEF ClearServers, RaceInv, TypeOK, Goto, Labels
  <2>2. LoopInv(h)'
    BY <1>6 DEF ClearServers, Goto, RaceInv, TypeOK, LoopInv, Working
  <2> QED
    BY <1>1, <1>6, <2>1, <2>2 DEF ClearServers, Labels, BeforeLoad, QueryLabels
<1>7. CASE ConfigureLlm(h)
  <2>1. llm' \in BOOLEAN
    BY <1>7 DEF ConfigureLlm
  <2>2. TypeOK'
    BY <1>7, <2>1 DEF ConfigureLlm, RaceInv, TypeOK, Goto, Labels
  <2>3. LoopInv(h)'
    BY <1>7 DEF ConfigureLlm, Goto, RaceInv, TypeOK, LoopInv, Working
  <2> QED
    BY <1>1, <1>7, <2>2, <2>3 DEF ConfigureLlm, Labels, BeforeLoad, QueryLabels
<1>8. CASE RangeServers(h)
  <2>1. TypeOK'
    BY <1>8 DEF RangeServers, RaceInv, TypeOK, Goto, Labels
  <2>2. LoopInv(h)'
    BY <1>8 DEF RangeServers, Goto, RaceInv, TypeOK, LoopInv, Working
  <2> QED
    BY <1>1, <1>8, <2>1, <2>2
       DEF RangeServers, RaceInv, TypeOK, Labels, BeforeLoad, QueryLabels
<1>9. CASE SetClient(h)
  <2>1. <<h, target[h]>> \in Client
    BY <1>9 DEF SetClient, RaceInv, LoopInv, Working, Client
  <2>2. TypeOK'
    BY <1>9, <2>1 DEF SetClient, RaceInv, TypeOK, Goto, Labels
  <2>3. LoopInv(h)'
    BY <1>9 DEF SetClient, Goto, RaceInv, TypeOK, LoopInv, Working
  <2> QED
    BY <1>1, <1>9, <2>2, <2>3 DEF SetClient, Labels, BeforeLoad, QueryLabels
<1>10. CASE Initialize(h)
  <2>1. TypeOK'
    BY <1>10 DEF Initialize, RaceInv, TypeOK, Goto, Labels
  <2>2. LoopInv(h)'
    BY <1>10 DEF Initialize, Goto, RaceInv, TypeOK, LoopInv, Working
  <2> QED
    BY <1>1, <1>10, <2>1, <2>2 DEF Initialize, Labels, BeforeLoad, QueryLabels
<1>11. CASE ListTools(h)
  <2>1. target[h] \in Record
    BY <1>11 DEF ListTools, RaceInv, LoopInv, Working
  <2>2. TypeOK'
    BY <1>11, <2>1 DEF ListTools, RaceInv, TypeOK, Goto, Labels
  <2>3. LoopInv(h)'
    BY <1>11 DEF ListTools, Goto, RaceInv, TypeOK, LoopInv, Working
  <2> QED
    BY <1>1, <1>11, <2>2, <2>3
       DEF ListTools, RaceInv, TypeOK, Labels, BeforeLoad, QueryLabels
<1>12. CASE \/ CloseNoClient(h) \/ LoadFails(h) \/ StartClientFails(h) \/ ServerFails(h)
            \/ FinishInit(h)
  <2>1. PICK answer \in Replies : Answer(h, answer)
    BY <1>12 DEF CloseNoClient, LoadFails, StartClientFails, ServerFails, FinishInit, Replies
  <2>2. UNCHANGED <<mcpConfig, loaded, client, listed, open>> /\ llm' \in BOOLEAN
    BY <1>12 DEF CloseNoClient, LoadFails, StartClientFails, ServerFails, FinishInit,
                 RaceInv, TypeOK
  <2> QED
    BY <2>1, <2>2, RaceAnswerOK
<1>13. CASE CloseClient(h)
  <2>1. TypeOK'
    BY <1>13 DEF CloseClient, RaceInv, TypeOK, Goto, Labels
  <2>2. LoopInv(h)'
    BY <1>13 DEF CloseClient, Goto, RaceInv, TypeOK, LoopInv, Working
  <2> QED
    BY <1>1, <1>13, <2>1, <2>2 DEF CloseClient, Labels, BeforeLoad, QueryLabels
<1> QED
  BY <1>2, <1>3, <1>4, <1>5, <1>6, <1>7, <1>8, <1>9, <1>10, <1>11, <1>12, <1>13,
     RaceLoadOK, BlankRaceOK DEF mcpInit, StartClientFatal

LEMMA RaceQueryOK ==
    ASSUME IsFiniteSet(Initializer), RaceInv, NEW h \in Handler, processQueryWithMCP(h)
    PROVE  RaceInv'
<1> USE DEF serverVars
<1>1. ASSUME NEW label \in QueryLabels, Goto(h, label), TypeOK',
             UNCHANGED <<loaded, pending>>, LoopInv(h)',
             \A k \in Handler \ {h} : target'[k] = target[k]
      PROVE  RaceInv'
  BY <1>1, MoveOK DEF RaceInv, TypeOK, Goto, QueryLabels, BeforeLoad
<1>2. CASE ReadTools(h) \/ NextRound(h)
  <2>1. TypeOK'
    BY <1>2 DEF ReadTools, NextRound, RaceInv, TypeOK, Goto, Labels
  <2>2. LoopInv(h)'
    BY <1>2 DEF ReadTools, NextRound, Goto, RaceInv, TypeOK, LoopInv, Working
  <2> QED
    BY <1>1, <1>2, <2>1, <2>2 DEF ReadTools, NextRound, QueryLabels
<1>3. CASE AskForTools(h)
  <2>1. round' \in [Handler -> 0..DEFAULT_MAX_LLM_ITERATIONS]
    BY <1>3 DEF AskForTools, RaceInv, TypeOK, DEFAULT_MAX_LLM_ITERATIONS
  <2>2. TypeOK'
    BY <1>3, <2>1 DEF AskForTools, RaceInv, TypeOK, Goto, Labels
  <2>3. LoopInv(h)'
    BY <1>3 DEF AskForTools, Goto, RaceInv, TypeOK, LoopInv, Working
  <2> QED
    BY <1>1, <1>3, <2>2, <2>3 DEF AskForTools, QueryLabels
<1>4. CASE CallTool(h)
  <2>1. TypeOK'
    BY <1>4 DEF CallTool, RaceInv, TypeOK, Goto, Labels
  <2>2. LoopInv(h)'
    BY <1>4 DEF CallTool, Goto, RaceInv, TypeOK, LoopInv, Working
  <2> QED
    BY <1>1, <1>4, <2>1, <2>2 DEF CallTool, QueryLabels, RaceInv, TypeOK
<1>5. ASSUME NEW t \in Tool, FindTool(h, t) PROVE RaceInv'
  <2>1. PICK r \in mcpConfig \cap listed : target' = [target EXCEPT ![h] = r]
    BY <1>5 DEF FindTool
  <2>2. TypeOK'
    BY <1>5, <2>1 DEF FindTool, RaceInv, TypeOK, Goto, Labels
  <2>3. LoopInv(h)'
    BY <1>5, <2>1 DEF FindTool, Goto, RaceInv, TypeOK, LoopInv, Working
  <2> QED
    BY <1>1, <1>5, <2>1, <2>2, <2>3 DEF FindTool, QueryLabels, RaceInv, TypeOK
<1>6. ASSUME NEW t \in Tool, ToolNotFound(h, t) PROVE RaceInv'
  <2>1. TypeOK' /\ Goto(h, "call")
    BY <1>6 DEF ToolNotFound, RaceInv, TypeOK, Goto
  <2>2. LoopInv(h)'
    BY <1>6 DEF ToolNotFound, LoopInv, Working
  <2> QED
    BY <1>1, <1>6, <2>1, <2>2 DEF ToolNotFound, QueryLabels
<1>7. CASE RefuseQuery(h) \/ StopAsking(h) \/ AskFails(h) \/ GiveUp(h) \/ CallNoClient(h)
  <2>1. /\ \E answer \in Replies : Answer(h, answer)
        /\ UNCHANGED serverVars
    BY <1>7 DEF RefuseQuery, StopAsking, AskFails, GiveUp, CallNoClient, Replies
  <2> QED
    BY <2>1, RaceAnswerOK DEF RaceInv, TypeOK
<1> QED
  BY <1>2, <1>3, <1>4, <1>5, <1>6, <1>7 DEF processQueryWithMCP

LEMMA RaceNextOK ==
    ASSUME IsFiniteSet(Initializer), RaceInv, [Next]_mcpVars
    PROVE  RaceInv'
<1>1. CASE UNCHANGED mcpVars
  BY <1>1 DEF mcpVars, serverVars, RaceInv, TypeOK, Apart, Budget, WillLoad, LoopInv
<1> QED
  BY <1>1, BlankRaceOK, RaceArriveOK, RaceInitOK, RaceQueryOK DEF Next, Kill, Step

LEMMA RaceInvariant == ASSUME IsFiniteSet(Initializer) PROVE Spec => []RaceInv
<1>1. Init => RaceInv
  BY BlankRaceOK
<1>2. RaceInv /\ [Next]_mcpVars => RaceInv'
  BY RaceNextOK
<1> QED
  BY <1>1, <1>2, PTL DEF Spec

\* Initializations and queries keep every variable in its type, however many
\* initializations run at a time: none loads a configuration it may not load,
\* and none works on a server without a record.
THEOREM McpTypeCorrect == ASSUME IsFiniteSet(Initializer) PROVE Spec => []TypeOK
BY RaceInvariant, PTL DEF RaceInv

-----------------------------------------------------------------------------
(* The work that a request has left.                                       *)

\* The slots for requests, the servers and the tools are finitely many.
FinitelyMany == IsFiniteSet(Initializer) /\ IsFiniteSet(Server) /\ IsFiniteSet(Tool)

\* What the LLM may still ask for.
RoundsLeft(h) == (DEFAULT_MAX_LLM_ITERATIONS - round[h]) * RoundWork

LEMMA SizesOK ==
    ASSUME FinitelyMany, RaceInv, NEW h \in Handler
    PROVE  /\ Cardinality(Record) \in Nat /\ Cardinality(Tool) \in Nat
           /\ IsFiniteSet(pending[h]) /\ Cardinality(pending[h]) \in Nat
           /\ IsFiniteSet(calls[h]) /\ Cardinality(calls[h]) \in Nat
           /\ Cardinality(calls[h]) <= Cardinality(Tool)
           /\ Cardinality(mcpConfig) \in Nat
           /\ Cardinality(mcpConfig) <= Cardinality(Record)
<1>1. IsFiniteSet(1..LoadBound)
  BY McpAssumption, FS_Interval
<1>2. IsFiniteSet(Record)
  BY <1>1, FS_Product DEF FinitelyMany, Record
<1>3. pending[h] \subseteq Record /\ calls[h] \subseteq Tool /\ mcpConfig \subseteq Record
  BY DEF RaceInv, TypeOK
<1>4. /\ IsFiniteSet(pending[h]) /\ IsFiniteSet(mcpConfig)
      /\ Cardinality(mcpConfig) <= Cardinality(Record)
  BY <1>2, <1>3, FS_Subset
<1>5. IsFiniteSet(calls[h]) /\ Cardinality(calls[h]) <= Cardinality(Tool)
  BY <1>3, FS_Subset DEF FinitelyMany
<1> QED
  BY <1>2, <1>4, <1>5, FS_CardinalityType DEF FinitelyMany

LEMMA RoundsLeftOK ==
    ASSUME FinitelyMany, RaceInv, NEW h \in Handler
    PROVE  RoundWork \in Nat /\ RoundsLeft(h) \in Nat
<1>1. RoundWork \in Nat
  BY SizesOK DEF RoundWork
<1>2. round[h] \in 0..3
  BY DEF RaceInv, TypeOK, DEFAULT_MAX_LLM_ITERATIONS
<1>3. CASE round[h] = 0
  BY <1>1, <1>3 DEF RoundsLeft, DEFAULT_MAX_LLM_ITERATIONS
<1>4. CASE round[h] = 1
  BY <1>1, <1>4 DEF RoundsLeft, DEFAULT_MAX_LLM_ITERATIONS
<1>5. CASE round[h] = 2
  BY <1>1, <1>5 DEF RoundsLeft, DEFAULT_MAX_LLM_ITERATIONS
<1>6. CASE round[h] = 3
  BY <1>1, <1>6 DEF RoundsLeft, DEFAULT_MAX_LLM_ITERATIONS
<1> QED
  BY <1>1, <1>2, <1>3, <1>4, <1>5, <1>6

\* One round less leaves the work of one round less.
LEMMA RoundSpent ==
    ASSUME FinitelyMany, RaceInv, NEW h \in Handler,
           round[h] < DEFAULT_MAX_LLM_ITERATIONS, round'[h] = round[h] + 1
    PROVE  RoundsLeft(h)' = RoundsLeft(h) - RoundWork
<1>1. RoundWork \in Nat
  BY SizesOK DEF RoundWork
<1>2. round[h] \in 0..2
  BY DEF RaceInv, TypeOK, DEFAULT_MAX_LLM_ITERATIONS
<1>3. CASE round[h] = 0
  BY <1>1, <1>3 DEF RoundsLeft, DEFAULT_MAX_LLM_ITERATIONS, RoundWork
<1>4. CASE round[h] = 1
  BY <1>1, <1>4 DEF RoundsLeft, DEFAULT_MAX_LLM_ITERATIONS, RoundWork
<1>5. CASE round[h] = 2
  BY <1>1, <1>5 DEF RoundsLeft, DEFAULT_MAX_LLM_ITERATIONS, RoundWork
<1> QED
  BY <1>2, <1>3, <1>4, <1>5

\* A request that is not answered has work left.
LEMMA WorkLeft ==
    ASSUME FinitelyMany, RaceInv, NEW h \in Handler, pc[h] # "idle"
    PROVE  Work(h) \in Nat /\ Work(h) > 0
<1> DEFINE servers == Cardinality(pending[h])
           answers == Cardinality(calls[h])
<1>1. servers \in Nat /\ answers \in Nat /\ Cardinality(Record) \in Nat
  BY SizesOK
<1>2. RoundsLeft(h) \in Nat
  BY RoundsLeftOK
<1>3. pc[h] \in Working => servers > 0
  <2>1. pc[h] \in Working => pending[h] # {}
    BY DEF RaceInv, LoopInv
  <2> QED
    BY <1>1, <2>1, SizesOK, FS_EmptySet
<1>4. pc[h] \in Labels
  BY DEF RaceInv, TypeOK
<1>5. CASE pc[h] \in {"query", "ask", "call", "calling"}
  <2>1. \/ Work(h) = RoundsLeft(h) + 1 \/ Work(h) = RoundsLeft(h) + 2
        \/ Work(h) = RoundsLeft(h) + 2 * answers + 2
        \/ Work(h) = RoundsLeft(h) + 2 * answers + 3
    BY <1>5 DEF Work, RoundsLeft
  <2> QED
    BY <1>1, <1>2, <2>1
<1>6. CASE pc[h] \in {"deinit", "close", "unset", "load", "llm", "range"}
  <2>1. \/ Work(h) = ReloadWork + 3 + 3 * servers \/ Work(h) = ReloadWork + 4 + 3 * servers
        \/ Work(h) = ReloadWork + 5 + 3 * servers
        \/ Work(h) = ReloadWork + 2 \/ Work(h) = ReloadWork + 1 \/ Work(h) = ReloadWork
    BY <1>6 DEF Work
  <2> QED
    BY <1>1, <2>1 DEF ReloadWork
<1>7. CASE pc[h] \in {"init", "start", "initialize", "list"}
  <2>1. \/ pc[h] = "init" /\ Work(h) = 4 * servers + 1
        \/ pc[h] = "start" /\ Work(h) = 4 * servers
        \/ pc[h] = "initialize" /\ Work(h) = 4 * servers - 1
        \/ pc[h] = "list" /\ Work(h) = 4 * servers - 2
    BY <1>7 DEF Work
  <2> QED
    BY <1>1, <1>3, <2>1 DEF Working
<1> QED
  BY <1>4, <1>5, <1>6, <1>7 DEF Labels

LEMMA EndWorks ==
    ASSUME FinitelyMany, RaceInv, NEW h \in Handler, pc[h] # "idle", pc'[h] = "idle"
    PROVE  WorksOn(h)
<1>1. Work(h)' = 0
  BY DEF Work
<1> QED
  BY <1>1, WorkLeft DEF WorksOn

\* A server that leaves the loop takes its part of the work with it.
LEMMA ServerDone ==
    ASSUME FinitelyMany, RaceInv, NEW h \in Handler, NEW r \in pending[h],
           pending'[h] = pending[h] \ {r}
    PROVE  /\ Cardinality(pending[h]) \in Nat
           /\ Cardinality(pending'[h]) = Cardinality(pending[h]) - 1
<1>1. IsFiniteSet(pending[h]) /\ Cardinality(pending[h]) \in Nat
  BY SizesOK
<1> QED
  BY <1>1, FS_RemoveElement

LEMMA CallDone ==
    ASSUME FinitelyMany, RaceInv, NEW h \in Handler, NEW t \in calls[h],
           calls'[h] = calls[h] \ {t}
    PROVE  /\ Cardinality(calls[h]) \in Nat
           /\ Cardinality(calls'[h]) = Cardinality(calls[h]) - 1
<1>1. IsFiniteSet(calls[h]) /\ Cardinality(calls[h]) \in Nat
  BY SizesOK
<1> QED
  BY <1>1, FS_RemoveElement

\* Each step of an initialization takes work off it.
LEMMA InitWorks ==
    ASSUME FinitelyMany, RaceInv, NEW h \in Handler, mcpInit(h), pc[h] # "idle"
    PROVE  WorksOn(h)
<1> USE DEF serverVars
<1> DEFINE servers == Cardinality(pending[h])
           left == Cardinality(pending'[h])
<1>1. /\ servers \in Nat /\ Cardinality(Record) \in Nat
      /\ Cardinality(mcpConfig) \in Nat /\ Cardinality(mcpConfig) <= Cardinality(Record)
  BY SizesOK
<1>2. ASSUME NEW r \in Record, FindClient(h, r) PROVE WorksOn(h)
  <2>1. /\ pc[h] = "deinit" /\ r \in pending[h]
        /\ pending'[h] = pending[h] \ {r}
        /\ pc'[h] \in {"deinit", "close"}
    BY <1>2 DEF FindClient, Goto, RaceInv, TypeOK
  <2>2. left = servers - 1
    BY <2>1, ServerDone
  <2> QED
    BY <1>1, <2>1, <2>2 DEF WorksOn, Work, ReloadWork
<1>3. ASSUME NEW r \in Record, SkipServer(h, r) PROVE WorksOn(h)
  <2>1. /\ pc[h] = "init" /\ pc'[h] = "init" /\ r \in pending[h]
        /\ pending'[h] = pending[h] \ {r}
    BY <1>3 DEF SkipServer, RaceInv, TypeOK
  <2>2. left = servers - 1
    BY <2>1, ServerDone
  <2> QED
    BY <1>1, <2>1, <2>2 DEF WorksOn, Work
<1>4. ASSUME NEW r \in Record, StartClient(h, r) PROVE WorksOn(h)
  <2>1. pc[h] = "init" /\ pc'[h] = "start" /\ pending' = pending
    BY <1>4 DEF StartClient, Goto, RaceInv, TypeOK
  <2> QED
    BY <1>1, <2>1 DEF WorksOn, Work
<1>5. CASE UnsetClient(h)
  <2>1. pc[h] = "unset" /\ pc'[h] = "deinit" /\ pending' = pending
    BY <1>5 DEF UnsetClient, Goto, RaceInv, TypeOK
  <2> QED
    BY <1>1, <2>1 DEF WorksOn, Work, ReloadWork
<1>6. CASE ClearServers(h)
  <2>1. pc[h] = "deinit" /\ pc'[h] = "load"
    BY <1>6 DEF ClearServers, Goto, RaceInv, TypeOK
  <2> QED
    BY <1>1, <2>1 DEF WorksOn, Work, ReloadWork
<1>7. CASE LoadServers(h)
  <2>1. pc[h] = "load" /\ pc'[h] = "llm"
    BY <1>7 DEF LoadServers, Goto, RaceInv, TypeOK
  <2> QED
    BY <1>1, <2>1 DEF WorksOn, Work, ReloadWork
<1>8. CASE ConfigureLlm(h)
  <2>1. pc[h] = "llm" /\ pc'[h] = "range"
    BY <1>8 DEF ConfigureLlm, Goto, RaceInv, TypeOK
  <2> QED
    BY <1>1, <2>1 DEF WorksOn, Work, ReloadWork
<1>9. CASE RangeServers(h)
  <2>1. pc[h] = "range" /\ pc'[h] = "init" /\ pending'[h] = mcpConfig
    BY <1>9 DEF RangeServers, Goto, RaceInv, TypeOK
  <2> QED
    BY <1>1, <2>1 DEF WorksOn, Work, ReloadWork
<1>10. CASE SetClient(h)
  <2>1. pc[h] = "start" /\ pc'[h] = "initialize" /\ pending' = pending
    BY <1>10 DEF SetClient, Goto, RaceInv, TypeOK
  <2> QED
    BY <1>1, <2>1 DEF WorksOn, Work
<1>11. CASE Initialize(h)
  <2>1. pc[h] = "initialize" /\ pc'[h] = "list" /\ pending' = pending
    BY <1>11 DEF Initialize, Goto, RaceInv, TypeOK
  <2> QED
    BY <1>1, <2>1 DEF WorksOn, Work
<1>12. CASE ListTools(h)
  <2>1. /\ pc[h] = "list" /\ pc'[h] = "init"
        /\ pending'[h] = pending[h] \ {target[h]}
    BY <1>12 DEF ListTools, Goto, RaceInv, TypeOK
  <2>2. target[h] \in pending[h]
    BY <2>1 DEF RaceInv, LoopInv, Working
  <2>3. left = servers - 1
    BY <2>1, <2>2, ServerDone
  <2> QED
    BY <1>1, <2>1, <2>3 DEF WorksOn, Work
<1>13. CASE CloseClient(h)
  <2>1. pc[h] = "close" /\ pc'[h] = "unset" /\ pending' = pending
    BY <1>13 DEF CloseClient, Goto, RaceInv, TypeOK
  <2> QED
    BY <1>1, <2>1 DEF WorksOn, Work, ReloadWork
<1>14. CASE \/ CloseNoClient(h) \/ LoadFails(h) \/ StartClientFails(h) \/ ServerFails(h)
            \/ FinishInit(h) \/ StartClientFatal(h)
  <2>1. pc'[h] = "idle"
    BY <1>14 DEF CloseNoClient, LoadFails, StartClientFails, ServerFails, FinishInit, StartClientFatal,
                 ProcessExit, Answer, Goto, RaceInv, TypeOK
  <2> QED
    BY <2>1, EndWorks
<1> QED
  BY <1>2, <1>3, <1>4, <1>5, <1>6, <1>7, <1>8, <1>9, <1>10, <1>11, <1>12, <1>13,
     <1>14 DEF mcpInit

\* Each step of a query takes work off it.
LEMMA QueryWorks ==
    ASSUME FinitelyMany, RaceInv, RaceInv', NEW h \in Handler,
           processQueryWithMCP(h), pc[h] # "idle"
    PROVE  WorksOn(h)
<1> USE DEF serverVars
<1>1. /\ Cardinality(Tool) \in Nat /\ Cardinality(calls[h]) \in Nat
      /\ RoundWork \in Nat /\ RoundsLeft(h) \in Nat
  BY SizesOK, RoundsLeftOK
<1>2. CASE ReadTools(h)
  <2>1. pc[h] = "query" /\ pc'[h] = "ask" /\ round' = round
    BY <1>2 DEF ReadTools, Goto, RaceInv, TypeOK
  <2>2. RoundsLeft(h)' = RoundsLeft(h)
    BY <2>1 DEF RoundsLeft, RoundWork
  <2>3. Work(h) = RoundsLeft(h) + 2 /\ Work(h)' = RoundsLeft(h)' + 1
    BY <2>1 DEF Work, RoundsLeft
  <2> QED
    BY <1>1, <2>2, <2>3 DEF WorksOn
<1>3. CASE AskForTools(h)
  <2>1. /\ pc[h] = "ask" /\ pc'[h] = "call"
        /\ round[h] < DEFAULT_MAX_LLM_ITERATIONS /\ round'[h] = round[h] + 1
    BY <1>3 DEF AskForTools, Goto, RaceInv, TypeOK
  <2>2. RoundsLeft(h)' = RoundsLeft(h) - RoundWork
    BY <2>1, RoundSpent
  <2>3. calls'[h] \in SUBSET Tool
    BY DEF RaceInv, TypeOK
  <2>4. Cardinality(calls'[h]) \in Nat /\ Cardinality(calls'[h]) <= Cardinality(Tool)
    BY <2>3, FS_Subset, FS_CardinalityType DEF FinitelyMany
  <2>5. /\ Work(h) = RoundsLeft(h) + 1
        /\ Work(h)' = RoundsLeft(h)' + 2 * Cardinality(calls'[h]) + 2
    BY <2>1 DEF Work, RoundsLeft
  <2> QED
    BY <1>1, <2>2, <2>4, <2>5 DEF WorksOn, RoundWork
<1>4. ASSUME NEW t \in Tool, FindTool(h, t) \/ ToolNotFound(h, t) PROVE WorksOn(h)
  <2>1. /\ pc[h] = "call" /\ pc'[h] \in {"call", "calling"} /\ round' = round
        /\ t \in calls[h] /\ calls'[h] = calls[h] \ {t}
    BY <1>4 DEF FindTool, ToolNotFound, Goto, RaceInv, TypeOK
  <2>2. Cardinality(calls'[h]) = Cardinality(calls[h]) - 1
    BY <2>1, CallDone
  <2>3. RoundsLeft(h)' = RoundsLeft(h)
    BY <2>1 DEF RoundsLeft, RoundWork
  <2>4. /\ Work(h) = RoundsLeft(h) + 2 * Cardinality(calls[h]) + 2
        /\ \/ Work(h)' = RoundsLeft(h)' + 2 * Cardinality(calls'[h]) + 2
           \/ Work(h)' = RoundsLeft(h)' + 2 * Cardinality(calls'[h]) + 3
    BY <2>1 DEF Work, RoundsLeft
  <2> QED
    BY <1>1, <2>2, <2>3, <2>4 DEF WorksOn
<1>5. CASE CallTool(h)
  <2>1. pc[h] = "calling" /\ pc'[h] = "call" /\ UNCHANGED <<calls, round>>
    BY <1>5 DEF CallTool, Goto, RaceInv, TypeOK
  <2>2. RoundsLeft(h)' = RoundsLeft(h)
    BY <2>1 DEF RoundsLeft, RoundWork
  <2>3. /\ Work(h) = RoundsLeft(h) + 2 * Cardinality(calls[h]) + 3
        /\ Work(h)' = RoundsLeft(h)' + 2 * Cardinality(calls[h]) + 2
    BY <2>1 DEF Work, RoundsLeft
  <2> QED
    BY <1>1, <2>2, <2>3 DEF WorksOn
<1>6. CASE NextRound(h)
  <2>1. pc[h] = "call" /\ pc'[h] = "ask" /\ UNCHANGED round
    BY <1>6 DEF NextRound, Goto, RaceInv, TypeOK
  <2>2. RoundsLeft(h)' = RoundsLeft(h)
    BY <2>1 DEF RoundsLeft, RoundWork
  <2>3. /\ Work(h) = RoundsLeft(h) + 2 * Cardinality(calls[h]) + 2
        /\ Work(h)' = RoundsLeft(h)' + 1
    BY <2>1 DEF Work, RoundsLeft
  <2> QED
    BY <1>1, <2>2, <2>3 DEF WorksOn
<1>7. CASE RefuseQuery(h) \/ StopAsking(h) \/ AskFails(h) \/ GiveUp(h) \/ CallNoClient(h)
  <2>1. pc'[h] = "idle"
    BY <1>7 DEF RefuseQuery, StopAsking, AskFails, GiveUp, CallNoClient, Answer, Goto,
                RaceInv, TypeOK
  <2> QED
    BY <2>1, EndWorks
<1> QED
  BY <1>2, <1>3, <1>4, <1>5, <1>6, <1>7 DEF processQueryWithMCP

\* What a request has left is its own: only its handler and the end of the
\* process change it.
LEMMA OthersWait ==
    ASSUME RaceInv, NEW h \in Handler, NEW k \in Handler \ {h},
           ArriveInit(k) \/ ArriveQuery(k) \/ Step(k), ~ProcessExit
    PROVE  WorksOn(h)
<1> USE DEF serverVars
<1> SUFFICES /\ pc'[h] = pc[h] /\ pending'[h] = pending[h] /\ target'[h] = target[h]
             /\ calls'[h] = calls[h] /\ round'[h] = round[h]
  BY DEF WorksOn
<1>1. ASSUME NEW answer, Answer(k, answer)
      PROVE  /\ pc'[h] = pc[h] /\ pending'[h] = pending[h] /\ target'[h] = target[h]
             /\ calls'[h] = calls[h] /\ round'[h] = round[h]
  BY <1>1 DEF Answer, Goto, RaceInv, TypeOK
<1>2. CASE ArriveInit(k) \/ ArriveQuery(k)
  BY <1>2 DEF ArriveInit, ArriveQuery, Goto, RaceInv, TypeOK
<1>3. CASE mcpInit(k)
  <2>1. CASE \/ CloseNoClient(k) \/ LoadFails(k) \/ StartClientFails(k) \/ ServerFails(k)
             \/ FinishInit(k)
    BY <1>1, <2>1 DEF CloseNoClient, LoadFails, StartClientFails, ServerFails, FinishInit
  <2>2. CASE \E r \in Record : FindClient(k, r) \/ SkipServer(k, r) \/ StartClient(k, r)
    BY <2>2 DEF FindClient, SkipServer, StartClient, Goto, RaceInv, TypeOK
  <2>3. CASE \/ CloseClient(k) \/ UnsetClient(k) \/ ClearServers(k) \/ LoadServers(k)
             \/ ConfigureLlm(k) \/ RangeServers(k) \/ SetClient(k) \/ Initialize(k)
             \/ ListTools(k)
    BY <2>3 DEF CloseClient, UnsetClient, ClearServers, LoadServers, ConfigureLlm, RangeServers,
                SetClient, Initialize, ListTools, Goto, RaceInv, TypeOK
  <2> QED
    BY <1>3, <2>1, <2>2, <2>3 DEF mcpInit, StartClientFatal
<1>4. CASE processQueryWithMCP(k)
  <2>1. CASE RefuseQuery(k) \/ StopAsking(k) \/ AskFails(k) \/ GiveUp(k) \/ CallNoClient(k)
    BY <1>1, <2>1 DEF RefuseQuery, StopAsking, AskFails, GiveUp, CallNoClient
  <2>2. CASE ReadTools(k) \/ CallTool(k) \/ NextRound(k)
    BY <2>2 DEF ReadTools, CallTool, NextRound, Goto, RaceInv, TypeOK
  <2>3. CASE AskForTools(k)
    BY <2>3 DEF AskForTools, Goto, RaceInv, TypeOK
  <2>4. CASE \E t \in Tool : FindTool(k, t) \/ ToolNotFound(k, t)
    BY <2>4 DEF FindTool, ToolNotFound, Goto, RaceInv, TypeOK
  <2> QED
    BY <1>4, <2>1, <2>2, <2>3, <2>4 DEF processQueryWithMCP
<1> QED
  BY <1>2, <1>3, <1>4 DEF Step

\* No request goes on for ever: each of its steps, and the end of the process,
\* takes work off it, and no step of another request gives it more, whatever
\* the LLM asks for and whatever an initialization does to the servers while
\* another one walks through them.
THEOREM EveryRequestProgresses == ASSUME FinitelyMany PROVE Spec => WorkDecreases
<1>1. ASSUME RaceInv, RaceInv', Next, NEW h \in Handler, pc[h] # "idle"
      PROVE  WorksOn(h)
  <2>1. CASE ProcessExit
    <3>1. pc'[h] = "idle"
      BY <2>1 DEF ProcessExit
    <3> QED
      BY <1>1, <3>1, EndWorks
  <2>2. ASSUME NEW k \in Handler, ArriveInit(k) \/ ArriveQuery(k) \/ Step(k), ~ProcessExit
        PROVE  WorksOn(h)
    <3>1. CASE k = h
      <4>1. Step(h)
        BY <1>1, <2>2, <3>1 DEF ArriveInit, ArriveQuery
      <4> QED
        BY <1>1, <4>1, InitWorks, QueryWorks DEF Step
    <3> QED
      BY <1>1, <2>2, <3>1, OthersWait
  <2> QED
    BY <1>1, <2>1, <2>2 DEF Next, Kill
<1>2. RaceInv /\ RaceInv' /\ [Next]_mcpVars
        => [\A h \in Handler : pc[h] # "idle" => WorksOn(h)]_mcpVars
  BY <1>1
<1>3. Spec => []RaceInv
  BY RaceInvariant DEF FinitelyMany
<1> QED
  BY <1>2, <1>3, PTL DEF Spec, WorkDecreases

=============================================================================
