------------------------- MODULE PluginConfigProofs -------------------------
(***************************************************************************)
(* Theorems about PluginConfig, for every number of requests, APIs and     *)
(* definitions, and their proofs.                                          *)
(*                                                                         *)
(* The inductive invariant says who holds the two locks where, that the    *)
(* version a request has counted is still the current one when it assigns  *)
(* it, and that a request past its lookup has a definition.                *)
(***************************************************************************)
EXTENDS PluginConfig, TLAPS

\* Where a request has changed or is about to change the catalogue.
Writing == {"save_key", "save_count", "save_assign",
            "delete_key", "delete_count", "delete_assign", "delete_drop"}

CallInv ==
    \A r \in Request :
        /\ pc[r] # "idle" => call[r] \in Calls
        /\ pc[r] \notin {"idle", "lookup"} => call[r].def \in Definition

LockInv ==
    \A r \in Request :
        /\ pc[r] \in Writing => pluginConfigLock = r
        /\ pc[r] = "model_load" => embeddingModelsLock = r /\ vectorizers = 0
        /\ pc[r] \in {"save_assign", "delete_assign"} => counted[r] = storeVersion

IInv == TypeOK /\ CallInv /\ LockInv /\ SingleVectorizer

-----------------------------------------------------------------------------
(* Facts about the operators.                                              *)

\* What an index can hold is among the operations of the definitions.
LEMMA SelectedAreOperations ==
    ASSUME NEW d \in Definition
    PROVE  /\ SelectOperations(d) \subseteq Operations
           /\ \A ops \in SUBSET SelectOperations(d) : ops # Nil
BY ConfigAssumption DEF SelectOperations, Operations

\* The constants of a state with nothing in memory have their types.
LEMMA EmptyMemoryOK ==
    ASSUME MemoryEmpty, store \in [Api -> Definition \cup {Nil}]
    PROVE  IInv
<1>1. TypeOK
  BY DEF MemoryEmpty, TypeOK, Labels, Replies
<1>2. CallInv /\ LockInv /\ SingleVectorizer
  BY DEF MemoryEmpty, CallInv, LockInv, SingleVectorizer, Writing
<1> QED
  BY <1>1, <1>2 DEF IInv

LEMMA InitOK == Init => IInv
<1> SUFFICES ASSUME Init PROVE IInv
  OBVIOUS
<1>1. store \in [Api -> Definition \cup {Nil}]
  BY DEF Init
<1> QED
  BY <1>1, EmptyMemoryOK DEF Init

\* A process that ends and starts again has nothing in memory.
LEMMA ExitOK ==
    ASSUME ProcessExit, store' \in [Api -> Definition \cup {Nil}]
    PROVE  IInv'
<1>1. TypeOK'
  BY DEF ProcessExit, TypeOK, Labels, Replies
<1>2. (CallInv /\ LockInv /\ SingleVectorizer)'
  BY DEF ProcessExit, CallInv, LockInv, SingleVectorizer, Writing
<1> QED
  BY <1>1, <1>2 DEF IInv

-----------------------------------------------------------------------------
(* Each step preserves the invariant.                                      *)

LEMMA AnswerTyped ==
    ASSUME NEW r \in Request, NEW answer \in Replies, TypeOK, Answer(r, answer)
    PROVE  /\ pc' \in [Request -> Labels]
           /\ call' \in [Request -> Calls \cup {NoCall}]
           /\ resume' \in [Request -> {"dispatch", "rewrite"}]
           /\ counted' \in [Request -> Nat]
           /\ found' \in [Request -> SUBSET Operations]
           /\ reply' \in [Request -> Replies]
           /\ pc'[r] = "idle"
           /\ \A p \in Request \ {r} : /\ pc'[p] = pc[p]
                                       /\ call'[p] = call[p]
                                       /\ counted'[p] = counted[p]
BY DEF TypeOK, Answer, Goto, Labels

LEMMA ArriveOK ==
    ASSUME IInv, NEW r \in Request, Arrive(r)
    PROVE  IInv'
<1> USE DEF IInv
<1>1. TypeOK'
  BY DEF Arrive, TypeOK, Goto, shared, locks, Labels, Replies
<1>2. CallInv'
  BY DEF Arrive, CallInv, TypeOK, Goto
<1>3. (LockInv /\ SingleVectorizer)'
  BY DEF Arrive, LockInv, SingleVectorizer, TypeOK, Goto, shared, locks, Writing
<1> QED
  BY <1>1, <1>2, <1>3

LEMMA FindPluginOK ==
    ASSUME IInv, NEW r \in Request, FindPlugin(r)
    PROVE  IInv'
<1> USE DEF IInv
<1>1. CASE RejectNoDefinition(r)
  <2>1. TypeOK'
    BY <1>1, AnswerTyped DEF RejectNoDefinition, TypeOK, shared, locks, Replies
  <2>2. (CallInv /\ LockInv /\ SingleVectorizer)'
    BY <1>1, AnswerTyped
       DEF RejectNoDefinition, CallInv, LockInv, SingleVectorizer, shared, locks,
           Writing, Replies
  <2> QED
    BY <2>1, <2>2
<1>2. CASE LookupConfig(r)
  <2>1. TypeOK'
    BY <1>2 DEF LookupConfig, TypeOK, Goto, shared, locks, locals, Labels
  <2>2. CallInv'
    BY <1>2 DEF LookupConfig, CallInv, TypeOK, Goto, locals, Calls
  <2>3. (LockInv /\ SingleVectorizer)'
    BY <1>2 DEF LookupConfig, LockInv, SingleVectorizer, TypeOK, Goto, shared, locks,
                locals, Writing
  <2> QED
    BY <2>1, <2>2, <2>3
<1>3. CASE InitConfig(r)
  <2>1. TypeOK'
    BY <1>3 DEF InitConfig, TypeOK, Goto, shared, locks, locals, Labels
  <2>2. (CallInv /\ LockInv /\ SingleVectorizer)'
    BY <1>3 DEF InitConfig, CallInv, LockInv, SingleVectorizer, TypeOK, Goto, shared,
                locks, locals, Writing
  <2> QED
    BY <2>1, <2>2
<1>4. CASE InitConfigFatal(r)
  BY <1>4, ExitOK DEF InitConfigFatal, TypeOK
<1>16. CASE InitConfigPanics(r)
  <2>1. Answer(r, "panic") /\ "panic" \in Replies
    BY <1>16 DEF InitConfigPanics, Replies
  <2>2. TypeOK'
    BY <1>16, <2>1, AnswerTyped DEF InitConfigPanics, TypeOK, shared
  <2>3. CallInv'
    BY <2>1, AnswerTyped DEF CallInv
  <2>4. (LockInv /\ SingleVectorizer)'
    BY <1>16, <2>1, AnswerTyped
       DEF InitConfigPanics, LockInv, SingleVectorizer, Writing, shared
  <2> QED
    BY <2>2, <2>3, <2>4
<1>5. CASE CheckModel(r)
  <2>1. TypeOK'
    BY <1>5 DEF CheckModel, TypeOK, Goto, shared, locks, locals, Labels
  <2>2. (CallInv /\ LockInv /\ SingleVectorizer)'
    BY <1>5 DEF CheckModel, CallInv, LockInv, SingleVectorizer, TypeOK, Goto, shared,
                locks, locals, Writing
  <2> QED
    BY <2>1, <2>2
<1>6. CASE LockModels(r)
  <2>1. TypeOK'
    BY <1>6 DEF LockModels, TypeOK, Goto, shared, locks, locals, Labels
  <2>2. CallInv'
    BY <1>6 DEF LockModels, CallInv, TypeOK, Goto, locals
  <2>3. (LockInv /\ SingleVectorizer)'
    BY <1>6, ConfigAssumption
       DEF LockModels, LockInv, SingleVectorizer, TypeOK, Goto, shared, locks, locals, Writing
  <2> QED
    BY <2>1, <2>2, <2>3
<1>7. CASE LoadModel(r)
  <2>1. TypeOK'
    BY <1>7 DEF LoadModel, TypeOK, Goto, locals, Labels
  <2>2. CallInv'
    BY <1>7 DEF LoadModel, CallInv, TypeOK, Goto, locals
  <2>3. (LockInv /\ SingleVectorizer)'
    BY <1>7 DEF LoadModel, LockInv, SingleVectorizer, TypeOK, Goto, locals, Writing
  <2> QED
    BY <2>1, <2>2, <2>3
<1>8. CASE LoadModelFatal(r)
  BY <1>8, ExitOK DEF LoadModelFatal, TypeOK
<1>9. CASE BuildIndex(r)
  <2>1. call[r].def \in Definition
    BY <1>9 DEF BuildIndex, CallInv
  <2>2. TypeOK'
    <3>1. PICK ops \in SUBSET SelectOperations(call[r].def) :
              apiSpecIndices' = [apiSpecIndices EXCEPT ![call[r].api] = ops]
      BY <1>9 DEF BuildIndex
    <3>2. ops \in SUBSET Operations
      BY <2>1, SelectedAreOperations
    <3>3. apiSpecIndices' \in [Api -> (SUBSET Operations) \cup {Nil}]
      BY <3>1, <3>2 DEF TypeOK
    <3> QED
      BY <1>9, <3>3 DEF BuildIndex, TypeOK, Goto, locks, locals, Labels
  <2>3. (CallInv /\ LockInv /\ SingleVectorizer)'
    BY <1>9 DEF BuildIndex, CallInv, LockInv, SingleVectorizer, TypeOK, Goto, locks,
                locals, Writing
  <2> QED
    BY <2>2, <2>3
<1>10. CASE LockToSave(r)
  <2>1. TypeOK'
    BY <1>10 DEF LockToSave, TypeOK, Goto, shared, locals, Labels
  <2>2. CallInv'
    BY <1>10 DEF LockToSave, CallInv, TypeOK, Goto, locals
  <2>3. (LockInv /\ SingleVectorizer)'
    BY <1>10, ConfigAssumption
       DEF LockToSave, LockInv, SingleVectorizer, TypeOK, Goto, shared, locals, Writing
  <2> QED
    BY <2>1, <2>2, <2>3
<1>11. CASE SaveKey(r)
  <2>1. call[r].def \in Definition
    BY <1>11 DEF SaveKey, CallInv
  <2>2. TypeOK'
    BY <1>11, <2>1 DEF SaveKey, TypeOK, Goto, locks, locals, Labels
  <2>3. (CallInv /\ LockInv /\ SingleVectorizer)'
    BY <1>11 DEF SaveKey, CallInv, LockInv, SingleVectorizer, TypeOK, Goto, locks, locals,
                 Writing
  <2> QED
    BY <2>2, <2>3
<1>12. CASE SaveKeyFatal(r)
  <2>1. call[r].def \in Definition
    BY <1>12 DEF SaveKeyFatal, CallInv
  <2>2. store' \in [Api -> Definition \cup {Nil}]
    BY <1>12, <2>1 DEF SaveKeyFatal, TypeOK
  <2> QED
    BY <1>12, <2>2, ExitOK DEF SaveKeyFatal
<1>13. CASE SaveCount(r)
  <2>1. TypeOK'
    BY <1>13 DEF SaveCount, CountChange, TypeOK, Goto, locks, Labels
  <2>2. CallInv'
    BY <1>13 DEF SaveCount, CountChange, CallInv, TypeOK, Goto
  <2>3. (LockInv /\ SingleVectorizer)'
    BY <1>13 DEF SaveCount, CountChange, LockInv, SingleVectorizer, TypeOK, Goto, locks,
                 Writing
  <2> QED
    BY <2>1, <2>2, <2>3
<1>14. CASE SaveAssign(r)
  <2>1. TypeOK'
    BY <1>14 DEF SaveAssign, TypeOK, Goto, Labels
  <2>2. CallInv'
    BY <1>14 DEF SaveAssign, CallInv, TypeOK, Goto
  <2>3. (LockInv /\ SingleVectorizer)'
    BY <1>14 DEF SaveAssign, LockInv, SingleVectorizer, TypeOK, Goto, Writing
  <2> QED
    BY <2>1, <2>2, <2>3
<1>15. CASE CacheConfig(r)
  <2>1. call[r].def \in Definition
    BY <1>15 DEF CacheConfig, CallInv
  <2>2. TypeOK'
    BY <1>15, <2>1 DEF CacheConfig, TypeOK, Goto, locks, locals, Labels
  <2>3. (CallInv /\ LockInv /\ SingleVectorizer)'
    BY <1>15 DEF CacheConfig, CallInv, LockInv, SingleVectorizer, TypeOK, Goto, locks,
                 locals, Writing
  <2> QED
    BY <2>2, <2>3
<1> QED
  BY <1>1, <1>2, <1>3, <1>4, <1>5, <1>6, <1>7, <1>8, <1>9, <1>10, <1>11, <1>12, <1>13,
     <1>14, <1>15, <1>16 DEF FindPlugin

LEMMA SelectAndRewriteOK ==
    ASSUME IInv, NEW r \in Request, SelectAndRewrite(r)
    PROVE  IInv'
<1> USE DEF IInv
<1>1. CASE StartSelection(r)
  <2>1. TypeOK'
    BY <1>1 DEF StartSelection, TypeOK, Goto, shared, locks, locals, Labels
  <2>2. (CallInv /\ LockInv /\ SingleVectorizer)'
    BY <1>1 DEF StartSelection, CallInv, LockInv, SingleVectorizer, TypeOK, Goto, shared,
                locks, locals, Writing
  <2> QED
    BY <2>1, <2>2
<1>2. CASE ReadIndex(r)
  <2>1. apiSpecIndices[call[r].api] \in SUBSET Operations
    <3>1. call[r].api \in Api
      BY <1>2 DEF ReadIndex, CallInv, Calls
    <3> QED
      BY <1>2, <3>1 DEF ReadIndex, TypeOK
  <2>2. TypeOK'
    BY <1>2, <2>1 DEF ReadIndex, TypeOK, Goto, shared, locks, Labels
  <2>3. (CallInv /\ LockInv /\ SingleVectorizer)'
    BY <1>2 DEF ReadIndex, CallInv, LockInv, SingleVectorizer, TypeOK, Goto, shared,
                locks, Writing
  <2> QED
    BY <2>2, <2>3
<1>3. CASE SelectOperation(r)
  <2>1. TypeOK'
    BY <1>3 DEF SelectOperation, TypeOK, Goto, shared, locks, Labels
  <2>2. (CallInv /\ LockInv /\ SingleVectorizer)'
    BY <1>3 DEF SelectOperation, CallInv, LockInv, SingleVectorizer, TypeOK, Goto, shared,
                locks, Writing
  <2> QED
    BY <2>1, <2>2
<1>4. CASE ReadConfig(r) /\ pluginConfig[call[r].api] # Nil
  <2>1. Goto(r, "search") /\ UNCHANGED <<shared, locks, locals>>
    BY <1>4 DEF ReadConfig
  <2>2. TypeOK'
    BY <2>1 DEF TypeOK, Goto, shared, locks, locals, Labels
  <2>3. (CallInv /\ LockInv /\ SingleVectorizer)'
    BY <1>4, <2>1 DEF ReadConfig, CallInv, LockInv, SingleVectorizer, TypeOK, Goto, shared,
                      locks, locals, Writing
  <2> QED
    BY <2>2, <2>3
\* What is left answers the request and touches nothing else.
<1>5. ASSUME NEW answer \in Replies, Answer(r, answer), UNCHANGED <<shared, locks>>
      PROVE  IInv'
  <2>1. TypeOK'
    BY <1>5, AnswerTyped DEF TypeOK, shared, locks
  <2>2. (CallInv /\ LockInv /\ SingleVectorizer)'
    BY <1>5, AnswerTyped
       DEF CallInv, LockInv, SingleVectorizer, shared, locks, Writing
  <2> QED
    BY <2>1, <2>2
<1>6. CASE ReadConfig(r) /\ pluginConfig[call[r].api] = Nil
  BY <1>5, <1>6 DEF ReadConfig, Replies
<1>7. CASE RefuseQuery(r) \/ NoIndexFound(r) \/ SelectUnknownOperation(r)
           \/ SelectNothing(r) \/ RewriteQuery(r)
  BY <1>5, <1>7
     DEF RefuseQuery, NoIndexFound, SelectUnknownOperation, SelectNothing, RewriteQuery,
         Replies
<1> QED
  BY <1>1, <1>2, <1>3, <1>4, <1>6, <1>7 DEF SelectAndRewrite

LEMMA ConfigureApiOK ==
    ASSUME IInv, NEW r \in Request, ConfigureApi(r)
    PROVE  IInv'
<1> USE DEF IInv
<1>1. CASE LockToDelete(r)
  <2>1. TypeOK'
    BY <1>1 DEF LockToDelete, TypeOK, Goto, shared, locals, Labels
  <2>2. CallInv'
    BY <1>1 DEF LockToDelete, CallInv, TypeOK, Goto, locals
  <2>3. (LockInv /\ SingleVectorizer)'
    BY <1>1, ConfigAssumption
       DEF LockToDelete, LockInv, SingleVectorizer, TypeOK, Goto, shared, locals, Writing
  <2> QED
    BY <2>1, <2>2, <2>3
<1>2. CASE DeleteKey(r)
  <2>1. TypeOK'
    BY <1>2 DEF DeleteKey, TypeOK, Goto, locks, locals, Labels
  <2>2. (CallInv /\ LockInv /\ SingleVectorizer)'
    BY <1>2 DEF DeleteKey, CallInv, LockInv, SingleVectorizer, TypeOK, Goto, locks, locals,
                Writing
  <2> QED
    BY <2>1, <2>2
<1>3. CASE DeleteKeyFails(r)
  <2>1. Answer(r, "ok") /\ "ok" \in Replies
    BY <1>3 DEF DeleteKeyFails, Replies
  <2>2. TypeOK'
    BY <1>3, <2>1, AnswerTyped DEF DeleteKeyFails, TypeOK
  <2>3. CallInv'
    BY <2>1, AnswerTyped DEF CallInv
  <2>4. (LockInv /\ SingleVectorizer)'
    BY <1>3, <2>1, AnswerTyped DEF DeleteKeyFails, LockInv, SingleVectorizer, Writing
  <2> QED
    BY <2>2, <2>3, <2>4
<1>4. CASE DeleteCount(r)
  <2>1. TypeOK'
    BY <1>4 DEF DeleteCount, CountChange, TypeOK, Goto, locks, Labels
  <2>2. CallInv'
    BY <1>4 DEF DeleteCount, CountChange, CallInv, TypeOK, Goto
  <2>3. (LockInv /\ SingleVectorizer)'
    BY <1>4 DEF DeleteCount, CountChange, LockInv, SingleVectorizer, TypeOK, Goto, locks,
                Writing
  <2> QED
    BY <2>1, <2>2, <2>3
<1>5. CASE DeleteAssign(r)
  <2>1. TypeOK'
    BY <1>5 DEF DeleteAssign, TypeOK, Goto, locks, locals, Labels
  <2>2. (CallInv /\ LockInv /\ SingleVectorizer)'
    BY <1>5 DEF DeleteAssign, CallInv, LockInv, SingleVectorizer, TypeOK, Goto, locks, locals,
                Writing
  <2> QED
    BY <2>1, <2>2
<1>6. CASE DropConfig(r)
  <2>1. Answer(r, "ok") /\ "ok" \in Replies
    BY <1>6 DEF DropConfig, Replies
  <2>2. TypeOK'
    BY <1>6, <2>1, AnswerTyped DEF DropConfig, TypeOK
  <2>3. CallInv'
    BY <2>1, AnswerTyped DEF CallInv
  <2>4. (LockInv /\ SingleVectorizer)'
    BY <1>6, <2>1, AnswerTyped DEF DropConfig, LockInv, SingleVectorizer, Writing
  <2> QED
    BY <2>2, <2>3, <2>4
<1>7. CASE LockToUpdate(r)
  <2>1. TypeOK'
    BY <1>7 DEF LockToUpdate, TypeOK, Goto, shared, locals, Labels
  <2>2. (CallInv /\ LockInv /\ SingleVectorizer)'
    BY <1>7, ConfigAssumption
       DEF LockToUpdate, CallInv, LockInv, SingleVectorizer, TypeOK, Goto, shared, locals,
           Writing
  <2> QED
    BY <2>1, <2>2
<1> QED
  BY <1>1, <1>2, <1>3, <1>4, <1>5, <1>6, <1>7 DEF ConfigureApi

LEMMA NextOK == IInv /\ [Next]_vars => IInv'
<1> SUFFICES ASSUME IInv, [Next]_vars PROVE IInv'
  OBVIOUS
<1>1. CASE Kill
  BY <1>1, ExitOK DEF Kill, IInv, TypeOK
<1>2. CASE \E r \in Request : Arrive(r) \/ Step(r)
  BY <1>2, ArriveOK, FindPluginOK, SelectAndRewriteOK, ConfigureApiOK DEF Step
<1>3. CASE UNCHANGED vars
  BY <1>3 DEF vars, shared, locks, locals, IInv, TypeOK, CallInv, LockInv, SingleVectorizer
<1> QED
  BY <1>1, <1>2, <1>3 DEF Next

LEMMA Invariance == Spec => []IInv
BY InitOK, NextOK, PTL DEF Spec

-----------------------------------------------------------------------------
(* The theorems.                                                           *)

\* Every variable keeps its type: of the caches, the store, the locks and
\* the requests in flight.
THEOREM TypeCorrect == Spec => []TypeOK
<1>1. IInv => TypeOK
  BY DEF IInv
<1> QED
  BY <1>1, Invariance, PTL

\* The double-checked locking of initPluginFromRequest loads one embedding
\* model, however many requests are in flight.
THEOREM OneModelLoaded == Spec => []SingleVectorizer
<1>1. IInv => SingleVectorizer
  BY DEF IInv
<1> QED
  BY <1>1, Invariance, PTL

\* What a step may do to storeVersion.
Counts == storeVersion' \in {storeVersion, storeVersion + 1} \/ MemoryEmpty'

LEMMA VersionStep ==
    ASSUME IInv, [Next]_vars
    PROVE  Counts
<1> USE DEF IInv, Counts
<1>1. ProcessExit => Counts
  BY DEF ProcessExit, MemoryEmpty
<1>2. CASE Kill \/ UNCHANGED vars
  BY <1>1, <1>2 DEF Kill, vars, shared
<1>3. ASSUME NEW r \in Request, Arrive(r) \/ Step(r) PROVE Counts
  <2>1. CASE SaveAssign(r) \/ DeleteAssign(r)
    BY <2>1 DEF SaveAssign, DeleteAssign, LockInv
  <2>2. CASE SaveCount(r) \/ DeleteCount(r)
    BY <2>2 DEF SaveCount, DeleteCount, CountChange
  <2>3. CASE InitConfigFatal(r) \/ LoadModelFatal(r) \/ SaveKeyFatal(r)
    BY <1>1, <2>3 DEF InitConfigFatal, LoadModelFatal, SaveKeyFatal
  <2>4. CASE \/ Arrive(r) \/ RejectNoDefinition(r) \/ LookupConfig(r) \/ InitConfig(r)
             \/ InitConfigPanics(r) \/ CheckModel(r) \/ LockModels(r) \/ LoadModel(r)
             \/ BuildIndex(r) \/ LockToSave(r) \/ SaveKey(r) \/ CacheConfig(r)
    BY <2>4 DEF Arrive, RejectNoDefinition, LookupConfig, InitConfig, InitConfigPanics,
                CheckModel, LockModels, LoadModel, BuildIndex, LockToSave, SaveKey, CacheConfig, shared
  <2>5. CASE SelectAndRewrite(r)
    BY <2>5 DEF SelectAndRewrite, RefuseQuery, StartSelection, ReadIndex, NoIndexFound,
                ReadConfig, SelectOperation, SelectUnknownOperation, SelectNothing,
                RewriteQuery, shared
  <2>6. CASE \/ LockToDelete(r) \/ DeleteKey(r) \/ DeleteKeyFails(r) \/ DropConfig(r)
             \/ LockToUpdate(r)
    BY <2>6 DEF LockToDelete, DeleteKey, DeleteKeyFails, DropConfig, LockToUpdate, shared
  <2> QED
    BY <1>3, <2>1, <2>2, <2>3, <2>4, <2>5, <2>6 DEF Step, FindPlugin, ConfigureApi
<1> QED
  BY <1>2, <1>3 DEF Next

\* storeVersion never goes back while the process lives: the assignment that
\* is made outside storeVersionLock repeats the value the variable still has.
THEOREM VersionNeverLost == Spec => VersionSteps
<1>1. IInv /\ [Next]_vars => [Counts]_vars
  BY VersionStep
<1> QED
  BY <1>1, Invariance, PTL DEF Spec, VersionSteps, Counts

-----------------------------------------------------------------------------
(* Nobody waits with a lock in hand, and the model is there when needed.   *)

\* Where a PUT that holds pluginConfigLock can be.
Updating == {"init", "model", "model_lock", "model_load", "index", "save_lock"}

\* Where the holder of a lock is. (LockInv says who must hold one.)
HolderInv ==
    \A r \in Request :
        /\ pluginConfigLock = r =>
              pc[r] \in Writing \/ (pc[r] \in Updating /\ call[r].kind = "put")
        /\ embeddingModelsLock = r => pc[r] = "model_load"

LEMMA HolderExit == ProcessExit => HolderInv'
BY ConfigAssumption DEF ProcessExit, HolderInv

\* A step that takes no lock, and moves its request from a place where it
\* could not hold one, or to a place where it may go on holding it.
LEMMA HolderMove ==
    ASSUME IInv, HolderInv, NEW r \in Request, NEW label, Goto(r, label),
           pluginConfigLock' \in {pluginConfigLock, Nil},
           embeddingModelsLock' \in {embeddingModelsLock, Nil},
           \A p \in Request \ {r} : call'[p] = call[p],
           \/ pluginConfigLock' # r
           \/ pc[r] \in Writing /\ label \in Writing
           \/ pc[r] \in Updating /\ label \in Updating /\ UNCHANGED call,
           embeddingModelsLock' # r
    PROVE  HolderInv'
<1>1. \A p \in Request : pc'[p] = IF p = r THEN label ELSE pc[p]
  BY DEF Goto, IInv, TypeOK
<1>2. r # Nil
  BY ConfigAssumption
<1>3. ASSUME NEW p \in Request \ {r}
      PROVE  /\ pluginConfigLock' = p =>
                   pc'[p] \in Writing \/ (pc'[p] \in Updating /\ call'[p].kind = "put")
             /\ embeddingModelsLock' = p => pc'[p] = "model_load"
  BY <1>1, <1>3, ConfigAssumption DEF HolderInv
<1>4. pluginConfigLock' = r =>
          pc'[r] \in Writing \/ (pc'[r] \in Updating /\ call'[r].kind = "put")
  BY <1>1, <1>2 DEF HolderInv, Writing, Updating
<1> QED
  BY <1>3, <1>4 DEF HolderInv

LEMMA HolderStep ==
    ASSUME IInv, HolderInv, [Next]_vars
    PROVE  HolderInv'
<1>1. CASE Kill
  BY <1>1, HolderExit DEF Kill
<1>2. CASE UNCHANGED vars
  BY <1>2 DEF vars, locks, locals, HolderInv
<1>3. ASSUME NEW r \in Request, Arrive(r) \/ Step(r) PROVE HolderInv'
  <2> USE DEF Writing, Updating
  <2>1. /\ pluginConfigLock = r => pc[r] \in Writing \cup Updating
        /\ embeddingModelsLock = r => pc[r] = "model_load"
        /\ r # Nil
    BY ConfigAssumption DEF HolderInv
  <2>2. CASE InitConfigFatal(r) \/ LoadModelFatal(r) \/ SaveKeyFatal(r)
    BY <2>2, HolderExit DEF InitConfigFatal, LoadModelFatal, SaveKeyFatal
  <2>3. CASE Arrive(r)
    <3>1. \A p \in Request \ {r} : call'[p] = call[p]
      BY <2>3 DEF Arrive, IInv, TypeOK
    <3> QED
      BY <2>1, <2>3, <3>1, HolderMove DEF Arrive, locks
  <2>4. ASSUME NEW answer, Answer(r, answer), UNCHANGED embeddingModelsLock,
               pluginConfigLock' = Nil \/ (UNCHANGED pluginConfigLock /\ pluginConfigLock # r),
               embeddingModelsLock # r
        PROVE  HolderInv'
    <3>1. \A p \in Request \ {r} : call'[p] = call[p]
      BY <2>4 DEF Answer, IInv, TypeOK
    <3> QED
      BY <2>1, <2>4, <3>1, HolderMove DEF Answer
  <2>5. CASE RejectNoDefinition(r) \/ SelectAndRewrite(r)
    <3>1. CASE StartSelection(r) \/ ReadIndex(r) \/ SelectOperation(r)
      BY <2>1, <3>1, HolderMove DEF StartSelection, ReadIndex, SelectOperation, locks, locals
    <3>2. CASE ReadConfig(r) /\ pluginConfig[call[r].api] # Nil
      BY <2>1, <3>2, HolderMove DEF ReadConfig, locks, locals
    <3>3. CASE ReadConfig(r) /\ pluginConfig[call[r].api] = Nil
      BY <2>1, <2>4, <3>3 DEF ReadConfig, locks
    <3>4. CASE \/ RejectNoDefinition(r) \/ RefuseQuery(r) \/ NoIndexFound(r)
               \/ SelectUnknownOperation(r) \/ SelectNothing(r) \/ RewriteQuery(r)
      BY <2>1, <2>4, <3>4
         DEF RejectNoDefinition, RefuseQuery, NoIndexFound, SelectUnknownOperation,
             SelectNothing, RewriteQuery, locks
    <3> QED
      BY <2>5, <3>1, <3>2, <3>3, <3>4 DEF SelectAndRewrite
  <2>6. CASE LookupConfig(r)
    <3>1. resume[r] \in {"dispatch", "rewrite"}
      BY DEF IInv, TypeOK
    <3> QED
      BY <2>1, <2>6, <3>1, HolderMove DEF LookupConfig, locks, locals
  <2>7. CASE InitConfig(r) \/ CheckModel(r) \/ BuildIndex(r)
    BY <2>1, <2>7, HolderMove DEF InitConfig, CheckModel, BuildIndex, locks, locals
  <2>8. CASE LockModels(r)
    <3>1. CASE vectorizers > 0
      <4>1. Goto(r, "index") /\ UNCHANGED <<locks, call>>
        BY <2>8, <3>1 DEF LockModels, locks, locals
      <4> QED
        BY <2>1, <2>8, <4>1, HolderMove DEF LockModels, locks
    <3>2. CASE ~(vectorizers > 0)
      <4>1. /\ pc[r] = "model_lock" /\ pc' = [pc EXCEPT ![r] = "model_load"]
            /\ embeddingModelsLock' = r /\ UNCHANGED <<pluginConfigLock, call>>
        BY <2>8, <3>2 DEF LockModels, Goto, locals
      <4> QED
        BY <4>1 DEF HolderInv, IInv, TypeOK
    <3> QED
      BY <3>1, <3>2
  <2>9. CASE LoadModel(r)
    BY <2>1, <2>9, HolderMove DEF LoadModel, locals
  <2>10. CASE LockToSave(r) \/ LockToDelete(r) \/ LockToUpdate(r)
    <3>1. /\ pluginConfigLock' = r
          /\ UNCHANGED <<embeddingModelsLock, call>>
          /\ pc[r] \in {"save_lock", "dispatch"}
      BY <2>10 DEF LockToSave, LockToDelete, LockToUpdate, locals
    <3>2. \A p \in Request \ {r} : pc'[p] = pc[p]
      BY <2>10 DEF LockToSave, LockToDelete, LockToUpdate, Goto, IInv, TypeOK
    <3>3. pc'[r] \in Writing \/ (pc'[r] \in Updating /\ call[r].kind = "put")
      BY <2>10 DEF LockToSave, LockToDelete, LockToUpdate, Goto, IInv, TypeOK
    <3> QED
      BY <2>1, <3>1, <3>2, <3>3 DEF HolderInv
  <2>11. CASE \/ SaveKey(r) \/ SaveCount(r) \/ DeleteKey(r) \/ DeleteCount(r)
              \/ DeleteAssign(r)
    BY <2>1, <2>11, HolderMove
       DEF SaveKey, SaveCount, DeleteKey, DeleteCount, DeleteAssign, CountChange, locks, locals
  <2>12. CASE SaveAssign(r) \/ CacheConfig(r)
    <3>1. resume[r] \in {"dispatch", "rewrite"}
      BY DEF IInv, TypeOK
    <3> QED
      BY <2>1, <2>12, <3>1, HolderMove DEF SaveAssign, CacheConfig, locks, locals
  <2>13. CASE DeleteKeyFails(r) \/ DropConfig(r)
    BY <2>1, <2>4, <2>13 DEF DeleteKeyFails, DropConfig
  <2>14. CASE InitConfigPanics(r)
    BY <2>1, <2>4, <2>14 DEF InitConfigPanics, shared
  <2> QED
    BY <1>3, <2>2, <2>3, <2>5, <2>6, <2>7, <2>8, <2>9, <2>10, <2>11, <2>12, <2>13,
       <2>14 DEF Step, FindPlugin, ConfigureApi
<1> QED
  BY <1>1, <1>2, <1>3 DEF Next

\* No handler, of any number, that holds pluginConfigLock or embeddingModelsLock
\* waits for one of them, except a PUT: but for PUTs the two cannot deadlock.
THEOREM HoldersReleaseLocks == Spec => []OnlyUpdatesHoldAndWait
<1>1. Init => HolderInv
  <2>1. Init => pluginConfigLock = Nil /\ embeddingModelsLock = Nil
    BY DEF Init, MemoryEmpty
  <2> QED
    BY <2>1, ConfigAssumption DEF HolderInv
<1>2. IInv /\ HolderInv /\ [Next]_vars => HolderInv'
  BY HolderStep
<1>3. HolderInv => OnlyUpdatesHoldAndWait
  BY DEF HolderInv, OnlyUpdatesHoldAndWait, Holds, Waits, Writing, Updating
<1> QED
  BY <1>1, <1>2, <1>3, Invariance, PTL DEF Spec

\* An index is proof that the model was loaded, and no step unloads it.
ModelInv ==
    /\ \A a \in Api : apiSpecIndices[a] # Nil => vectorizers > 0
    /\ ModelAtHand

LEMMA ModelStep ==
    ASSUME IInv, ModelInv, [Next]_vars
    PROVE  ModelInv'
<1>1. ProcessExit => ModelInv'
  BY DEF ProcessExit, ModelInv, ModelAtHand
<1>2. CASE Kill \/ UNCHANGED vars
  BY <1>1, <1>2 DEF Kill, vars, shared, ModelInv, ModelAtHand
<1>3. ASSUME NEW r \in Request, Arrive(r) \/ Step(r) PROVE ModelInv'
  <2> USE DEF ModelInv, ModelAtHand
  <2>1. CASE InitConfigFatal(r) \/ LoadModelFatal(r) \/ SaveKeyFatal(r)
    BY <1>1, <2>1 DEF InitConfigFatal, LoadModelFatal, SaveKeyFatal
  <2>2. ASSUME UNCHANGED vectorizers, NEW label, Goto(r, label),
               \A a \in Api : apiSpecIndices'[a] \in {apiSpecIndices[a], Nil},
               label \in {"index", "select_config", "search"} => vectorizers > 0
        PROVE  ModelInv'
    BY <2>2 DEF Goto, IInv, TypeOK
  <2>3. \A p \in Request : pc[p] # "idle" => call[p].api \in Api
    BY DEF IInv, CallInv, Calls
  <2>4. resume[r] \in {"dispatch", "rewrite"}
    BY DEF IInv, TypeOK
  <2>5. CASE \/ Arrive(r) \/ RejectNoDefinition(r) \/ LookupConfig(r) \/ InitConfig(r)
             \/ LockToSave(r) \/ SaveKey(r) \/ SaveCount(r) \/ SaveAssign(r)
             \/ CacheConfig(r) \/ InitConfigPanics(r)
    BY <2>2, <2>4, <2>5
       DEF Arrive, RejectNoDefinition, LookupConfig, InitConfig, InitConfigPanics, LockToSave, SaveKey,
           SaveCount, SaveAssign, CountChange, CacheConfig, Answer, shared
  <2>6. CASE CheckModel(r) \/ LockModels(r)
    BY <2>2, <2>6 DEF CheckModel, LockModels, shared
  <2>7. CASE LoadModel(r)
    BY <2>7 DEF LoadModel, IInv, TypeOK
  <2>8. CASE BuildIndex(r)
    <3>1. vectorizers > 0 /\ UNCHANGED vectorizers
      BY <2>8 DEF BuildIndex
    <3> QED
      BY <3>1
  <2>9. CASE ReadIndex(r)
    BY <2>2, <2>3, <2>9 DEF ReadIndex, shared
  <2>10. CASE ReadConfig(r)
    BY <2>2, <2>10 DEF ReadConfig, Answer, shared
  <2>11. CASE \/ RefuseQuery(r) \/ StartSelection(r) \/ NoIndexFound(r)
              \/ SelectOperation(r) \/ SelectUnknownOperation(r) \/ SelectNothing(r)
              \/ RewriteQuery(r)
    BY <2>2, <2>11
       DEF RefuseQuery, StartSelection, NoIndexFound, SelectOperation,
           SelectUnknownOperation, SelectNothing, RewriteQuery, Answer, shared
  <2>12. CASE \/ LockToDelete(r) \/ DeleteKey(r) \/ DeleteKeyFails(r) \/ DeleteCount(r)
              \/ DeleteAssign(r) \/ LockToUpdate(r)
    BY <2>2, <2>12
       DEF LockToDelete, DeleteKey, DeleteKeyFails, DeleteCount, DeleteAssign, CountChange,
           LockToUpdate, Answer, shared
  <2>13. CASE DropConfig(r)
    <3>1. \A a \in Api : apiSpecIndices'[a] \in {apiSpecIndices[a], Nil}
      BY <2>13 DEF DropConfig, IInv, TypeOK
    <3> QED
      BY <2>2, <2>13, <3>1 DEF DropConfig, Answer
  <2> QED
    BY <1>3, <2>1, <2>5, <2>6, <2>7, <2>8, <2>9, <2>10, <2>11, <2>12, <2>13
       DEF Step, FindPlugin, SelectAndRewrite, ConfigureApi
<1> QED
  BY <1>2, <1>3 DEF Next

\* The lookup of the embedding model before an index is built or searched
\* never fails, whatever requests load, delete and search at the same time.
THEOREM ModelFound == Spec => []ModelAtHand
<1>1. Init => ModelInv
  BY DEF Init, MemoryEmpty, ModelInv, ModelAtHand
<1>2. IInv /\ ModelInv /\ [Next]_vars => ModelInv'
  BY ModelStep
<1>3. ModelInv => ModelAtHand
  BY DEF ModelInv
<1> QED
  BY <1>1, <1>2, <1>3, Invariance, PTL DEF Spec

-----------------------------------------------------------------------------
(* PluginConfig implements ServiceCatalog.                                 *)

\* At most one request at a time has changed the store without announcing it.
LEMMA OneWriter ==
    ASSUME IInv, NEW r \in Request, NEW p \in Request,
           pc[r] \in Writing, pc[p] \in Writing
    PROVE  r = p
BY DEF IInv, LockInv

\* A step that leaves the catalogue alone and moves no request to or from an
\* announcement is a stutter.
LEMMA CatalogStutter ==
    ASSUME UNCHANGED <<store, storeVersion>>, pc \in [Request -> Labels],
           NEW r \in Request, NEW label, pc' = [pc EXCEPT ![r] = label],
           label \notin {"save_count", "delete_count"},
           pc[r] \notin {"save_count", "delete_count"}
    PROVE  UNCHANGED Catalog!catalogVars
BY DEF Catalog!catalogVars, Unannounced

LEMMA ExitIsRestart ==
    ASSUME ProcessExit,
           \/ UNCHANGED store
           \/ \E a \in Api, e \in Definition : store' = [store EXCEPT ![a] = e]
    PROVE  Catalog!Restart
<1>1. ~Unannounced'
  BY DEF ProcessExit, Unannounced
<1> QED
  BY <1>1 DEF ProcessExit, Catalog!Restart

LEMMA CatalogStep ==
    ASSUME "lost_reply" \notin Fault, IInv, [Next]_vars
    PROVE  [Catalog!CatalogNext]_(Catalog!catalogVars)
<1> USE DEF IInv
<1>1. CASE Kill
  BY <1>1, ExitIsRestart DEF Kill, Catalog!CatalogNext
<1>2. CASE UNCHANGED vars
  BY <1>2 DEF vars, shared, Catalog!catalogVars, Unannounced
<1>3. ASSUME NEW r \in Request, Arrive(r) \/ Step(r)
      PROVE  [Catalog!CatalogNext]_(Catalog!catalogVars)
  <2> DEFINE Stutter == UNCHANGED Catalog!catalogVars
  <2>1. CASE SaveKey(r)
    <3>1. call[r].api \in Api /\ call[r].def \in Definition
      BY <2>1 DEF SaveKey, CallInv, Calls
    <3>2. ~Unannounced
      BY <2>1, OneWriter DEF SaveKey, Unannounced, Writing
    <3>3. Unannounced'
      BY <2>1 DEF SaveKey, Unannounced, Goto, TypeOK
    <3>4. Catalog!Register(call[r].api, call[r].def)
      BY <2>1, <3>2, <3>3 DEF SaveKey, Catalog!Register
    <3> QED
      BY <3>1, <3>4 DEF Catalog!CatalogNext, Catalog!CatalogChange
  <2>2. CASE DeleteKey(r)
    <3>1. call[r].api \in Api
      BY <2>2 DEF DeleteKey, CallInv, Calls
    <3>2. ~Unannounced
      BY <2>2, OneWriter DEF DeleteKey, Unannounced, Writing
    <3>3. Unannounced'
      BY <2>2 DEF DeleteKey, Unannounced, Goto, TypeOK
    <3>4. Catalog!Deregister(call[r].api)
      BY <2>2, <3>2, <3>3 DEF DeleteKey, Catalog!Deregister
    <3> QED
      BY <3>1, <3>4 DEF Catalog!CatalogNext, Catalog!CatalogChange
  <2>3. CASE SaveCount(r) \/ DeleteCount(r)
    <3>1. Unannounced
      BY <2>3 DEF SaveCount, DeleteCount, CountChange, Unannounced
    <3>2. ~Unannounced'
      BY <2>3, OneWriter
         DEF SaveCount, DeleteCount, CountChange, Unannounced, Goto, TypeOK, Writing
    <3>3. Catalog!Announce
      BY <2>3, <3>1, <3>2 DEF SaveCount, DeleteCount, CountChange, Catalog!Announce
    <3> QED
      BY <3>3 DEF Catalog!CatalogNext, Catalog!CatalogChange
  <2>4. CASE InitConfigFatal(r) \/ LoadModelFatal(r) \/ SaveKeyFatal(r)
    <3>1. pc[r] = "save_key" => call[r].api \in Api /\ call[r].def \in Definition
      BY DEF CallInv, Calls
    <3> QED
      BY <2>4, <3>1, ExitIsRestart
         DEF InitConfigFatal, LoadModelFatal, SaveKeyFatal, Catalog!CatalogNext
  <2>5. CASE SaveAssign(r) \/ DeleteAssign(r)
    <3>1. storeVersion' = storeVersion
      BY <2>5 DEF SaveAssign, DeleteAssign, LockInv
    <3> QED
      BY <2>5, <3>1, CatalogStutter DEF SaveAssign, DeleteAssign, Goto, TypeOK
  <2>6. ASSUME UNCHANGED <<store, storeVersion>>,
               pc[r] \notin {"save_count", "delete_count"},
               NEW label, Goto(r, label), label \notin {"save_count", "delete_count"}
        PROVE  Stutter
    BY <2>6, CatalogStutter DEF Goto, TypeOK
  <2>7. CASE \/ Arrive(r) \/ RejectNoDefinition(r) \/ InitConfig(r) \/ CheckModel(r)
             \/ LockModels(r) \/ LoadModel(r) \/ BuildIndex(r) \/ LockToSave(r)
             \/ InitConfigPanics(r)
    BY <2>6, <2>7
       DEF Arrive, RejectNoDefinition, InitConfig, InitConfigPanics, CheckModel, LockModels,
           LoadModel, BuildIndex, LockToSave, Answer, shared
  <2>8. CASE LookupConfig(r) \/ CacheConfig(r)
    <3>1. resume[r] \in {"dispatch", "rewrite"}
      BY DEF TypeOK
    <3> QED
      BY <2>6, <2>8, <3>1 DEF LookupConfig, CacheConfig, shared
  <2>9. CASE SelectAndRewrite(r)
    BY <2>6, <2>9
       DEF SelectAndRewrite, RefuseQuery, StartSelection, ReadIndex, NoIndexFound,
           ReadConfig, SelectOperation, SelectUnknownOperation, SelectNothing,
           RewriteQuery, Answer, shared
  <2>10. CASE \/ LockToDelete(r) \/ DropConfig(r) \/ LockToUpdate(r)
    BY <2>6, <2>10 DEF LockToDelete, DropConfig, LockToUpdate, Answer, shared
  <2>11. CASE DeleteKeyFails(r)
    <3>1. store' = store
      <4>1. (store[call[r].api] = Nil /\ UNCHANGED store) \/ UNCHANGED store
        BY <2>11 DEF DeleteKeyFails
      <4> QED
        BY <4>1
    <3> QED
      BY <2>6, <2>11, <3>1 DEF DeleteKeyFails, Answer
  <2> QED
    BY <1>3, <2>1, <2>2, <2>3, <2>4, <2>5, <2>7, <2>8, <2>9, <2>10, <2>11
       DEF Step, FindPlugin, ConfigureApi
<1> QED
  BY <1>1, <1>2, <1>3 DEF Next

\* Unless Redis loses the reply to a deletion it has carried out, the handlers
\* keep the promise of ServiceCatalog: every change of the catalogue is
\* announced by one increment of storeVersion, before the next change.
THEOREM ImplementsCatalog ==
    ASSUME "lost_reply" \notin Fault
    PROVE  Spec => CatalogImplemented
<1>1. Init => Catalog!CatalogInit
  BY DEF Init, MemoryEmpty, Catalog!CatalogInit, Unannounced
<1>2. IInv /\ [Next]_vars => [Catalog!CatalogNext]_(Catalog!catalogVars)
  BY CatalogStep
<1> QED
  BY <1>1, <1>2, Invariance, PTL DEF Spec, CatalogImplemented, Catalog!CatalogSpec

-----------------------------------------------------------------------------
(* Without deletions a cached configuration is never a dead end.           *)

Indexed == {"save_lock", "save_key", "save_count", "save_assign", "cache"}
Saved   == {"save_count", "save_assign", "cache"}
Deleting == {"delete_key", "delete_count", "delete_assign", "delete_drop"}

\* What a request has built before it publishes the configuration stays.
ServableInv ==
    /\ AllServable
    /\ \A r \in Request :
          /\ pc[r] \notin Deleting
          /\ pc[r] \in Indexed /\ SelectOperations(call[r].def) # {}
                => apiSpecIndices[call[r].api] # Nil
          /\ pc[r] \in Saved => store[call[r].api] # Nil

LEMMA ServableExit == ProcessExit => ServableInv'
BY DEF ProcessExit, ServableInv, AllServable, Indexed, Saved, Deleting

\* Steps that leave the caches and the store alone and take the request to a
\* place where nothing more is required.
LEMMA ServableMove ==
    ASSUME IInv, ServableInv, NEW r \in Request, NEW label,
           UNCHANGED <<pluginConfig, apiSpecIndices, store>>,
           Goto(r, label), label \notin Deleting,
           \A p \in Request \ {r} : call'[p] = call[p],
           \/ label \notin Indexed
           \/ UNCHANGED call /\ pc[r] \in Indexed /\ (label \in Saved => pc[r] \in Saved)
    PROVE  ServableInv'
<1>1. \A p \in Request : pc'[p] = IF p = r THEN label ELSE pc[p]
  BY DEF Goto, IInv, TypeOK
<1>2. AllServable'
  BY DEF ServableInv, AllServable, Servable
<1>3. ASSUME NEW p \in Request \ {r}
      PROVE  /\ pc'[p] \notin Deleting
             /\ pc'[p] \in Indexed /\ SelectOperations(call'[p].def) # {}
                   => apiSpecIndices'[call'[p].api] # Nil
             /\ pc'[p] \in Saved => store'[call'[p].api] # Nil
  BY <1>1, <1>3 DEF ServableInv
<1>4. /\ pc'[r] \notin Deleting
      /\ pc'[r] \in Indexed /\ SelectOperations(call'[r].def) # {}
            => apiSpecIndices'[call'[r].api] # Nil
      /\ pc'[r] \in Saved => store'[call'[r].api] # Nil
  BY <1>1 DEF ServableInv, Indexed, Saved
<1> QED
  BY <1>2, <1>3, <1>4 DEF ServableInv

LEMMA ServableStep ==
    ASSUME NoDeletion, IInv, ServableInv, [Next]_vars
    PROVE  ServableInv'
<1>1. CASE Kill
  BY <1>1, ServableExit DEF Kill
<1>2. CASE UNCHANGED vars
  BY <1>2 DEF vars, shared, locals, ServableInv, AllServable, Servable
<1>3. ASSUME NEW r \in Request, Arrive(r) \/ Step(r) PROVE ServableInv'
  <2>1. \A p \in Request : pc[p] # "idle" =>
           call[p].api \in Api /\ call[p].kind # "delete"
    BY DEF NoDeletion, IInv, CallInv, Calls
  <2>2. CASE InitConfigFatal(r) \/ LoadModelFatal(r) \/ SaveKeyFatal(r)
    BY <2>2, ServableExit DEF InitConfigFatal, LoadModelFatal, SaveKeyFatal
  <2>3. CASE InitConfig(r)
    <3>1. CASE SelectOperations(call[r].def) # {}
      BY <2>3, <3>1, ServableMove DEF InitConfig, shared, locals, Indexed, Deleting
    <3>2. CASE SelectOperations(call[r].def) = {}
      <4>1. \A p \in Request : pc'[p] = IF p = r THEN "save_lock" ELSE pc[p]
        BY <2>3, <3>2 DEF InitConfig, Goto, IInv, TypeOK
      <4> QED
        BY <2>3, <3>2, <4>1
           DEF InitConfig, shared, locals, ServableInv, AllServable, Servable,
               Indexed, Saved, Deleting
    <3> QED
      BY <3>1, <3>2
  <2>4. CASE BuildIndex(r)
    <3>1. PICK ops \in SUBSET SelectOperations(call[r].def) :
              apiSpecIndices' = [apiSpecIndices EXCEPT ![call[r].api] = ops]
      BY <2>4 DEF BuildIndex
    <3>2. ops # Nil
      BY <2>4, SelectedAreOperations DEF BuildIndex, IInv, CallInv
    <3>3. \A a \in Api : apiSpecIndices'[a] = IF a = call[r].api THEN ops ELSE apiSpecIndices[a]
      BY <3>1 DEF IInv, TypeOK
    <3>4. \A p \in Request : pc'[p] = IF p = r THEN "save_lock" ELSE pc[p]
      BY <2>4 DEF BuildIndex, Goto, IInv, TypeOK
    <3>5. UNCHANGED <<pluginConfig, store, call>>
      BY <2>4 DEF BuildIndex, locals
    <3>6. AllServable'
      BY <3>2, <3>3, <3>5 DEF ServableInv, AllServable, Servable
    <3>7. \A p \in Request : pc[p] \in Indexed \cup {"index"} => call[p].api \in Api
      BY <2>1 DEF Indexed
    <3> QED
      BY <2>4, <3>2, <3>3, <3>4, <3>5, <3>6, <3>7
         DEF BuildIndex, ServableInv, Indexed, Saved, Deleting
  <2>5. CASE SaveKey(r)
    <3>1. call[r].def \in Definition /\ call[r].def # Nil
      BY <2>5, ConfigAssumption DEF SaveKey, IInv, CallInv
    <3>2. \A a \in Api : store'[a] = IF a = call[r].api THEN call[r].def ELSE store[a]
      BY <2>5 DEF SaveKey, IInv, TypeOK
    <3>3. \A p \in Request : pc'[p] = IF p = r THEN "save_count" ELSE pc[p]
      BY <2>5 DEF SaveKey, Goto, IInv, TypeOK
    <3>4. UNCHANGED <<pluginConfig, apiSpecIndices, call>>
      BY <2>5 DEF SaveKey, locals
    <3>5. AllServable'
      BY <3>1, <3>2, <3>4 DEF ServableInv, AllServable, Servable
    <3>6. \A p \in Request : pc[p] \in Indexed => call[p].api \in Api
      BY <2>1 DEF Indexed
    <3> QED
      BY <2>5, <3>1, <3>2, <3>3, <3>4, <3>5, <3>6
         DEF SaveKey, ServableInv, Indexed, Saved, Deleting
  <2>6. CASE CacheConfig(r)
    <3>1. call[r].api \in Api /\ call[r].def \in Definition
      BY <2>1, <2>6 DEF CacheConfig, IInv, CallInv
    <3>2. \A a \in Api : pluginConfig'[a] = IF a = call[r].api THEN call[r].def
                                             ELSE pluginConfig[a]
      BY <2>6 DEF CacheConfig, IInv, TypeOK
    <3>3. \A p \in Request : pc'[p] = IF p = r THEN resume[r] ELSE pc[p]
      BY <2>6 DEF CacheConfig, Goto, IInv, TypeOK
    <3>4. UNCHANGED <<apiSpecIndices, store, call>>
      BY <2>6 DEF CacheConfig, locals
    <3>5. resume[r] \in {"dispatch", "rewrite"}
      BY DEF IInv, TypeOK
    <3>6. AllServable'
      BY <2>6, <3>1, <3>2, <3>4
         DEF CacheConfig, ServableInv, AllServable, Servable, Indexed, Saved
    <3> QED
      BY <3>3, <3>4, <3>5, <3>6 DEF ServableInv, Indexed, Saved, Deleting
  <2>7. CASE SaveCount(r) \/ SaveAssign(r) \/ LockToSave(r)
    BY <2>7, ServableMove
       DEF SaveCount, CountChange, SaveAssign, LockToSave, shared, locals, Indexed, Saved,
           Deleting
  <2>8. CASE LookupConfig(r)
    <3>1. resume[r] \in {"dispatch", "rewrite"}
      BY DEF IInv, TypeOK
    <3> QED
      BY <2>8, <3>1, ServableMove DEF LookupConfig, shared, locals, Indexed, Deleting
  <2>9. CASE Arrive(r)
    <3>1. \A p \in Request \ {r} : call'[p] = call[p]
      BY <2>9 DEF Arrive, IInv, TypeOK
    <3> QED
      BY <2>9, <3>1, ServableMove DEF Arrive, shared, Indexed, Deleting
  <2>10. CASE \/ CheckModel(r) \/ LockModels(r) \/ LoadModel(r) \/ LockToUpdate(r)
              \/ StartSelection(r) \/ ReadIndex(r) \/ SelectOperation(r)
    BY <2>10, ServableMove
       DEF CheckModel, LockModels, LoadModel, LockToUpdate, StartSelection, ReadIndex,
           SelectOperation, shared, locals, Indexed, Deleting
  <2>11. ASSUME NEW answer, Answer(r, answer), UNCHANGED shared
         PROVE  ServableInv'
    <3>1. \A p \in Request \ {r} : call'[p] = call[p]
      BY <2>11 DEF Answer, IInv, TypeOK
    <3> QED
      BY <2>11, <3>1, ServableMove DEF Answer, shared, Indexed, Deleting
  <2>12. CASE \/ RejectNoDefinition(r) \/ InitConfigPanics(r)
              \/ RefuseQuery(r) \/ NoIndexFound(r)
              \/ SelectUnknownOperation(r) \/ SelectNothing(r) \/ RewriteQuery(r)
    BY <2>11, <2>12
       DEF RejectNoDefinition, InitConfigPanics, RefuseQuery, NoIndexFound, SelectUnknownOperation,
           SelectNothing, RewriteQuery
  <2>13. CASE ReadConfig(r)
    <3>1. CASE pluginConfig[call[r].api] # Nil
      BY <2>13, <3>1, ServableMove DEF ReadConfig, shared, locals, Indexed, Deleting
    <3>2. CASE pluginConfig[call[r].api] = Nil
      BY <2>11, <2>13, <3>2 DEF ReadConfig
    <3> QED
      BY <3>1, <3>2
  <2>14. ~ConfigureApi(r) \/ LockToUpdate(r)
    BY <2>1 DEF ConfigureApi, LockToDelete, DeleteKey, DeleteKeyFails, DeleteCount,
                CountChange, DeleteAssign, DropConfig, ServableInv, Deleting
  <2> QED
    BY <1>3, <2>2, <2>3, <2>4, <2>5, <2>6, <2>7, <2>8, <2>9, <2>10, <2>12, <2>13, <2>14
       DEF Step, FindPlugin, SelectAndRewrite
<1> QED
  BY <1>1, <1>2, <1>3 DEF Next

\* As long as no API is deleted, whatever requests race to initialise it and
\* whatever fails, a cached configuration has its index and its entry in the
\* catalogue.
THEOREM ServableWithoutDeletion == Spec => ServableConfig
<1>1. Init => ServableInv
  BY DEF Init, MemoryEmpty, ServableInv, AllServable, Indexed, Saved, Deleting
<1>2. NoDeletion /\ IInv /\ ServableInv /\ [Next]_vars => ServableInv'
  BY ServableStep
<1>3. ServableInv => AllServable
  BY DEF ServableInv
<1> QED
  BY <1>1, <1>2, <1>3, Invariance, PTL DEF Spec, ServableConfig

-----------------------------------------------------------------------------
(* One request at a time: what the initialisation and the deletion of an   *)
(* API do is complete when the request has been answered.                  *)

OneRequest == \E r \in Request : Request = {r}

Initialising == {"init", "model", "model_lock", "model_load", "index"}
Deleted == {"delete_count", "delete_assign", "delete_drop"}

\* Where the parts of the API that a request works on may disagree.
Changing == {"save_lock", "save_key"} \cup Saved \cup Deleted

\* An index that belongs to a definition.
IndexFits(ops, d) ==
    /\ ops \in (SUBSET SelectOperations(d)) \cup {Nil}
    /\ SelectOperations(d) # {} => ops # Nil

Tidy(a) ==
    /\ pluginConfig[a] = Nil => apiSpecIndices[a] = Nil
    /\ pluginConfig[a] # Nil =>
          /\ store[a] = pluginConfig[a]
          /\ IndexFits(apiSpecIndices[a], pluginConfig[a])

\* A PUT goes through its initialisation with the lock, and no further.
SequentialInv(r) ==
    /\ \A a \in Api : a # call[r].api \/ pc[r] \notin Changing => Tidy(a)
    /\ pc[r] \in Initialising => pluginConfigLock = r \/ pluginConfig[call[r].api] = Nil
    /\ pc[r] = "save_lock" =>
          pluginConfigLock = r \/ IndexFits(apiSpecIndices[call[r].api], call[r].def)
    /\ pc[r] \in {"save_key"} \cup Saved =>
          IndexFits(apiSpecIndices[call[r].api], call[r].def)
    /\ pc[r] \in Saved => store[call[r].api] = call[r].def
    /\ pc[r] \in {"dispatch", "delete_key"} => pluginConfig[call[r].api] # Nil
    /\ pc[r] \in Deleted => store[call[r].api] = Nil

LEMMA SequentialEmpty ==
    ASSUME NEW r \in Request, pc[r] = "idle",
           pluginConfig = [a \in Api |-> Nil], apiSpecIndices = [a \in Api |-> Nil]
    PROVE  SequentialInv(r)
BY DEF SequentialInv, Tidy, Changing, Initialising, Saved, Deleted

LEMMA SequentialExit ==
    ASSUME NEW r \in Request, ProcessExit
    PROVE  SequentialInv(r)'
BY DEF ProcessExit, SequentialInv, Tidy, Changing, Initialising, Saved, Deleted

\* Steps that leave the caches and the store alone and take the request to a
\* place that requires nothing but a tidy state.
LEMMA SequentialMove ==
    ASSUME IInv, NEW r \in Request, SequentialInv(r), NEW label, Goto(r, label),
           UNCHANGED <<pluginConfig, apiSpecIndices, store>>,
           pc[r] \notin Changing, label \notin Changing,
           label \in Initialising =>
               pluginConfigLock' = r \/ pluginConfig[call'[r].api] = Nil,
           label \in {"dispatch", "delete_key"} => pluginConfig[call'[r].api] # Nil
    PROVE  SequentialInv(r)'
<1>1. pc'[r] = label
  BY DEF Goto, IInv, TypeOK
<1>2. \A a \in Api : Tidy(a)'
  BY DEF SequentialInv, Tidy
<1> QED
  BY <1>1, <1>2 DEF SequentialInv, Changing, Saved

LEMMA SequentialFind ==
    ASSUME IInv, NEW r \in Request, SequentialInv(r), FindPlugin(r)
    PROVE  SequentialInv(r)'
<1>1. pc[r] # "idle" /\ call[r] \in Calls
  BY DEF FindPlugin, RejectNoDefinition, LookupConfig, InitConfig, InitConfigFatal,
         InitConfigPanics, CheckModel, LockModels, LoadModel, LoadModelFatal, BuildIndex, LockToSave, SaveKey, SaveKeyFatal,
         SaveCount, CountChange, SaveAssign, CacheConfig, IInv, CallInv
<1>2. call[r].api \in Api
  BY <1>1 DEF Calls
<1>3. CASE InitConfigFatal(r) \/ LoadModelFatal(r) \/ SaveKeyFatal(r)
  BY <1>3, SequentialExit DEF InitConfigFatal, LoadModelFatal, SaveKeyFatal
<1>4. CASE RejectNoDefinition(r) \/ InitConfigPanics(r)
  BY <1>4, SequentialMove DEF RejectNoDefinition, InitConfigPanics, Answer, shared, Changing, Saved, Deleted,
                              Initialising
<1>5. CASE LookupConfig(r)
  <2>1. resume[r] \in {"dispatch", "rewrite"}
    BY DEF IInv, TypeOK
  <2> QED
    BY <1>5, <2>1, SequentialMove DEF LookupConfig, shared, locals, Changing, Saved, Deleted,
                                      Initialising
<1>6. CASE InitConfig(r)
  <2>1. CASE SelectOperations(call[r].def) # {}
    BY <1>6, <2>1, SequentialMove
       DEF InitConfig, SequentialInv, shared, locks, locals, Changing, Saved, Deleted, Initialising
  <2>2. CASE SelectOperations(call[r].def) = {}
    <3>1. pc[r] = "init" /\ pc'[r] = "save_lock" /\ UNCHANGED <<shared, locks, locals>>
      BY <1>6, <2>2 DEF InitConfig, Goto, IInv, TypeOK
    <3>2. pluginConfigLock = r \/ apiSpecIndices[call[r].api] = Nil
      BY <1>2, <3>1 DEF SequentialInv, Initialising, Changing, Saved, Deleted, Tidy
    <3>3. apiSpecIndices[call[r].api] = Nil => IndexFits(apiSpecIndices[call[r].api], call[r].def)
      BY <2>2 DEF IndexFits
    <3> QED
      BY <3>1, <3>2, <3>3
         DEF SequentialInv, shared, locks, locals, Changing, Saved, Deleted, Initialising, Tidy
  <2> QED
    BY <2>1, <2>2
<1>7. CASE CheckModel(r) \/ LockModels(r) \/ LoadModel(r)
  BY <1>7, SequentialMove
     DEF CheckModel, LockModels, LoadModel, SequentialInv, shared, locks, locals, Changing, Saved,
         Deleted, Initialising
<1>8. CASE BuildIndex(r)
  <2>1. PICK ops \in SUBSET SelectOperations(call[r].def) :
            apiSpecIndices' = [apiSpecIndices EXCEPT ![call[r].api] = ops]
    BY <1>8 DEF BuildIndex
  <2>2. ops # Nil
    BY <1>8, SelectedAreOperations DEF BuildIndex, IInv, CallInv
  <2>3. /\ apiSpecIndices'[call[r].api] = ops
        /\ \A a \in Api \ {call[r].api} : apiSpecIndices'[a] = apiSpecIndices[a]
    BY <1>2, <2>1 DEF IInv, TypeOK
  <2>4. /\ pc[r] = "index" /\ pc'[r] = "save_lock"
        /\ UNCHANGED <<pluginConfig, store, locks, call>>
    BY <1>8 DEF BuildIndex, Goto, locals, IInv, TypeOK
  <2>5. IndexFits(ops, call[r].def)
    BY <2>2 DEF IndexFits
  <2>6. \A a \in Api \ {call[r].api} : Tidy(a)'
    BY <2>3, <2>4 DEF SequentialInv, Tidy
  <2> QED
    BY <2>3, <2>4, <2>5, <2>6 DEF SequentialInv, Changing, Saved, Deleted, Initialising
<1>9. CASE LockToSave(r)
  <2>1. /\ pc[r] = "save_lock" /\ pc'[r] = "save_key" /\ UNCHANGED <<shared, locals>>
        /\ pluginConfigLock # r
    BY <1>9, ConfigAssumption DEF LockToSave, Goto, IInv, TypeOK
  <2> QED
    BY <2>1 DEF SequentialInv, shared, locals, Changing, Saved, Deleted, Initialising, Tidy
<1>10. CASE SaveKey(r)
  <2>1. /\ store'[call[r].api] = call[r].def
        /\ \A a \in Api \ {call[r].api} : store'[a] = store[a]
        /\ pc[r] = "save_key" /\ pc'[r] = "save_count"
        /\ UNCHANGED <<pluginConfig, apiSpecIndices, call>>
    BY <1>2, <1>10 DEF SaveKey, Goto, locals, IInv, TypeOK
  <2>2. \A a \in Api \ {call[r].api} : Tidy(a)'
    BY <2>1 DEF SequentialInv, Tidy
  <2> QED
    BY <2>1, <2>2 DEF SequentialInv, Changing, Saved, Deleted, Initialising
<1>11. CASE SaveCount(r) \/ SaveAssign(r)
  <2>1. /\ pc[r] \in Saved /\ pc'[r] \in Saved
        /\ UNCHANGED <<pluginConfig, apiSpecIndices, store, call>>
    BY <1>11 DEF SaveCount, CountChange, SaveAssign, Goto, Saved, IInv, TypeOK
  <2> QED
    BY <2>1 DEF SequentialInv, Changing, Saved, Deleted, Initialising, Tidy
<1>12. CASE CacheConfig(r)
  <2>1. call[r].def # Nil
    BY <1>12, ConfigAssumption DEF CacheConfig, IInv, CallInv
  <2>2. /\ pluginConfig'[call[r].api] = call[r].def
        /\ \A a \in Api \ {call[r].api} : pluginConfig'[a] = pluginConfig[a]
        /\ pc[r] = "cache" /\ pc'[r] \in {"dispatch", "rewrite"}
        /\ UNCHANGED <<apiSpecIndices, store, call>>
    BY <1>2, <1>12 DEF CacheConfig, Goto, locals, IInv, TypeOK
  <2>3. \A a \in Api : Tidy(a)'
    BY <2>1, <2>2 DEF SequentialInv, Tidy, Saved
  <2> QED
    BY <2>1, <2>2, <2>3 DEF SequentialInv, Changing, Saved, Deleted, Initialising
<1> QED
  BY <1>3, <1>4, <1>5, <1>6, <1>7, <1>8, <1>9, <1>10, <1>11, <1>12 DEF FindPlugin

LEMMA SequentialSelect ==
    ASSUME IInv, NEW r \in Request, SequentialInv(r), SelectAndRewrite(r)
    PROVE  SequentialInv(r)'
<1> USE DEF shared, Changing, Saved, Deleted, Initialising
<1>1. CASE StartSelection(r) \/ ReadIndex(r) \/ SelectOperation(r)
  BY <1>1, SequentialMove DEF StartSelection, ReadIndex, SelectOperation
<1>2. CASE ReadConfig(r)
  BY <1>2, SequentialMove DEF ReadConfig, Answer
<1>3. CASE RefuseQuery(r) \/ NoIndexFound(r) \/ SelectUnknownOperation(r)
           \/ SelectNothing(r) \/ RewriteQuery(r)
  BY <1>3, SequentialMove
     DEF RefuseQuery, NoIndexFound, SelectUnknownOperation, SelectNothing, RewriteQuery, Answer
<1> QED
  BY <1>1, <1>2, <1>3 DEF SelectAndRewrite

LEMMA SequentialConfigure ==
    ASSUME "lost_reply" \notin Fault, IInv, NEW r \in Request, SequentialInv(r),
           ConfigureApi(r)
    PROVE  SequentialInv(r)'
<1>1. pc[r] # "idle" /\ call[r] \in Calls
  BY DEF ConfigureApi, LockToDelete, DeleteKey, DeleteKeyFails, DeleteCount, CountChange,
         DeleteAssign, DropConfig, LockToUpdate, IInv, CallInv
<1>2. call[r].api \in Api
  BY <1>1 DEF Calls
<1>3. CASE LockToDelete(r)
  <2>1. pluginConfig[call[r].api] # Nil
    BY <1>3 DEF LockToDelete, SequentialInv
  <2> QED
    BY <1>3, <2>1, SequentialMove
       DEF LockToDelete, shared, locals, Changing, Saved, Deleted, Initialising
<1>4. CASE LockToUpdate(r)
  <2>1. pluginConfigLock' = r /\ Goto(r, "init")
    BY <1>4 DEF LockToUpdate
  <2> QED
    BY <1>4, <2>1, SequentialMove
       DEF LockToUpdate, shared, locals, Changing, Saved, Deleted, Initialising
<1>5. CASE DeleteKey(r)
  <2>1. /\ store'[call[r].api] = Nil
        /\ \A a \in Api \ {call[r].api} : store'[a] = store[a]
        /\ pc[r] = "delete_key" /\ pc'[r] = "delete_count"
        /\ UNCHANGED <<pluginConfig, apiSpecIndices, call>>
    BY <1>2, <1>5 DEF DeleteKey, Goto, locals, IInv, TypeOK
  <2>2. \A a \in Api \ {call[r].api} : Tidy(a)'
    BY <2>1 DEF SequentialInv, Tidy
  <2> QED
    BY <2>1, <2>2 DEF SequentialInv, Changing, Saved, Deleted, Initialising
<1>6. CASE DeleteKeyFails(r)
  BY <1>6, SequentialMove
     DEF DeleteKeyFails, Answer, Changing, Saved, Deleted, Initialising
<1>7. CASE DeleteCount(r) \/ DeleteAssign(r)
  <2>1. /\ pc[r] \in Deleted /\ pc'[r] \in Deleted
        /\ UNCHANGED <<pluginConfig, apiSpecIndices, store, call>>
    BY <1>7 DEF DeleteCount, CountChange, DeleteAssign, Goto, Deleted, locals, IInv, TypeOK
  <2> QED
    BY <2>1 DEF SequentialInv, Changing, Saved, Deleted, Initialising, Tidy
<1>8. CASE DropConfig(r)
  <2>1. /\ pluginConfig'[call[r].api] = Nil /\ apiSpecIndices'[call[r].api] = Nil
        /\ \A a \in Api \ {call[r].api} : /\ pluginConfig'[a] = pluginConfig[a]
                                         /\ apiSpecIndices'[a] = apiSpecIndices[a]
        /\ pc'[r] = "idle" /\ UNCHANGED store
    BY <1>2, <1>8 DEF DropConfig, Answer, Goto, IInv, TypeOK
  <2>2. \A a \in Api : Tidy(a)'
    BY <2>1 DEF SequentialInv, Tidy
  <2> QED
    BY <2>1, <2>2 DEF SequentialInv, Changing, Saved, Deleted, Initialising
<1> QED
  BY <1>3, <1>4, <1>5, <1>6, <1>7, <1>8 DEF ConfigureApi

LEMMA SequentialNext ==
    ASSUME "lost_reply" \notin Fault, NEW r \in Request, Request = {r}
    PROVE  IInv /\ SequentialInv(r) /\ [Next]_vars => SequentialInv(r)'
<1> SUFFICES ASSUME IInv, SequentialInv(r), [Next]_vars PROVE SequentialInv(r)'
  OBVIOUS
<1>1. CASE Kill
  BY <1>1, SequentialExit DEF Kill
<1>2. CASE Arrive(r)
  BY <1>2, SequentialMove DEF Arrive, shared, Changing, Saved, Deleted, Initialising
<1>3. CASE Step(r)
  BY <1>3, SequentialFind, SequentialSelect, SequentialConfigure DEF Step
<1>4. CASE UNCHANGED vars
  BY <1>4 DEF vars, shared, locks, locals, SequentialInv, Tidy
<1> QED
  BY <1>1, <1>2, <1>3, <1>4 DEF Next

LEMMA SequentialInvariance ==
    ASSUME "lost_reply" \notin Fault, NEW r \in Request, Request = {r}
    PROVE  Spec => [](IInv /\ SequentialInv(r))
<1>1. Init => SequentialInv(r)
  BY SequentialEmpty DEF Init, MemoryEmpty
<1>2. IInv /\ SequentialInv(r) /\ [Next]_vars => SequentialInv(r)'
  BY SequentialNext
<1> QED
  BY <1>1, <1>2, Invariance, PTL DEF Spec

\* With one request at a time, unless Redis loses the reply to a deletion, a
\* cached configuration can be used between requests: the API is registered
\* and, if it has operations to select, indexed.
THEOREM ServableForOne ==
    ASSUME "lost_reply" \notin Fault, OneRequest
    PROVE  Spec => []ServableAtRest
<1>1. PICK r \in Request : Request = {r}
  BY DEF OneRequest
<1>2. SequentialInv(r) => ServableAtRest
  BY <1>1 DEF SequentialInv, Tidy, IndexFits, Changing, Saved, Deleted, ServableAtRest, Quiet,
              AllServable, Servable
<1> QED
  BY <1>1, <1>2, SequentialInvariance, PTL

\* Under the same conditions, what is cached, indexed and registered for an
\* API between requests comes from one definition.
THEOREM OneDefinitionForOne ==
    ASSUME "lost_reply" \notin Fault, OneRequest
    PROVE  Spec => []OneDefinitionAtRest
<1>1. PICK r \in Request : Request = {r}
  BY DEF OneRequest
<1>2. SequentialInv(r) => OneDefinitionAtRest
  BY <1>1 DEF SequentialInv, Tidy, IndexFits, Changing, Saved, Deleted, OneDefinitionAtRest, Quiet
<1> QED
  BY <1>1, <1>2, SequentialInvariance, PTL

\* An answer "ok" to the DELETE of the one request comes from DropConfig or
\* from DeleteKeyFails.
LEMMA DeleteOk ==
    ASSUME IInv, NEW r \in Request, Request = {r}, [Next]_vars, call[r].kind = "delete",
           reply'[r] = "ok", reply[r] # "ok"
    PROVE  DropConfig(r) \/ DeleteKeyFails(r)
<1>1. ~Kill /\ ~(InitConfigFatal(r) \/ LoadModelFatal(r) \/ SaveKeyFatal(r))
  BY DEF Kill, InitConfigFatal, LoadModelFatal, SaveKeyFatal, ProcessExit
<1>2. ~Arrive(r) /\ ~UNCHANGED reply
  BY DEF Arrive, IInv, TypeOK
<1>3. ~FindPlugin(r)
  BY <1>1, <1>2
     DEF FindPlugin, RejectNoDefinition, LookupConfig, InitConfig, InitConfigPanics,
         CheckModel, LockModels,
         LoadModel, BuildIndex, LockToSave, SaveKey, SaveCount, CountChange, SaveAssign,
         CacheConfig, Answer, locals, IInv, TypeOK
<1>4. ~SelectAndRewrite(r)
  BY <1>2
     DEF SelectAndRewrite, RefuseQuery, StartSelection, ReadIndex, NoIndexFound, ReadConfig,
         SelectOperation, SelectUnknownOperation, SelectNothing, RewriteQuery, Answer, locals,
         IInv, TypeOK
<1>5. ConfigureApi(r) => DropConfig(r) \/ DeleteKeyFails(r)
  BY <1>2 DEF ConfigureApi, LockToDelete, DeleteKey, DeleteCount, CountChange, DeleteAssign,
              LockToUpdate, locals
<1> QED
  BY <1>1, <1>2, <1>3, <1>4, <1>5 DEF Next, Step, vars, locals

\* Under the same conditions a DELETE is never half done: it removes the
\* configuration, the index and the entry in the catalogue, or none of them.
THEOREM DeleteAllOrNothingForOne ==
    ASSUME "lost_reply" \notin Fault, OneRequest
    PROVE  Spec => DeleteAllOrNothing
<1>1. PICK r \in Request : Request = {r}
  BY DEF OneRequest
<1>2. ASSUME IInv, SequentialInv(r), SequentialInv(r)', [Next]_vars,
             NEW a \in Api, AnsweredDelete(r, a)
      PROVE  \/ pluginConfig'[a] = Nil /\ apiSpecIndices'[a] = Nil /\ store'[a] = Nil
             \/ pluginConfig'[a] # Nil /\ Servable(a)'
  <2>1. CASE DropConfig(r)
    BY <1>2, <2>1 DEF AnsweredDelete, DropConfig, SequentialInv, Deleted, IInv, TypeOK
  <2>2. CASE DeleteKeyFails(r)
    <3>1. pluginConfig'[a] # Nil /\ pc'[r] = "idle"
      BY <1>2, <2>2
         DEF AnsweredDelete, DeleteKeyFails, Answer, Goto, SequentialInv, IInv, TypeOK
    <3>2. Tidy(a)'
      BY <1>2, <3>1 DEF SequentialInv, Changing, Saved, Deleted
    <3> QED
      BY <3>1, <3>2 DEF Tidy, IndexFits, Servable
  <2> QED
    BY <1>1, <1>2, <2>1, <2>2, DeleteOk DEF AnsweredDelete
<1>3. IInv /\ SequentialInv(r) /\ (SequentialInv(r))' /\ [Next]_vars => [AllOrNothing]_vars
  BY <1>1, <1>2 DEF AllOrNothing
<1> QED
  BY <1>1, <1>3, SequentialInvariance, PTL DEF Spec, DeleteAllOrNothing

=============================================================================
