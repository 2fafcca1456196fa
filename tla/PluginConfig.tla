---------------------------- MODULE PluginConfig ----------------------------
(***************************************************************************)
(* The per-API configuration cache of the plugin: pluginConfig,            *)
(* apiSpecIndices, embeddingModels, the Redis store and storeVersion, with *)
(* the locks that guard them, under concurrent HTTP requests               *)
(* (plugins/agent_bridge.go, agent_bridge_config.go,                       *)
(* agent_bridge_storage.go, agent_bridge_endpoint_selection.go).           *)
(*                                                                         *)
(* One process per request in flight; one step per access to shared state. *)
(* A critical section that makes a single access is one step, guarded by   *)
(* the lock being free of a writer; a section that spans several accesses, *)
(* or an external call, holds the lock from step to step.                  *)
(* apiSpecIndicesLock and storeVersionLock only ever guard a single access *)
(* and are not modelled; where that access is made with pluginConfigLock   *)
(* in hand, it is a step of its own in that section.                       *)
(***************************************************************************)
EXTENDS Naturals

CONSTANTS
    Request,      \* slots for requests in flight
    Api,          \* API identifiers
    Definition,   \* the OpenAPI definitions the gateway may pass with a request
    Kind,         \* which requests clients send, a subset of Kinds
    Fault,        \* which external failures may happen, a subset of Faults
    VersionBound, \* no request arrives once storeVersion has reached it
    Nil           \* "absent": no entry, no definition, nobody

Kinds  == {"nlq", "delete", "put"}
Faults == {"kill", "model", "store", "lost_reply"}

\* A definition: whether the configuration in its Tyk extension is there and of
\* the types that initPluginFromRequest asserts, the operation ids of its
\* paths, and which of them have x-nl-input-examples.
Configs == {"complete", "missing", "ill_typed"}

ASSUME ConfigAssumption ==
    /\ \A d \in Definition :
          /\ d.config \in Configs
          /\ d.examples \subseteq d.paths
    /\ Kind \subseteq Kinds
    /\ Fault \subseteq Faults
    /\ VersionBound \in Nat
    /\ Nil \notin Definition
    /\ Nil \notin Request
    /\ \A d \in Definition : \A ops \in SUBSET d.paths : Nil # ops

VARIABLES
    pluginConfig,     \* api -> the definition its PluginDataConfig was built from
    apiSpecIndices,   \* api -> the operations its index can return
    vectorizers,      \* embedding models loaded so far; the map has the model iff > 0
    store,            \* agentBridgeStore (Redis), survives a restart
    storeVersion,
    pluginConfigLock, \* the request that holds it for writing
    embeddingModelsLock,
    pc,               \* where each request is
    call,             \* what each request asks: its kind, API and definition
    resume,           \* where getPluginFromRequest returns to
    counted,          \* the value safeIncrementStoreVersion returned
    found,            \* the index findSelectOperation has read
    reply             \* how the slot's last request was answered

shared == <<pluginConfig, apiSpecIndices, vectorizers, store, storeVersion>>
locks  == <<pluginConfigLock, embeddingModelsLock>>
locals == <<call, resume, counted, found, reply>>
vars   == <<shared, locks, pc, locals>>

-----------------------------------------------------------------------------

\* SelectOperations: the operations with examples or, when the definition
\* has none at all, every operation, by its description and summary.
SelectOperations(d) == IF d.examples # {} THEN d.examples ELSE d.paths

NoCall == [kind |-> "none", api |-> Nil, def |-> Nil]
Calls  == [kind : Kind, api : Api, def : Definition \cup {Nil}]

Labels == {"idle", "lookup", "init", "model", "model_lock", "model_load", "index",
           "save_lock", "save_key", "save_count", "save_assign", "cache",
           "dispatch", "select", "select_config", "search", "rewrite",
           "delete_key", "delete_count", "delete_assign", "delete_drop"}

Replies == {"none", "ok", "error", "too_large", "not_found", "rewritten", "unmodified",
            "panic"}

Operations == UNION {d.paths : d \in Definition}

TypeOK ==
    /\ pluginConfig \in [Api -> Definition \cup {Nil}]
    /\ apiSpecIndices \in [Api -> (SUBSET Operations) \cup {Nil}]
    /\ vectorizers \in Nat
    /\ store \in [Api -> Definition \cup {Nil}]
    /\ storeVersion \in Nat
    /\ pluginConfigLock \in Request \cup {Nil}
    /\ embeddingModelsLock \in Request \cup {Nil}
    /\ pc \in [Request -> Labels]
    /\ call \in [Request -> Calls \cup {NoCall}]
    /\ resume \in [Request -> {"dispatch", "rewrite"}]
    /\ counted \in [Request -> Nat]
    /\ found \in [Request -> SUBSET Operations]
    /\ reply \in [Request -> Replies]

MemoryEmpty ==
    /\ pluginConfig = [a \in Api |-> Nil]
    /\ apiSpecIndices = [a \in Api |-> Nil]
    /\ vectorizers = 0
    /\ storeVersion = 0
    /\ pluginConfigLock = Nil
    /\ embeddingModelsLock = Nil
    /\ pc = [r \in Request |-> "idle"]
    /\ call = [r \in Request |-> NoCall]
    /\ resume = [r \in Request |-> "dispatch"]
    /\ counted = [r \in Request |-> 0]
    /\ found = [r \in Request |-> {}]
    /\ reply = [r \in Request |-> "none"]

\* A gateway may start on a Redis that an earlier run has filled.
Init ==
    /\ MemoryEmpty
    /\ store \in [Api -> {d \in Definition : d.config = "complete"} \cup {Nil}]

-----------------------------------------------------------------------------
(* Control flow of one request.                                            *)

Goto(r, label) == pc' = [pc EXCEPT ![r] = label]

\* The slot forgets its request, so that only the answer remains visible.
Answer(r, answer) ==
    /\ Goto(r, "idle")
    /\ reply' = [reply EXCEPT ![r] = answer]
    /\ call' = [call EXCEPT ![r] = NoCall]
    /\ resume' = [resume EXCEPT ![r] = "dispatch"]
    /\ counted' = [counted EXCEPT ![r] = 0]
    /\ found' = [found EXCEPT ![r] = {}]

\* os.Exit, by logger.Fatalf or from outside, and the restart that follows:
\* the memory of the process is gone, Redis keeps what it has, and a write
\* whose reply never came may or may not have been applied.
ProcessExit ==
    /\ pluginConfig' = [a \in Api |-> Nil]
    /\ apiSpecIndices' = [a \in Api |-> Nil]
    /\ vectorizers' = 0
    /\ storeVersion' = 0
    /\ pluginConfigLock' = Nil
    /\ embeddingModelsLock' = Nil
    /\ pc' = [r \in Request |-> "idle"]
    /\ call' = [r \in Request |-> NoCall]
    /\ resume' = [r \in Request |-> "dispatch"]
    /\ counted' = [r \in Request |-> 0]
    /\ found' = [r \in Request |-> {}]
    /\ reply' = [r \in Request |-> "none"]

\* The router sends NLQ posts to selectAndRewrite and DELETE or PUT with
\* X-Nl-Config to processPluginConfig; both start with getPluginFromRequest.
Arrive(r) ==
    /\ pc[r] = "idle"
    /\ storeVersion < VersionBound
    /\ \E c \in Calls : call' = [call EXCEPT ![r] = c]
    /\ reply' = [reply EXCEPT ![r] = "none"]
    /\ Goto(r, "lookup")
    /\ UNCHANGED <<shared, locks, resume, counted, found>>

-----------------------------------------------------------------------------
(* getPluginFromRequest and initPluginFromRequest                          *)

\* getApiId fails: the request carries no OpenAPI definition.
RejectNoDefinition(r) ==
    /\ pc[r] = "lookup"
    /\ call[r].def = Nil
    /\ Answer(r, "error")
    /\ UNCHANGED <<shared, locks>>

LookupConfig(r) ==
    /\ pc[r] = "lookup"
    /\ call[r].def # Nil
    /\ pluginConfigLock = Nil
    /\ \/ pluginConfig[call[r].api] # Nil /\ Goto(r, resume[r])
       \/ pluginConfig[call[r].api] = Nil /\ Goto(r, "init")
    /\ UNCHANGED <<shared, locks, locals>>

\* Mutant: the configuration is published as soon as it is parsed.
InitConfigPublishesEarly(r) ==
    /\ pc[r] = "init"
    /\ call[r].def.config = "complete"
    /\ pluginConfig' = [pluginConfig EXCEPT ![call[r].api] = call[r].def]
    /\ Goto(r, IF SelectOperations(call[r].def) = {} THEN "save_lock" ELSE "model")
    /\ UNCHANGED <<apiSpecIndices, vectorizers, store, storeVersion, locks, locals>>

InitConfig(r) ==
    /\ pc[r] = "init"
    /\ call[r].def.config = "complete"
    /\ Goto(r, IF SelectOperations(call[r].def) = {} THEN "save_lock" ELSE "model")
    /\ UNCHANGED <<shared, locks, locals>>

\* A definition without the plugin's configuration, or without an OpenAI
\* key, ends in logger.Fatalf.
InitConfigFatal(r) ==
    /\ pc[r] = "init"
    /\ call[r].def.config = "missing"
    /\ ProcessExit
    /\ UNCHANGED store

\* A value that is not a string (getConfigValue), or examples that are not a
\* list, fail a type assertion. The panic ends the request and no other; the
\* deferred Unlock of a PUT releases its lock.
InitConfigPanics(r) ==
    /\ pc[r] = "init"
    /\ call[r].def.config = "ill_typed"
    /\ pluginConfigLock' = IF pluginConfigLock = r THEN Nil ELSE pluginConfigLock
    /\ Answer(r, "panic")
    /\ UNCHANGED <<shared, embeddingModelsLock>>

\* Mutant: a model that another request is still loading counts as loaded.
CheckModelLoading(r) ==
    /\ pc[r] = "model"
    /\ Goto(r, IF vectorizers > 0 \/ embeddingModelsLock # Nil THEN "index" ELSE "model_lock")
    /\ UNCHANGED <<shared, locks, locals>>

CheckModel(r) ==
    /\ pc[r] = "model"
    /\ embeddingModelsLock = Nil
    /\ Goto(r, IF vectorizers > 0 THEN "index" ELSE "model_lock")
    /\ UNCHANGED <<shared, locks, locals>>

\* Mutant: the presence of the model is not checked again.
LockModelsUnchecked(r) ==
    /\ pc[r] = "model_lock"
    /\ embeddingModelsLock = Nil
    /\ embeddingModelsLock' = r
    /\ Goto(r, "model_load")
    /\ UNCHANGED <<shared, pluginConfigLock, locals>>

\* The presence of the model is checked again under the write lock.
LockModels(r) ==
    /\ pc[r] = "model_lock"
    /\ embeddingModelsLock = Nil
    /\ \/ /\ vectorizers = 0
          /\ embeddingModelsLock' = r
          /\ Goto(r, "model_load")
       \/ /\ vectorizers > 0
          /\ UNCHANGED embeddingModelsLock
          /\ Goto(r, "index")
    /\ UNCHANGED <<shared, pluginConfigLock, locals>>

LoadModel(r) ==
    /\ pc[r] = "model_load"
    /\ vectorizers' = vectorizers + 1
    /\ embeddingModelsLock' = Nil
    /\ Goto(r, "index")
    /\ UNCHANGED <<pluginConfig, apiSpecIndices, store, storeVersion,
                   pluginConfigLock, locals>>

LoadModelFatal(r) ==
    /\ "model" \in Fault
    /\ pc[r] = "model_load"
    /\ ProcessExit
    /\ UNCHANGED store

\* initSelectOperations. Examples that are too long or that the model fails
\* to embed are skipped, so an operation may be missing from the index.
BuildIndex(r) ==
    /\ pc[r] = "index"
    /\ embeddingModelsLock = Nil
    /\ \E ops \in SUBSET SelectOperations(call[r].def) :
          apiSpecIndices' = [apiSpecIndices EXCEPT ![call[r].api] = ops]
    /\ Goto(r, "save_lock")
    /\ UNCHANGED <<pluginConfig, vectorizers, store, storeVersion, locks, locals>>

\* Mutant: the catalogue is written without waiting for the lock.
LockToSaveAtOnce(r) ==
    /\ pc[r] = "save_lock"
    /\ pluginConfigLock' = r
    /\ Goto(r, "save_key")
    /\ UNCHANGED <<shared, embeddingModelsLock, locals>>

\* saveApiUterances. The lock is not reentrant: a PUT comes here holding it.
LockToSave(r) ==
    /\ pc[r] = "save_lock"
    /\ pluginConfigLock = Nil
    /\ pluginConfigLock' = r
    /\ Goto(r, "save_key")
    /\ UNCHANGED <<shared, embeddingModelsLock, locals>>

SaveKey(r) ==
    /\ pc[r] = "save_key"
    /\ store' = [store EXCEPT ![call[r].api] = call[r].def]
    /\ Goto(r, "save_count")
    /\ UNCHANGED <<pluginConfig, apiSpecIndices, vectorizers, storeVersion, locks, locals>>

SaveKeyFatal(r) ==
    /\ "store" \in Fault
    /\ pc[r] = "save_key"
    /\ store' \in {store, [store EXCEPT ![call[r].api] = call[r].def]}
    /\ ProcessExit

\* Mutant: the version is decremented.
CountBack(r, from, to) ==
    /\ pc[r] = from
    /\ storeVersion' = storeVersion - 1
    /\ counted' = [counted EXCEPT ![r] = storeVersion - 1]
    /\ Goto(r, to)
    /\ UNCHANGED <<pluginConfig, apiSpecIndices, vectorizers, store, locks,
                   call, resume, found, reply>>

\* safeIncrementStoreVersion, atomic under storeVersionLock, whose holders
\* take no other lock ...
CountChange(r, from, to) ==
    /\ pc[r] = from
    /\ storeVersion' = storeVersion + 1
    /\ counted' = [counted EXCEPT ![r] = storeVersion + 1]
    /\ Goto(r, to)
    /\ UNCHANGED <<pluginConfig, apiSpecIndices, vectorizers, store, locks,
                   call, resume, found, reply>>

SaveCount(r) == CountChange(r, "save_count", "save_assign")

\* Mutant: the lock is not released.
SaveAssignLocked(r) ==
    /\ pc[r] = "save_assign"
    /\ storeVersion' = counted[r]
    /\ counted' = [counted EXCEPT ![r] = 0]
    /\ Goto(r, "cache")
    /\ UNCHANGED <<pluginConfig, apiSpecIndices, vectorizers, store, locks,
                   call, resume, found, reply>>

\* ... and its result assigned to storeVersion again, outside that lock.
SaveAssign(r) ==
    /\ pc[r] = "save_assign"
    /\ storeVersion' = counted[r]
    /\ counted' = [counted EXCEPT ![r] = 0]
    /\ pluginConfigLock' = Nil
    /\ Goto(r, "cache")
    /\ UNCHANGED <<pluginConfig, apiSpecIndices, vectorizers, store,
                   embeddingModelsLock, call, resume, found, reply>>

CacheConfig(r) ==
    /\ pc[r] = "cache"
    /\ pluginConfigLock = Nil
    /\ pluginConfig' = [pluginConfig EXCEPT ![call[r].api] = call[r].def]
    /\ Goto(r, resume[r])
    /\ UNCHANGED <<apiSpecIndices, vectorizers, store, storeVersion, locks, locals>>

-----------------------------------------------------------------------------
(* selectAndRewrite and findSelectOperation                                *)

\* The query exceeds MaxRequestLength, or its body cannot be read.
RefuseQuery(r) ==
    /\ pc[r] = "dispatch"
    /\ call[r].kind = "nlq"
    /\ \E answer \in {"too_large", "error"} : Answer(r, answer)
    /\ UNCHANGED <<shared, locks>>

StartSelection(r) ==
    /\ pc[r] = "dispatch"
    /\ call[r].kind = "nlq"
    /\ Goto(r, "select")
    /\ UNCHANGED <<shared, locks, locals>>

ReadIndex(r) ==
    /\ pc[r] = "select"
    /\ apiSpecIndices[call[r].api] # Nil
    /\ found' = [found EXCEPT ![r] = apiSpecIndices[call[r].api]]
    /\ Goto(r, "select_config")
    /\ UNCHANGED <<shared, locks, call, resume, counted, reply>>

NoIndexFound(r) ==
    /\ pc[r] = "select"
    /\ apiSpecIndices[call[r].api] = Nil
    /\ Answer(r, "error")
    /\ UNCHANGED <<shared, locks>>

\* The model, once loaded, is never removed: its lookup cannot fail.
ReadConfig(r) ==
    /\ pc[r] = "select_config"
    /\ pluginConfigLock = Nil
    /\ \/ /\ pluginConfig[call[r].api] # Nil
          /\ Goto(r, "search")
          /\ UNCHANGED locals
       \/ /\ pluginConfig[call[r].api] = Nil
          /\ Answer(r, "error")
    /\ UNCHANGED <<shared, locks>>

\* The best match is one of the indexed operations. The loop over the paths
\* of the request's own definition rewrites the request if it finds the
\* operation there, which starts with getPluginFromRequest again ...
SelectOperation(r) ==
    /\ pc[r] = "search"
    /\ \E op \in found[r] : op \in call[r].def.paths
    /\ resume' = [resume EXCEPT ![r] = "rewrite"]
    /\ found' = [found EXCEPT ![r] = {}]
    /\ Goto(r, "lookup")
    /\ UNCHANGED <<shared, locks, call, counted, reply>>

\* ... and if it does not, the handler returns without having done anything:
\* the gateway forwards the query as it came.
SelectUnknownOperation(r) ==
    /\ pc[r] = "search"
    /\ \E op \in found[r] : op \notin call[r].def.paths
    /\ Answer(r, "unmodified")
    /\ UNCHANGED <<shared, locks>>

\* No result or a score under the threshold; or the query is not embeddable.
SelectNothing(r) ==
    /\ pc[r] = "search"
    /\ \E answer \in {"not_found", "error"} : Answer(r, answer)
    /\ UNCHANGED <<shared, locks>>

\* The language model's translation is applied to the request, or it fails.
RewriteQuery(r) ==
    /\ pc[r] = "rewrite"
    /\ \E answer \in {"rewritten", "error"} : Answer(r, answer)
    /\ UNCHANGED <<shared, locks>>

-----------------------------------------------------------------------------
(* processPluginConfig: deletePluginConfig and updatePluginConfig          *)

LockToDelete(r) ==
    /\ pc[r] = "dispatch"
    /\ call[r].kind = "delete"
    /\ pluginConfigLock = Nil
    /\ pluginConfigLock' = r
    /\ Goto(r, IF pluginConfig[call[r].api] # Nil THEN "delete_key" ELSE "delete_drop")
    /\ UNCHANGED <<shared, embeddingModelsLock, locals>>

\* Mutant: a deletion is not counted.
DeleteKeyUncounted(r) ==
    /\ pc[r] = "delete_key"
    /\ store[call[r].api] # Nil
    /\ store' = [store EXCEPT ![call[r].api] = Nil]
    /\ Goto(r, "delete_drop")
    /\ UNCHANGED <<pluginConfig, apiSpecIndices, vectorizers, storeVersion, locks, locals>>

DeleteKey(r) ==
    /\ pc[r] = "delete_key"
    /\ store[call[r].api] # Nil
    /\ store' = [store EXCEPT ![call[r].api] = Nil]
    /\ Goto(r, "delete_count")
    /\ UNCHANGED <<pluginConfig, apiSpecIndices, vectorizers, storeVersion, locks, locals>>

\* Mutants: the index is dropped all the same; the lock is not released.
DeleteKeyFailsDropsIndex(r) ==
    /\ pc[r] = "delete_key"
    /\ store[call[r].api] = Nil \/ "store" \in Fault
    /\ apiSpecIndices' = [apiSpecIndices EXCEPT ![call[r].api] = Nil]
    /\ pluginConfigLock' = Nil
    /\ Answer(r, "ok")
    /\ UNCHANGED <<pluginConfig, vectorizers, store, storeVersion, embeddingModelsLock>>

DeleteKeyFailsLocked(r) ==
    /\ pc[r] = "delete_key"
    /\ \/ store[call[r].api] = Nil /\ UNCHANGED store
       \/ "lost_reply" \in Fault /\ store' = [store EXCEPT ![call[r].api] = Nil]
    /\ Answer(r, "ok")
    /\ UNCHANGED <<pluginConfig, apiSpecIndices, vectorizers, storeVersion, locks>>

\* DeleteKey reports failure: the key is not there, Redis is down, or the
\* reply is lost after the deletion. The error is logged, not returned, and
\* the request is answered with 200 all the same.
DeleteKeyFails(r) ==
    /\ pc[r] = "delete_key"
    /\ \/ store[call[r].api] = Nil /\ UNCHANGED store
       \/ "store" \in Fault /\ UNCHANGED store
       \/ "lost_reply" \in Fault /\ store' = [store EXCEPT ![call[r].api] = Nil]
    /\ pluginConfigLock' = Nil
    /\ Answer(r, "ok")
    /\ UNCHANGED <<pluginConfig, apiSpecIndices, vectorizers, storeVersion,
                   embeddingModelsLock>>

DeleteCount(r) == CountChange(r, "delete_count", "delete_assign")

DeleteAssign(r) ==
    /\ pc[r] = "delete_assign"
    /\ storeVersion' = counted[r]
    /\ Goto(r, "delete_drop")
    /\ UNCHANGED <<pluginConfig, apiSpecIndices, vectorizers, store, locks, locals>>

\* Mutant: the index stays.
DropConfigOnly(r) ==
    /\ pc[r] = "delete_drop"
    /\ pluginConfig' = [pluginConfig EXCEPT ![call[r].api] = Nil]
    /\ pluginConfigLock' = Nil
    /\ Answer(r, "ok")
    /\ UNCHANGED <<apiSpecIndices, vectorizers, store, storeVersion, embeddingModelsLock>>

\* The index is removed under apiSpecIndicesLock, whose holders take no other
\* lock, with pluginConfigLock still in hand.
DropConfig(r) ==
    /\ pc[r] = "delete_drop"
    /\ pluginConfig' = [pluginConfig EXCEPT ![call[r].api] = Nil]
    /\ apiSpecIndices' = [apiSpecIndices EXCEPT ![call[r].api] = Nil]
    /\ pluginConfigLock' = Nil
    /\ Answer(r, "ok")
    /\ UNCHANGED <<vectorizers, store, storeVersion, embeddingModelsLock>>

\* updatePluginConfig takes the lock and initialises the API again; the
\* initialisation never gets past LockToSave.
LockToUpdate(r) ==
    /\ pc[r] = "dispatch"
    /\ call[r].kind = "put"
    /\ pluginConfigLock = Nil
    /\ pluginConfigLock' = r
    /\ Goto(r, "init")
    /\ UNCHANGED <<shared, embeddingModelsLock, locals>>

-----------------------------------------------------------------------------

\* The gateway is stopped from outside.
Kill ==
    /\ "kill" \in Fault
    /\ ProcessExit
    /\ UNCHANGED store

FindPlugin(r) ==
    \/ RejectNoDefinition(r) \/ LookupConfig(r)
    \/ InitConfig(r) \/ InitConfigFatal(r) \/ InitConfigPanics(r)
    \/ CheckModel(r) \/ LockModels(r) \/ LoadModel(r) \/ LoadModelFatal(r)
    \/ BuildIndex(r)
    \/ LockToSave(r) \/ SaveKey(r) \/ SaveKeyFatal(r) \/ SaveCount(r) \/ SaveAssign(r)
    \/ CacheConfig(r)

SelectAndRewrite(r) ==
    \/ RefuseQuery(r) \/ StartSelection(r)
    \/ ReadIndex(r) \/ NoIndexFound(r) \/ ReadConfig(r)
    \/ SelectOperation(r) \/ SelectUnknownOperation(r) \/ SelectNothing(r)
    \/ RewriteQuery(r)

ConfigureApi(r) ==
    \/ LockToDelete(r) \/ DeleteKey(r) \/ DeleteKeyFails(r)
    \/ DeleteCount(r) \/ DeleteAssign(r) \/ DropConfig(r)
    \/ LockToUpdate(r)

Step(r) == FindPlugin(r) \/ SelectAndRewrite(r) \/ ConfigureApi(r)

Next == Kill \/ \E r \in Request : Arrive(r) \/ Step(r)

Spec == Init /\ [][Next]_vars

\* The Go scheduler runs every goroutine that is not blocked, and external
\* calls return. sync.RWMutex serves its waiters in turn, so a goroutine
\* that waits for a lock that is released again and again gets it.
TakesLock(r) ==
    \/ LookupConfig(r) \/ CheckModel(r) \/ LockModels(r) \/ BuildIndex(r)
    \/ LockToSave(r) \/ CacheConfig(r) \/ ReadConfig(r)
    \/ LockToDelete(r) \/ LockToUpdate(r)

Fairness == \A r \in Request : WF_vars(Step(r)) /\ SF_vars(TakesLock(r))

FairSpec == Spec /\ Fairness

-----------------------------------------------------------------------------
(* Properties                                                              *)

\* However many requests meet an empty gateway at once, the embedding model
\* is loaded at most once: the second check, under the write lock, is what
\* the double-checked locking of initPluginFromRequest rests on.
SingleVectorizer == vectorizers <= 1

\* Whoever looks the embedding model up finds it: to build an index
\* (initSelectOperations, whose error ends the process) or to search one
\* (findSelectOperation), however the request got there.
ModelAtHand ==
    \A r \in Request : pc[r] \in {"index", "select_config", "search"} => vectorizers > 0

Holds(r) == r \in {pluginConfigLock, embeddingModelsLock}

\* The request's next step takes one of the two, and it is not free.
Waits(r) ==
    \/ /\ pluginConfigLock # Nil
       /\ \/ pc[r] \in {"lookup", "save_lock", "cache", "select_config"}
          \/ pc[r] = "dispatch" /\ call[r].kind \in {"delete", "put"}
    \/ /\ embeddingModelsLock # Nil
       /\ pc[r] \in {"model", "model_lock", "index"}

\* No request that holds pluginConfigLock or embeddingModelsLock waits for one of
\* these two, be it its own: whoever takes them releases them without being
\* held up. The one exception is a PUT, which initialises the API under
\* pluginConfigLock. (With pluginConfigLock in hand, requests also take
\* apiSpecIndicesLock and storeVersionLock, whose holders wait for nothing.)
OnlyUpdatesHoldAndWait ==
    \A r \in Request : Holds(r) /\ Waits(r) => call[r].kind = "put"

\* storeVersion counts: it moves by one or starts again with the process. The
\* unlocked second assignment of saveApiUterances and deleteApiUterances
\* never takes it back to a value it has already left.
VersionSteps ==
    [][ \/ storeVersion' \in {storeVersion, storeVersion + 1}
        \/ MemoryEmpty' ]_vars

\* The router may rely on storeVersion: every change of the Redis catalogue is
\* announced by one increment, before the next change begins.
Unannounced == \E r \in Request : pc[r] \in {"save_count", "delete_count"}

Catalog == INSTANCE ServiceCatalog
               WITH Entry <- Definition, unannounced <- Unannounced

CatalogImplemented == Catalog!CatalogSpec

Quiet == \A r \in Request : pc[r] = "idle"

Servable(a) ==
    /\ store[a] # Nil
    /\ SelectOperations(pluginConfig[a]) # {} => apiSpecIndices[a] # Nil

AllServable == \A a \in Api : pluginConfig[a] # Nil => Servable(a)

NoDeletion == \A r \in Request : call[r].kind # "delete"

\* As long as no client deletes anything, a cached configuration is never a dead
\* end: the API is also registered for cross-API routing and, if its definition
\* has operations to select, indexed. (A cached configuration is not initialised
\* again, so a part that is missing stays missing.)
ServableConfig == []NoDeletion => []AllServable

\* The same between requests, whatever they are.
ServableAtRest == Quiet => AllServable

\* Between requests, what is cached, what is indexed and what is registered
\* for an API come from one definition.
OneDefinitionAtRest ==
    Quiet => \A a \in Api :
        pluginConfig[a] # Nil =>
            /\ store[a] = pluginConfig[a]
            /\ apiSpecIndices[a] \in (SUBSET SelectOperations(pluginConfig[a])) \cup {Nil}

AnsweredDelete(r, a) ==
    /\ call[r].kind = "delete" /\ call[r].api = a
    /\ reply'[r] = "ok" /\ reply[r] # "ok"

AllOrNothing ==
    \A r \in Request, a \in Api :
        AnsweredDelete(r, a) =>
            \/ pluginConfig'[a] = Nil /\ apiSpecIndices'[a] = Nil /\ store'[a] = Nil
            \/ pluginConfig'[a] # Nil /\ Servable(a)'

\* A DELETE is never half done: when it is answered with 200, nothing of the
\* API is left, neither its configuration, nor its index, nor its entry in the
\* catalogue; or Redis has failed, and the API can be used as before.
DeleteAllOrNothing == [][AllOrNothing]_vars

\* Every request is answered: no handler waits for ever for a lock.
RequestsAnswered == \A r \in Request : pc[r] # "idle" ~> pc[r] = "idle"

\* So is, in particular, a PUT, the update of an API's configuration.
UpdatesAnswered ==
    \A r \in Request : pc[r] # "idle" /\ call[r].kind = "put" ~> pc[r] = "idle"

=============================================================================
