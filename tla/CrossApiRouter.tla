--------------------------- MODULE CrossApiRouter ---------------------------
(***************************************************************************)
(* Cross-API routing (plugins/agent_bridge_cross_api.go): a query posted   *)
(* to the aggregate endpoint is matched against the utterances of every    *)
(* API in the Redis catalogue, through servicePluginData, a copy of the    *)
(* catalogue that is reloaded when storeVersion has moved.                 *)
(*                                                                         *)
(* The catalogue and its writers are those of ServiceCatalog; the readers  *)
(* are one process per query in flight. Nothing of servicePluginData is    *)
(* guarded by a lock, so a query's accesses to it are steps of their own;  *)
(* only the comparison of line 60, which reads the copy and both versions, *)
(* is a single one.                                                        *)
(***************************************************************************)
EXTENDS ServiceCatalog

CONSTANTS
    Query,        \* slots for queries in flight
    Mute,         \* the entries without utterances, which cannot be matched
    Fault,        \* which failures may happen, a subset of Faults
    VersionBound  \* the catalogue is not changed beyond this version

Faults == {"kill", "store", "entry", "model", "embed"}

ASSUME RouterAssumption ==
    /\ Mute \subseteq Entry
    /\ Fault \subseteq Faults
    /\ VersionBound \in Nat
    /\ \A found \in SUBSET (Api \X Entry) : found # Nil

VARIABLES
    services,      \* PluginServices: the copy of the catalogue
    cachedVersion, \* StoreVersion: the version the copy was read at
    embedder,      \* is ModelEmbedder set?
    index,         \* ModelIndex: the services it can return, Nil before it is made
    pc,            \* where each query is
    pending,       \* what is left of the loop the query is in: of the keys it
                   \* has fetched, or of the services it indexes
    attached,      \* the queries that iterate over the current map of services
    routed         \* where the last query of each slot was sent

cacheVars == <<services, cachedVersion, embedder, index>>
localVars == <<pending, attached, routed>>
routerVars == <<catalogVars, cacheVars, pc, localVars>>

Empty == [a \in Api |-> Nil]
Catalogues == [Api -> Entry \cup {Nil}]
Service == Api \X Entry

Labels == {"idle", "check", "clear", "version", "fetch", "fill", "dispatch",
           "load", "new_index", "loop", "build", "embedder", "index", "embed",
           "search", "info"}

\* How a query ends: sent to a service, answered by the plugin, or by the gateway
\* that recovers from its panic.
Outcomes == [kind : {"none", "error", "too_large", "no_service", "mcp", "info", "panic"},
             to : {Nil}]
                \cup [kind : {"routed"}, to : Service]

Unrouted(kind) == [kind |-> kind, to |-> Nil]
Routed(service) == [kind |-> "routed", to |-> service]

TypeOK ==
    /\ CatalogTypeOK
    /\ services \in Catalogues
    /\ cachedVersion \in Nat
    /\ embedder \in BOOLEAN
    /\ index \in (SUBSET Service) \cup {Nil}
    /\ pc \in [Query -> Labels]
    /\ pending \in [Query -> Catalogues]
    /\ attached \in SUBSET Query
    /\ routed \in [Query -> Outcomes]

Init ==
    /\ CatalogInit
    /\ services = Empty
    /\ cachedVersion = 0
    /\ embedder = FALSE
    /\ index = Nil
    /\ pc = [q \in Query |-> "idle"]
    /\ pending = [q \in Query |-> Empty]
    /\ attached = {}
    /\ routed = [q \in Query |-> Unrouted("none")]

-----------------------------------------------------------------------------
(* Control flow of one query.                                              *)

Goto(q, label) == pc' = [pc EXCEPT ![q] = label]

Answer(q, outcome) ==
    /\ Goto(q, "idle")
    /\ routed' = [routed EXCEPT ![q] = outcome]
    /\ pending' = [pending EXCEPT ![q] = Empty]
    /\ attached' = attached \ {q}

\* One iteration of a range loop: the element a is done.
After(q, a) == [pending[q] EXCEPT ![a] = Nil]

\* The process ends and starts again, with what Redis holds.
ProcessExit ==
    /\ Restart
    /\ services' = Empty
    /\ cachedVersion' = 0
    /\ embedder' = FALSE
    /\ index' = Nil
    /\ pc' = [q \in Query |-> "idle"]
    /\ pending' = [q \in Query |-> Empty]
    /\ attached' = {}
    /\ routed' = [q \in Query |-> Unrouted("none")]

Arrive(q) ==
    /\ pc[q] = "idle"
    /\ Goto(q, "check")
    /\ routed' = [routed EXCEPT ![q] = Unrouted("none")]
    /\ UNCHANGED <<catalogVars, cacheVars, pending, attached>>

-----------------------------------------------------------------------------
(* processSelectService and initServicePluginApiConfig                     *)

\* Mutant: an empty copy is as good as any other.
CheckVersionOnly(q) ==
    /\ pc[q] = "check"
    /\ Goto(q, IF cachedVersion # storeVersion THEN "clear" ELSE "dispatch")
    /\ UNCHANGED <<catalogVars, cacheVars, localVars>>

CheckVersion(q) ==
    /\ pc[q] = "check"
    /\ \/ /\ services = Empty \/ cachedVersion # storeVersion
          /\ Goto(q, "clear")
       \/ /\ services # Empty /\ cachedVersion = storeVersion
          /\ Goto(q, "dispatch")
    /\ UNCHANGED <<catalogVars, cacheVars, localVars>>

\* The map is replaced, not emptied: a loop over the old one goes on.
ClearServices(q) ==
    /\ pc[q] = "clear"
    /\ services' = Empty
    /\ attached' = {}
    /\ Goto(q, "version")
    /\ UNCHANGED <<catalogVars, cachedVersion, embedder, index, pending, routed>>

\* Mutant: the version that comes before the current one is saved.
SavePreviousVersion(q) ==
    /\ pc[q] = "version"
    /\ cachedVersion' = storeVersion - 1
    /\ Goto(q, "fetch")
    /\ UNCHANGED <<catalogVars, services, embedder, index, localVars>>

\* "save the current version of the store BEFORE retreiving the data"
SaveVersion(q) ==
    /\ pc[q] = "version"
    /\ cachedVersion' = storeVersion
    /\ Goto(q, "fetch")
    /\ UNCHANGED <<catalogVars, services, embedder, index, localVars>>

\* Mutant: an empty catalogue is fetched again.
FetchUntilFound(q) ==
    /\ pc[q] = "fetch"
    /\ pending' = [pending EXCEPT ![q] = store]
    /\ Goto(q, IF store = Empty THEN "check" ELSE "fill")
    /\ UNCHANGED <<catalogVars, cacheVars, attached, routed>>

FetchCatalogue(q) ==
    /\ pc[q] = "fetch"
    /\ pending' = [pending EXCEPT ![q] = store]
    /\ Goto(q, IF store = Empty THEN "dispatch" ELSE "fill")
    /\ UNCHANGED <<catalogVars, cacheVars, attached, routed>>

\* The copy stays empty, with the current version.
FetchFails(q) ==
    /\ "store" \in Fault
    /\ pc[q] = "fetch"
    /\ Answer(q, Unrouted("error"))
    /\ UNCHANGED <<catalogVars, cacheVars>>

\* Mutant: the version is saved after the data has been retrieved.
FillServiceSaveVersion(q) ==
    /\ pc[q] = "fill"
    /\ \E a \in Api :
          /\ pending[q][a] # Nil
          /\ services' = [services EXCEPT ![a] = pending[q][a]]
          /\ pending' = [pending EXCEPT ![q] = After(q, a)]
          /\ Goto(q, IF After(q, a) = Empty THEN "dispatch" ELSE "fill")
    /\ cachedVersion' = storeVersion
    /\ UNCHANGED <<catalogVars, embedder, index, attached, routed>>

\* Mutant: the service is filed under some other API.
FillServiceElsewhere(q) ==
    /\ pc[q] = "fill"
    /\ \E a, b \in Api :
          /\ pending[q][a] # Nil
          /\ services' = [services EXCEPT ![b] = pending[q][a]]
          /\ pending' = [pending EXCEPT ![q] = After(q, a)]
          /\ Goto(q, IF After(q, a) = Empty THEN "dispatch" ELSE "fill")
    /\ UNCHANGED <<catalogVars, cachedVersion, embedder, index, attached, routed>>

\* One key, into the map that is current now, whoever made it. A loop over
\* that map may or may not come to see the new service.
FillService(q) ==
    /\ pc[q] = "fill"
    /\ \E a \in Api, seen \in SUBSET attached :
          /\ pending[q][a] # Nil
          /\ services' = [services EXCEPT ![a] = pending[q][a]]
          /\ pending' = [p \in Query |->
                           IF p = q THEN After(q, a)
                           ELSE IF p \in seen THEN [pending[p] EXCEPT ![a] = pending[q][a]]
                           ELSE pending[p]]
          /\ Goto(q, IF After(q, a) = Empty THEN "dispatch" ELSE "fill")
    /\ UNCHANGED <<catalogVars, cachedVersion, embedder, index, attached, routed>>

\* What another writer has put into Redis is not the JSON of an entry: logger.Fatalf
\* ends the process.
FillServiceFatal(q) ==
    /\ "entry" \in Fault
    /\ pc[q] = "fill"
    /\ ProcessExit

\* The query exceeds MaxRequestLength, or its body cannot be read.
RefuseQuery(q) ==
    /\ pc[q] = "dispatch"
    /\ \E kind \in {"too_large", "error"} : Answer(q, Unrouted(kind))
    /\ UNCHANGED <<catalogVars, cacheVars>>

-----------------------------------------------------------------------------
(* findServiceFromQuery                                                    *)

CheckEmbedder(q) ==
    /\ pc[q] = "dispatch"
    /\ Goto(q, IF embedder THEN "embedder" ELSE "load")
    /\ UNCHANGED <<catalogVars, cacheVars, localVars>>

LoadEmbedder(q) ==
    /\ pc[q] = "load"
    /\ embedder' = TRUE
    /\ Goto(q, "new_index")
    /\ UNCHANGED <<catalogVars, services, cachedVersion, index, localVars>>

\* NewVectorizer's nil result is assigned along with its error.
LoadEmbedderFails(q) ==
    /\ "model" \in Fault
    /\ pc[q] = "load"
    /\ embedder' = FALSE
    /\ Answer(q, Unrouted("error"))
    /\ UNCHANGED <<catalogVars, services, cachedVersion, index>>

NewIndex(q) ==
    /\ pc[q] = "new_index"
    /\ index' = {}
    /\ Goto(q, "loop")
    /\ UNCHANGED <<catalogVars, services, cachedVersion, embedder, localVars>>

StartIndexing(q) ==
    /\ pc[q] = "loop"
    /\ pending' = [pending EXCEPT ![q] = services]
    /\ IF services = Empty
          THEN Goto(q, "embedder") /\ UNCHANGED attached
          ELSE Goto(q, "build") /\ attached' = attached \cup {q}
    /\ UNCHANGED <<catalogVars, cacheVars, routed>>

OthersAdding(q) == \E p \in Query \ {q} : pc[p] = "build"

\* The utterances of one service, embedded by the embedder that is set at the time.
\* Another query's racing Add may overwrite this one's.
IndexService(q) ==
    /\ pc[q] = "build"
    /\ \E a \in Api :
          /\ pending[q][a] # Nil
          /\ pending[q][a] \in Mute \/ embedder
          /\ \/ pending[q][a] \notin Mute /\ index' = index \cup {<<a, pending[q][a]>>}
             \/ (pending[q][a] \in Mute \/ OthersAdding(q)) /\ UNCHANGED index
          /\ pending' = [pending EXCEPT ![q] = After(q, a)]
          /\ IF After(q, a) = Empty
                THEN Goto(q, "embedder") /\ attached' = attached \ {q}
                ELSE Goto(q, "build") /\ UNCHANGED attached
    /\ UNCHANGED <<catalogVars, services, cachedVersion, embedder, routed>>

\* EmbedText fails on an utterance: the rest is never indexed, for the next
\* query finds the embedder set.
IndexServiceFails(q) ==
    /\ "embed" \in Fault
    /\ pc[q] = "build"
    /\ embedder
    /\ \E a \in Api :
          /\ pending[q][a] \notin Mute \cup {Nil}
          /\ index' \in {index, index \cup {<<a, pending[q][a]>>}}
    /\ Answer(q, Unrouted("error"))
    /\ UNCHANGED <<catalogVars, services, cachedVersion, embedder>>

\* Another query has failed to load the embedder meanwhile and left nil, of which
\* EmbedText panics; some utterances of the service may have been indexed.
IndexServicePanics(q) ==
    /\ pc[q] = "build"
    /\ ~embedder
    /\ \E a \in Api :
          /\ pending[q][a] \notin Mute \cup {Nil}
          /\ index' \in {index, index \cup {<<a, pending[q][a]>>}}
    /\ Answer(q, Unrouted("panic"))
    /\ UNCHANGED <<catalogVars, services, cachedVersion, embedder>>

EmbedderSet(q) ==
    /\ pc[q] = "embedder"
    /\ embedder
    /\ Goto(q, "index")
    /\ UNCHANGED <<catalogVars, cacheVars, localVars>>

IndexSet(q) ==
    /\ pc[q] = "index"
    /\ index # Nil
    /\ Goto(q, "embed")
    /\ UNCHANGED <<catalogVars, cacheVars, localVars>>

\* The embedder or the index is missing after all.
SearchImpossible(q) ==
    /\ \/ pc[q] = "embedder" /\ ~embedder
       \/ pc[q] = "index" /\ index = Nil
    /\ Answer(q, Unrouted("error"))
    /\ UNCHANGED <<catalogVars, cacheVars>>

EmbedQuery(q) ==
    /\ pc[q] = "embed"
    /\ embedder
    /\ Goto(q, "search")
    /\ UNCHANGED <<catalogVars, cacheVars, localVars>>

\* EmbedText fails on the query.
EmbedQueryFails(q) ==
    /\ "embed" \in Fault
    /\ pc[q] = "embed"
    /\ embedder
    /\ Answer(q, Unrouted("error"))
    /\ UNCHANGED <<catalogVars, cacheVars>>

\* The embedder was there when it was checked, and is gone.
EmbedQueryPanics(q) ==
    /\ pc[q] = "embed"
    /\ ~embedder
    /\ Answer(q, Unrouted("panic"))
    /\ UNCHANGED <<catalogVars, cacheVars>>

\* The best match is above the threshold: the request goes to its target. (An
\* index, once made, is replaced but never removed.)
RouteQuery(q) ==
    /\ pc[q] = "search"
    /\ \E service \in index : Answer(q, Routed(service))
    /\ UNCHANGED <<catalogVars, cacheVars>>

\* It is not, or the index is empty. The MCP servers may have an answer.
NoServiceFound(q) ==
    /\ pc[q] = "search"
    /\ \E kind \in {"no_service", "mcp", "error"} : Answer(q, Unrouted(kind))
    /\ UNCHANGED <<catalogVars, cacheVars>>

-----------------------------------------------------------------------------
(* processInfo: a request that lists the services of the copy, in a loop   *)
(* over the map that the queries reload.                                   *)

ArriveInfo(q) ==
    /\ pc[q] = "idle"
    /\ Goto(q, "info")
    /\ pending' = [pending EXCEPT ![q] = services]
    /\ attached' = attached \cup {q}
    /\ routed' = [routed EXCEPT ![q] = Unrouted("none")]
    /\ UNCHANGED <<catalogVars, cacheVars>>

ListService(q) ==
    /\ pc[q] = "info"
    /\ \E a \in Api :
          /\ pending[q][a] # Nil
          /\ pending' = [pending EXCEPT ![q] = After(q, a)]
    /\ UNCHANGED <<catalogVars, cacheVars, pc, attached, routed>>

AnswerInfo(q) ==
    /\ pc[q] = "info"
    /\ pending[q] = Empty
    /\ Answer(q, Unrouted("info"))
    /\ UNCHANGED <<catalogVars, cacheVars>>

-----------------------------------------------------------------------------

\* Two requests access one map of services at once and at least one of them
\* writes: the Go runtime may detect it and end the process.
MapRace ==
    \E p, q \in Query :
        /\ p # q
        /\ pc[q] = "fill"
        /\ pc[p] = "fill" \/ p \in attached

MapRaceDetected == MapRace /\ ProcessExit

Kill == "kill" \in Fault /\ ProcessExit

ChangeCatalogue ==
    /\ storeVersion < VersionBound \/ unannounced
    /\ CatalogChange
    /\ UNCHANGED <<cacheVars, pc, localVars>>

Step(q) ==
    \/ CheckVersion(q) \/ ClearServices(q) \/ SaveVersion(q)
    \/ FetchCatalogue(q) \/ FetchFails(q) \/ FillService(q) \/ FillServiceFatal(q)
    \/ RefuseQuery(q)
    \/ CheckEmbedder(q) \/ LoadEmbedder(q) \/ LoadEmbedderFails(q)
    \/ NewIndex(q) \/ StartIndexing(q)
    \/ IndexService(q) \/ IndexServiceFails(q) \/ IndexServicePanics(q)
    \/ EmbedderSet(q) \/ IndexSet(q) \/ SearchImpossible(q)
    \/ EmbedQuery(q) \/ EmbedQueryFails(q) \/ EmbedQueryPanics(q)
    \/ RouteQuery(q) \/ NoServiceFound(q)
    \/ ListService(q) \/ AnswerInfo(q)

Next ==
    \/ ChangeCatalogue \/ Kill \/ MapRaceDetected
    \/ \E q \in Query : Arrive(q) \/ ArriveInfo(q) \/ Step(q)

Spec == Init /\ [][Next]_routerVars

\* Go runs every goroutine that is not blocked, and external calls return.
FairSpec == Spec /\ \A q \in Query : WF_routerVars(Step(q))

-----------------------------------------------------------------------------
(* Properties                                                              *)

Reloading == \E q \in Query : pc[q] \in {"version", "fetch", "fill"}

\* Outside a reload, a copy that carries the current version of a catalogue
\* without unannounced changes is that catalogue, so that the comparison of
\* versions in processSelectService never keeps a stale copy. (An empty copy,
\* which a failed fetch leaves behind, is reloaded whatever its version.)
CacheCoherent ==
    ~Reloading /\ cachedVersion = storeVersion /\ ~unannounced
        => services \in {store, Empty}

SentTo(q, service) == routed'[q] = Routed(service) /\ routed[q] # Routed(service)

\* While the copy carries the current version, a query is only ever sent to a
\* service that is registered.
RoutesToRegistered ==
    [][ cachedVersion = storeVersion /\ ~unannounced =>
          \A q \in Query, a \in Api, e \in Entry :
              SentTo(q, <<a, e>>) => store[a] = e ]_routerVars

\* As long as the catalogue is the one the process has started with: once the
\* index is made and nobody is still making it, every registered service can
\* be found in it.
Indexed ==
    embedder /\ index # Nil /\ \A q \in Query : pc[q] \notin {"new_index", "loop", "build"}

IndexComplete ==
    storeVersion = 0 /\ ~unannounced /\ Indexed =>
        \A a \in Api : store[a] \notin Mute \cup {Nil} => <<a, store[a]>> \in index

\* What the process knows of the catalogue: the services that are registered,
\* and those in its copy, in a loop over the copy, or in the index.
Registered(catalogue) == {<<a, catalogue[a]>> : a \in {b \in Api : catalogue[b] # Nil}}

Known ==
    Registered(store) \cup Registered(services)
        \cup (UNION {Registered(pending[q]) : q \in Query})
        \cup (IF index = Nil THEN {} ELSE index)

Promise == INSTANCE RoutingPromise WITH known <- Known

\* However many queries reload, index and search the one copy at once, and
\* whatever the writers do meanwhile, each is sent only to a service that has
\* been registered since the process started.
RoutingImplemented == Promise!PromiseSpec

\* Every query is answered, whatever the others do to the copy it works on.
QueriesAnswered == \A q \in Query : pc[q] # "idle" ~> pc[q] = "idle"

=============================================================================
