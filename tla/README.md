# Verification of API Bridge Agnt

TLA+ models of the plugin in `src/plugins`, their TLC runs, and theorems about
them with TLAPS proofs.

| file | what it is |
|------|------------|
| `ServiceCatalog.tla` | abstract specification: the catalogue of API services and its version |
| `PluginConfig.tla` | the per-API configuration cache and its request handlers |
| `RoutingPromise.tla` | abstract specification: where the router may send a query |
| `CrossApiRouter.tla` | the cross-API router, composed with `ServiceCatalog` |
| `McpServers.tla` | the MCP servers, their clients, and the queries that call their tools |
| `SchemaRefs.tla` | the traversal that lists the schemas of an operation for the LLM |
| `RequestPipeline.tla` | one request through both hooks of an API, on top of `SchemaRefs` |
| `MC*.tla`, `*.cfg` | small instances and the runs on them |
| `*Proofs.tla` | theorems and proofs: one module per component, and `SchemaDepthProofs` (how deep `getSchemasRef` recurses) and `McpProgressProofs` (any number of initialisations) |
| `PROJECT.json` | components, runs, mutants, definition-to-source map, findings, hazards, theorems |

To run: `tlc -config config_race.cfg MCPluginConfig.tla` (`config_*` goes with
`MCPluginConfig`, `router_*` with `MCCrossApiRouter`, `mcp_*` with
`MCMcpServers`, `pipeline*` with `MCRequestPipeline`), `tlapm PluginConfigProofs.tla`.

## The system

The plugin is a shared library in the Tyk gateway. Tyk calls its handlers from
one goroutine per HTTP request, so whatever is in a package variable is shared
by all requests in flight. All state is in such variables, except the catalogue,
which is in Redis.

| component | state | operations | reads or calls |
|-----------|-------|------------|----------------|
| configuration cache (`agent_bridge_config.go`) | `pluginConfig`, `apiSpecIndices`, `embeddingModels`, each with an RWMutex | `getPluginFromRequest` (initialises on a miss), DELETE, PUT | the catalogue, the definition Tyk attaches to the request |
| catalogue (`agent_bridge_storage.go`) | Redis keys, `storeVersion` | `saveApiUterances`, `deleteApiUterances` | Redis |
| operation selection (`agent_bridge_endpoint_selection.go`, `agent_bridge.go`) | none of its own | `selectAndRewrite`, `findSelectOperation` | all three maps |
| cross-API router (`agent_bridge_cross_api.go`) | `servicePluginData`: a copy of the catalogue, its version, an embedding model, an index; no lock | `processSelectService` | catalogue, `storeVersion`, MCP as a fallback |
| MCP (`agent_bridge_mcp_client.go`) | `mcpConfig`, `llmConfig`, the clients; no lock | `mcpInit`, `processQueryWithMCP` | MCP servers, LLM |
| rewriting (`agent_bridge_rewrite.go`) | the request and the response at hand, session metadata | `RewriteQueryToOas`, `rewriteQueryForRoute` (with `getSchemasRef`), `RewriteResponseToNl` | configuration, LLM |
| info (`agent_info.go`) | none | `processInfo` | `mcpConfig`, `PluginServices` |

What is hard in it:

- *interleaving*: initialising an API is five critical sections with model loading
  and Redis in between; the router and MCP have no locks at all;
- *stale state*: a definition is reloaded by Tyk, the caches are not; the index of
  the router outlives the copy it was made from;
- *failure*: Redis, the model, the LLM or an MCP server fails between two steps;
  `logger.Fatalf` ends the whole gateway; Redis survives it, `storeVersion` does not;
- *ordering*: version before data on one side, data before version on the other;
- *termination*: locks must be given back on every path, and an LLM that never stops
  asking for tools must be stopped.

What makes each part correct: one model is loaded; a cached configuration can be
served; a DELETE deletes; every change of the catalogue is announced once, and
before the next one; a copy with the current version is current; a query is routed
to a registered service; no MCP client is leaked; an offered tool can be called;
the LLM is given
the schemas it needs; what goes upstream is the client's request or a call
the LLM has filled in, never half of each; a response is rewritten for those who asked
for it; every request is answered. The hazards in `PROJECT.json` say where each of them is
at stake.

## The models

In every module one process is one request in flight (`Request`, `Query`,
`Handler`), `pc` says where its goroutine is, and one action is one access to
shared state with the local work up to the next one. Locals that matter are
functions of the process and are reset when the request is answered; the answer
stays visible until the next request in that slot. `ProcessExit` is the end of the
gateway and its restart: memory is initial, Redis is kept. It happens through
`logger.Fatalf` (the actions named `...Fatal`) or from outside (`Kill`).
Definitions starting with "Mutant:" in their comment are used by no specification.
They are plausible bugs, one or more per property; each makes its property fail.

### ServiceCatalog

`Register`, `Deregister` and `Announce`: the catalogue changes, and `storeVersion`
moves by one before it changes again. `Restart` sets the version to 0, with a write
under way applied or not. The version is the only thing the router has to tell a
stale copy by, so this is the contract between writers and reader.

### PluginConfig

Follows a request through `getPluginFromRequest` (`lookup`, `init`, `model...`,
`index`, `save...`, `cache`), then `selectAndRewrite` (`select...`, `search`,
`rewrite`, with a second lookup for the rewriting) or `processPluginConfig`
(`delete...`, or back to `init` for a PUT).

- `pluginConfigLock` and `embeddingModelsLock` are held across several steps and are
  variables; a read lock on them protects a single access, so the
  action is atomic and only requires that no writer holds the lock.
- `apiSpecIndicesLock` and `storeVersionLock` only ever guard one access, and nobody waits
  for anything under them, so they are part of the step. A DELETE takes both while it holds
  `pluginConfigLock` (`DropConfig`, `CountChange`); `OnlyUpdatesHoldAndWait` is about the two
  locks that are variables, and says nothing of these leaves.
- A definition is a record: the plugin's configuration and key (`config`), its operation
  ids, and which of these have examples. `InitConfigFatal` stands for whatever makes
  `initPluginFromRequest` fail; `InitConfigPanics` for the type assertions on
  the extension (`agent_bridge_config.go:90`, `212`), which end the request alone.
- `apiSpecIndices` is, per API, the set of operations a search can return. An example
  may be skipped (too long, or not embeddable), so it is any subset of the selected
  operations; the search returns any member, or none.
- There is one embedding model: its name and path are constants of the code.
- `DeleteKeyFails` has the three ways for `DeleteKey` to report failure: no such key,
  Redis unreachable (`"store"`), reply lost after the deletion (`"lost_reply"`).
- A PUT never gets past `LockToSave`, so there is no action for what would follow.
- `logConfig` takes a read lock and changes nothing; it is left out. It could only
  wait where `LookupConfig` waits.

Two of its properties are about the locks themselves. `ModelAtHand`: initialisations and
searches look the embedding model up without having loaded it themselves, and always find
it. `OnlyUpdatesHoldAndWait`: a request that holds one of these two locks does not wait for one of them, so whoever
is waited for can go on. The exception it names is the PUT of `config_update_blocks`.

### RoutingPromise

What remains of "a query is routed to a registered service" when queries share the copy
and the index without a lock. `known` holds the services a query may still be sent to. It
contains what is registered; it may keep (`Remember`) what is not registered any more, and never
gains anything else. `Forget` is the end of the process. It is a promise, not a translation: no line of
the code is mapped to it.

### CrossApiRouter

The writers are `CatalogChange` of `ServiceCatalog`, which `PluginConfig` implements;
the readers are the queries. Each access to `servicePluginData` is an action (only the comparison at
line 60, which reads the copy and both versions, is one step), the fill one action per key and the
index one action per service. `findServiceFromQuery` therefore checks the embedder (`EmbedderSet`) and the
index (`IndexSet`), embeds the query and searches in four steps; if another query has failed to
load the model in between and left `nil`, the embedding panics (`IndexServicePanics`,
`EmbedQueryPanics`), which ends the query. `FillServiceFatal` is the `logger.Fatalf` for an entry in Redis that is
no JSON (`"entry"` in `Fault`). A range loop goes on over the map it
started with (`attached` says whether that is still the current one) and may or may
not see a key that is added meanwhile. `Mute` holds the entries without utterances,
which an index cannot return. `MapRaceDetected` is the Go runtime's fatal error when
a map is written and used at once; it may, but need not, be raised. Reading the
keys and values from Redis is one step. What the MCP fallback does is in
`McpServers`; here it is an answer among others. `processInfo` is a reader, too: it
ranges over the same map without a lock (`ArriveInfo`, `ListService`, `AnswerInfo`,
label `info`), so it takes part in the race that `MapRaceDetected` reports.

It implements `RoutingPromise`, with `known` mapped to `Known`: the catalogue, the copy, what
the loops of all queries have still to visit, and the index.

### McpServers

`mcpInit`: closing the clients one by one (`FindClient`, `CloseClient`, `UnsetClient`: the code reads the
field to compare it with nil, reads it again to close it, and then clears it, and with two initialisations the
second read may meet nil: `CloseNoClient`), dropping the
map, loading the new one, making the LLM's client, and starting a client for each
server. Failures may occur at each step. `processQueryWithMCP`: the tools are read,
then at most three rounds, each with a set of tool calls. An `*MCPServerConfig` is
named by the number of the load that made it and its server, so a loop over
an old map and one over the new map work on different records, as the pointers do.
A client is named by who started it for which record, so that two handlers that start
one for the same record leak one. A call through a closed client fails, one through a
nil client panics; a panic ends the request (net/http recovers it). Reading
the tools of all servers is one step. The texts of the conversation are left out, and
so is the branch for tool calls that are not functions, of which the LLM library has
none.

`Work` bounds the steps a request has left: four per server it has still to start, two per
tool call, a fixed amount per round. Every step of a request lowers it, and no step of
another request raises it, since a loop ranges over the map it started with
(`WorkDecreases`). That is the safety half of `RequestsAnswered`.

### SchemaRefs

`buildOperationString` calls `getSchemasRef` for the parameters and the request body.
`getSchemasRef` is a loop over schemas that calls itself; the model has the nested
calls as a `stack` of what each loop has still to visit, so it needs no recursive
operator and can be proved about. `KnownReference` is the early `continue`, `Visit`
collects a name and follows the first of `Keywords` that the schema has, `NilSchema`
is the `return` for a missing schema, such as that of a body without one. The loop takes
its schemas in any order: properties come from a Go map. The calls for the
properties of a schema are one loop, as they are for the other keywords. A definition is a function from
schemas to keywords and the schemas below them: `Name` those with a `$ref`, `Inline`
the others. Schemas may refer to each other in cycles, but through names only, as in a
JSON document. An operation has the schemas of its parameters, of each content type of its body, and of its
responses; the code follows the first, and one content type (`Roots`), and the text of the operation has all of them
(`SchemasOf`). A `$ref` to a shared parameter is resolved before the plugin runs, so the schema of such
a parameter is among the parameters. Of the theorems only `BoundsRecursion` needs such a restriction, and a weaker one:
that an inline schema is written in one place (`WrittenOnce`; an `ASSUME` of
`MCRequestPipeline` checks it for the instance).

### RequestPipeline

A request meets one of the hooks `APIBridgeAgent` or `RewriteQueryToOas` on its way to the
upstream, and `RewriteResponseToNl` on its way back. What travels between them is the
request itself and the session's metadata.

- There is one request: the handlers share nothing but the configuration, and that is in
  `PluginConfig`. Here a lookup of it succeeds or fails.
- A body is `"asked"` (the client's), `"llm"`, `"drained"` or `"nil"`. The client's body
  can be read more than once: `selectAndRewrite` (`agent_bridge.go:198`) and
  `rewriteQueryForRoute` (`agent_bridge_rewrite.go:110`) both read it to the end, which
  works since Tyk hands out a body that starts again. This is an assumption. A body
  the LLM has written is an ordinary reader and is empty when it has been read.
- A session is none (`Nil`), the plugin's, or `Foreign`: another middleware's, without the
  plugin's metadata. `Routed` is the one the cross-API router leaves behind.
- `selected` holds the operations with the selected `operationId`: none if the
  index is older than the definition, several if the id is not unique.
- `long` says that the declared `Content-Length` is over the limit, not that the body is.
- A panic (`"panic"`) ends the request; net/http recovers it. `FindRouteFails` has two of them: the nil
  router that an unusable definition leads to (`agent_bridge_rewrite.go:84`), and a path that is the listen path.
- With `application/nlq` the code rewrites the response whatever `X-Nl-Response-Type` says
  (`agent_bridge.go:135`), although line 29 explains `upstream` as "Keep the response as it is". `ReadQuery`
  does as the code does, `NlAsked` states that rule, and `MCRequests` leaves the header free.

It extends `SchemaRefs`: the traversal runs between reading the sentence and asking the
LLM, so `RequestAnswered` covers a traversal that does not end.

## The runs

A passing run is exhaustive for its instance. "2 requests" means that any two requests
may overlap, one after the other without end, up to the bound.

| run | instance | shows |
|-----|----------|-------|
| `config_race` | 2 requests, 1 API, 5 definitions, all kinds, kill/model/store failures, versions to 2 | `TypeOK`, `SingleVectorizer`, `ModelAtHand`, `OnlyUpdatesHoldAndWait`, `VersionSteps`, `CatalogImplemented` |
| `config_sequential` | 1 request, 2 APIs, 5 definitions, kill/store, versions to 4 | `ServableAtRest`, `OneDefinitionAtRest`, `DeleteAllOrNothing` |
| `config_live` | 2 requests, 1 API, 5 definitions, queries and deletions, all failures, versions to 2, fairness | `RequestsAnswered`; `ServableConfig`, of the behaviours in which nobody deletes |
| `router_single` | 1 query, 2 APIs, 2 entries (one mute), any failure but of embedding a text, versions to 3 | `TypeOK`, `CacheCoherent`, `IndexComplete` |
| `router_readers` | 2 queries, 2 APIs, all failures, 1 change, fairness | `QueriesAnswered`, `RoutingImplemented` |
| `mcp_one_initializer` | 2 handlers, 1 of which may initialise, 2 servers, all failures, 2 loads | `TypeOK`, `NoOrphanClient`, `ToolsHaveClient` |
| `pipeline` | 1 request after the other, 2 routes, all requests and failures; 2 named schemas, 2 inline, 36 definitions × 6 operations, fairness | `SchemaTypeOK`, `PipelineTypeOK`, `CollectedExactly`, `RecursionBounded`, `SentWhole`, `AnsweredAsAsked`, `EncodingTrue`, `RequestAnswered` |
| `mcp_live` | 2 handlers that may initialise, 1 server, all failures, 3 loads, fairness | `RequestsAnswered`, `WorkDecreases` |

Four runs have the expected result "violation": each shows code that does something
else than what a line of the repository says. `PROJECT.json` quotes the lines.

| run | what TLC finds |
|-----|----------------|
| `config_update_blocks` | a PUT waits for a lock it holds, and everybody else with it |
| `config_delete_wedges` | a DELETE and an initialisation overlap: cached, not indexed, for ever |
| `router_stale_index` | a query is sent to a deregistered API |
| `pipeline_references` | the body of an operation is a form; its schema is used in the text for the LLM and missing from the list of references |

`pipeline_references` takes "the list of references used in the operation"
(`agent_bridge_rewrite.go:270-271`) at its word. TLC stops at the content type, but there are more
ways to miss a reference, all in `ReferencesListed`: responses, a wildcard type beside
`application/json`, the second of two keywords of a schema, and `additionalProperties`. The last two matter for the sample
definitions: `configs/your-domain.atlassian.net.oas.json` has two schemas with
`properties` beside `oneOf` or `anyOf`, and `configs/api.github.com.gist.deref.oas.json` has
`additionalProperties` beside `properties` in many places. References to shared parameters, which
`TestBuildOperationString` shows in the text and not in the list, are not schemas and are not counted.

The same models show more when a constant or a property of a run is changed. No run of
the project repeats these; each was seen in TLC while the models were written:

- `router_single` with `Query = {q1, q2}`: `CacheCoherent` fails. Nothing guards
  `servicePluginData`; of two reloads, the one that fetched first may fill last, and
  leaves its older data under the newer version.
- the same, with one entry per API: `IndexComplete` fails. A query that finds the copy half filled takes
  it for complete and builds the index from it, once and for all.
- `router_single` with `"embed"` in `Fault`: `IndexComplete` fails for one query
  alone, which leaves an incomplete index behind.
- `config_sequential` with `"lost_reply"` in `Fault`: `ServableAtRest` fails. Redis
  has deleted the entry, the plugin believes it has not; every later DELETE
  stops at the missing key.
- a DELETE is answered with 200 when Redis has failed and nothing was removed
  (`DeleteKeyFails`); `DeleteAllOrNothing` says no more than that it is not half done.
- `mcp_one_initializer` with two handlers that may initialise: `NoOrphanClient` fails, and the
  second `/mcp/init` skips as "already initialized" (`agent_bridge_mcp_client.go:284-285`) a server that
  the first has only begun with.
- `pipeline`: an `operationId` that two operations have rewrites the request twice, the second time from
  the body the LLM wrote for the first (`RewriteOperation`, `ReadSentence`). What should happen is stated nowhere, so no
  property is about it.
- `pipeline`, `EncodingTrue` for encodings other than gzip fails: the header stays, the
  new body is plain text.
- `pipeline`: replies `"panic"` are reachable. They come from a session without the
  plugin's metadata (`NoMetadata`), from a path that is the listen path or a definition
  no router can be made of (`FindRouteFails`), and from an operation the LLM gave no body, rewritten again.
- `SelectUnknownOperation`: the index of an earlier definition selects an operation that
  the current one lacks, and the query is forwarded as it came.
- `router_readers`: outcomes `"panic"` are reachable, after a failed load of the model by another query.
- `CallNoClient`: a query whose tool call meets an initialisation that is closing the
  clients ends in a nil pointer. So does one whose LLM answers with a choice without message, which
  is dereferenced (line 220) before it is checked (line 224).

Bounds, and why they are enough:

- two processes: every hazard above is between two requests, or a request and a
  restart. Three are covered by the theorems, where there is one;
- `VersionBound` stops arrivals (in the router: changes) when `storeVersion` has
  reached it. Two changes are enough for "stale", three for "stale, current, stale again";
  restarts begin anew, so behaviours are still infinite;
- `LoadBound` is the number of configurations loaded per process: one to close and
  one to load; in `mcp_live` a third, so that two initialisations can meet at the clients of an earlier one
  (`CloseNoClient`);
- definitions: one with examples, one that has lost the operation, one without
  operations, one that is not configured, one whose configuration has the wrong types. These are the cases the code distinguishes;
- schemas: two names are enough for a cycle, a self-reference, and a name reached twice; one
  inline schema below the definitions and one below the operations; every keyword
  and a schema with two of them. The proofs have no bound;
- routes: two, for a selected id that is unique, and one that is not;
- `DEFAULT_MAX_LLM_ITERATIONS` is the code's.

Deadlock is checked in every run but `config_update_blocks`, where it is the point.

## Fairness

Weak fairness of each request's `Step`: Go schedules every goroutine that is not
blocked, and Redis, the LLM and MCP servers return or fail in the end. This is an
assumption: nothing in the code sets a timeout on the MCP side. In `PluginConfig`
there is strong fairness for the steps that take a lock, since sync.RWMutex queues its
waiters and a writer is not overtaken for ever. In `RequestPipeline` it is
weak fairness of the one request. Arrivals, failures, kills and changes
of the catalogue by others are never required to happen.

## What is proved

For all values of the constants that satisfy the named assumptions:

- `PluginConfigProofs`: `TypeCorrect`, `OneModelLoaded`, `VersionNeverLost`,
  `ServableWithoutDeletion` (of behaviours in which no client deletes), `ImplementsCatalog` (if no
  reply of Redis is lost: a lost reply is a change that nobody announces).
  The inductive invariant `IInv` adds to the types where the two locks are held
  (`LockInv`): whoever is between writing the catalogue and assigning the version
  holds `pluginConfigLock`, and what it has counted is still `storeVersion`, so the
  second assignment changes nothing; whoever loads the model holds `embeddingModelsLock` and there is none
  yet. `HoldersReleaseLocks` (by `HolderInv`: the labels at which a request can hold
  a lock, none of which waits unless the request is a PUT) and `ModelFound` (by `ModelInv`: an index
  is proof that the model was loaded, and nothing but the end of the process unloads it) hold for any number of requests of any kind. `ServableInv` carries "indexed" and "registered" along the steps of an
  initialisation; without deletions nothing undoes them. `ImplementsCatalog` maps
  `unannounced` to "some request is between `SetKey` or `DeleteKey` and the increment";
  every action is shown to be a catalogue step or a stutter.
  For one request at a time whose replies are not lost: `ServableForOne`,
  `OneDefinitionForOne` and `DeleteAllOrNothingForOne`. Their invariant
  (`SequentialInv`) says what the three maps and the catalogue hold at each label of an
  initialisation or a deletion: an API that no request is changing is cached as it is
  registered and has an index that fits (`Tidy`, `IndexFits`), or is neither cached
  nor indexed; the one at hand differs from that by what its request has still to do.
- `CrossApiRouterProofs`: `RouterTypeCorrect`, and `CopyCoherent` with one query at a
  time. The invariant says that the saved version is never ahead of the store's, and
  that as long as it is equal, what has been copied and what is still to be copied
  make up the catalogue; a change announced meanwhile moves the version away. `IndexCompleteForOne`, one query at a time and no
  failing embedding: by `IndexInv`, from dispatching on the copy is the catalogue
  (as long as that is the one the process started with), and every service that
  can be matched is in the index or still to be indexed.
  `ImplementsPromise` has no such restriction: for any number of queries that reload, index and
  search at once, every action is shown to be a step of `RoutingPromise` or a stutter. `Known` needs no
  history variable, since whatever has been copied is in one of the four places until
  it is in the index, or forgotten; the proof needs `IndexMade` (from
  `RouterTypeCorrect`): nobody adds to an index that has not been made.
- `McpServersProofs`: `NoClientLeaked`, `OfferedToolsCallable`, with
  one initialisation at a time and any number of queries. The invariant
  follows the initialisation: while closing, every open client is still pending; while
  loading, none is open; while starting, the target is in the current map and has none.
- `McpProgressProofs`: `McpTypeCorrect` and `EveryRequestProgresses`, for any finite number of
  initialisations at a time (and finitely many servers and tools). `RaceInv` says that the
  loads done and those that initialisations under way may still do keep within `LoadBound`, and
  that the server a loop works on is left in the loop until its tools are listed, so that `Work` is
  positive until the request is answered. `Work` then decreases action by action.
- `SchemaRefsProofs`: `SchemaTypeCorrect`; `CollectsExactly`: what has been collected
  at the end is what can be reached, for any set of schemas and any definition. That this is less than what the operation
  uses is `pipeline_references`. The invariant (`SchemaInv`) has a set of
  visited schemas, such that whatever they lead to is visited or on the stack, and all of
  them can be reached; only the named ones are recorded by the code, so the set is
  quantified over.
- `SchemaDepthProofs`: `BoundsRecursion`, for finitely many schemas. `PathInv` gives each loop on
  the stack the schema it was called for, and says that these differ: a named schema is entered
  once, since it is in `refs` from then on; an inline one only from the place it is written in, so that
  one that has been visited is in no loop any more. The pigeonhole principle does the rest.
- `RequestPipelineProofs`: `PipelineTypeCorrect`, `RequestsSentWhole`,
  `ResponsesAsAsked`, `EncodingsTrue`. `PipelineTraverses` says that every step of the pipeline is a
  step of the traversal or leaves it alone, which carries the theorems on the traversal
  over: `PipelineCollectsExactly`, `PipelineBoundsRecursion`.

Where a theorem assumes one request, one query or one initialisation at a time, its property is
false with two: see "The runs".

Every invariant and action property of the runs that pass is stated by a theorem. Only
model-checked: liveness (`RequestsAnswered` in both modules, `QueriesAnswered`,
`RequestAnswered`), as fairness and ENABLED are beyond the prover. Of `RequestsAnswered`, the
parts that are safety are proved: `EveryRequestProgresses` for MCP, `HoldersReleaseLocks` for the locks.

## Not modelled

- The texts: prompts, JSON, embeddings, scores. A search or an LLM returns any of
  the values it could.
- Tyk, Redis, the embedding library, the LLM and the MCP servers, except as what they
  return to the plugin, failures included.
- The path, query and header parameters that the LLM fills in: the request is a call of the
  operation, with the body the LLM gave or none.
- `parseConfigData` and the environment variables: a definition's configuration is complete, incomplete or ill-typed.
- The loop of `processInfo` over `mcpConfig`: it changes nothing, and can be
  overtaken by `/mcp/init` as the tool lists of `McpServers` are.
- Several gateways on one Redis: `storeVersion` is per process, so they would not see
  each other's changes; the models have one process.

## Plan

1. done: `ServiceCatalog`, `PluginConfig`; `CrossApiRouter`; `McpServers`.
2. done: `SchemaRefs`, `RequestPipeline`, and the theorems on both.
3. done: the theorems for one request (`PluginConfig`) and one query (`CrossApiRouter`).
4. The composition of `PluginConfig` and `CrossApiRouter`, which now meet only in
   `ServiceCatalog`: a query in flight while an API is deleted and initialised again.
5. done: `RecursionBounded` as a theorem; what holds of the router and of MCP for any number of
   queries and initialisations.
6. A bound on the work of a request, as `Work` is for MCP, for `PluginConfig`, `CrossApiRouter`
   and the pipeline.
