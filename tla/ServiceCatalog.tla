--------------------------- MODULE ServiceCatalog ---------------------------
(***************************************************************************)
(* What the plugin promises about the catalogue of API services it keeps   *)
(* in Redis for cross-API routing: every change of the catalogue is        *)
(* announced by exactly one increment of storeVersion, and the next change *)
(* does not start before the previous one has been announced.              *)
(*                                                                         *)
(* PluginConfig, the module of the handlers that write the catalogue, is   *)
(* shown to implement this specification; CrossApiRouter, the module of    *)
(* the handler that reads it, is composed with it.                         *)
(***************************************************************************)
EXTENDS Naturals

CONSTANTS
    Api,    \* API identifiers (x-tyk-api-gateway.info.id)
    Entry,  \* what can be stored for an API: its target and its utterances
    Nil     \* no entry

ASSUME CatalogAssumption == Nil \notin Entry

VARIABLES
    store,         \* store[a]: the Redis value under key a, survives a restart
    storeVersion,  \* the process-wide version counter
    unannounced    \* has the store changed since storeVersion last moved?

catalogVars == <<store, storeVersion, unannounced>>

CatalogTypeOK ==
    /\ store \in [Api -> Entry \cup {Nil}]
    /\ storeVersion \in Nat
    /\ unannounced \in BOOLEAN

\* A gateway may start on a Redis that an earlier run has filled.
CatalogInit ==
    /\ store \in [Api -> Entry \cup {Nil}]
    /\ storeVersion = 0
    /\ unannounced = FALSE

\* saveApiUterances: SetKey succeeds.
Register(a, e) ==
    /\ ~unannounced
    /\ store' = [store EXCEPT ![a] = e]
    /\ unannounced' = TRUE
    /\ UNCHANGED storeVersion

\* deleteApiUterances: DeleteKey finds the key.
Deregister(a) ==
    /\ ~unannounced
    /\ store[a] # Nil
    /\ store' = [store EXCEPT ![a] = Nil]
    /\ unannounced' = TRUE
    /\ UNCHANGED storeVersion

\* safeIncrementStoreVersion, called after either of them.
Announce ==
    /\ unannounced
    /\ storeVersion' = storeVersion + 1
    /\ unannounced' = FALSE
    /\ UNCHANGED store

\* The gateway process ends and starts again. What it was writing may have
\* reached Redis or not.
Restart ==
    /\ \/ UNCHANGED store
       \/ \E a \in Api, e \in Entry : store' = [store EXCEPT ![a] = e]
    /\ storeVersion' = 0
    /\ unannounced' = FALSE

CatalogChange ==
    \/ \E a \in Api, e \in Entry : Register(a, e)
    \/ \E a \in Api : Deregister(a)
    \/ Announce

CatalogNext == CatalogChange \/ Restart

CatalogSpec == CatalogInit /\ [][CatalogNext]_catalogVars

=============================================================================
