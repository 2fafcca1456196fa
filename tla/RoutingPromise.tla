--------------------------- MODULE RoutingPromise ---------------------------
(***************************************************************************)
(* What the plugin promises about cross-API routing: a query is only sent  *)
(* to a service the process can have learnt of from the Redis catalogue,   *)
(* one that has been registered at some time since the process started.    *)
(* It may be a service that is not registered any more; it is never one    *)
(* put together from the entries of two APIs, nor one that a former        *)
(* process knew.                                                           *)
(*                                                                         *)
(* CrossApiRouter, where any number of queries work on one copy of the     *)
(* catalogue without a lock, is shown to implement this specification.     *)
(***************************************************************************)
CONSTANTS
    Query,    \* slots for queries
    Api,      \* API identifiers
    Outcomes, \* how a query may end: its kind, and where it was sent
    Nil       \* no entry, nowhere

VARIABLES
    store,    \* the catalogue, which others change as they like
    known,    \* the services a query can be sent to, now or later
    routed    \* how the last query of each slot ended

promiseVars == <<store, known, routed>>

\* The services of a catalogue: each API with its entry.
Registered(catalogue) == {<<a, catalogue[a]>> : a \in {b \in Api : catalogue[b] # Nil}}

NotRouted == [q \in Query |-> [kind |-> "none", to |-> Nil]]

PromiseInit ==
    /\ known = Registered(store)
    /\ routed = NotRouted

\* Whatever is registered may be learnt; what is not can only be forgotten.
Remember ==
    /\ Registered(store') \subseteq known'
    /\ known' \subseteq known \cup Registered(store')

Learn == Remember /\ UNCHANGED routed

Answer(q, outcome) ==
    /\ outcome.kind = "routed" => outcome.to \in known
    /\ routed' = [routed EXCEPT ![q] = outcome]
    /\ Remember
    /\ UNCHANGED store

\* The process ends, and with it all it knew.
Forget ==
    /\ known' = Registered(store')
    /\ routed' = NotRouted

PromiseNext ==
    \/ Learn
    \/ \E q \in Query, outcome \in Outcomes : Answer(q, outcome)
    \/ Forget

PromiseSpec == PromiseInit /\ [][PromiseNext]_promiseVars

=============================================================================
