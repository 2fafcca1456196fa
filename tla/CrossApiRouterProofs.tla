------------------------ MODULE CrossApiRouterProofs ------------------------
(***************************************************************************)
(* Theorems about CrossApiRouter, for every catalogue, and their proofs.   *)
(*                                                                         *)
(* The reload protocol of initServicePluginApiConfig is correct for one    *)
(* reader at a time; the argument needs to know what a reload in progress  *)
(* still owes the copy, and that the copy never carries a version from the *)
(* future.                                                                 *)
(***************************************************************************)
EXTENDS CrossApiRouter, TLAPS

\* One query at a time, which is what the reload protocol is right for.
SingleReader == \E q \in Query : Query = {q}

\* The copy claims to be the catalogue as it is.
Current == cachedVersion = storeVersion /\ ~unannounced

\* The copy as it will be when the reload of q has come to its end.
Reloaded(q) == [a \in Api |-> IF pending[q][a] # Nil THEN pending[q][a] ELSE services[a]]

CopyInv ==
    \A q \in Query :
        /\ pc[q] \in {"version", "fetch"} => services = Empty
        /\ pc[q] = "fill" /\ Current => Reloaded(q) = store
        /\ pc[q] \notin {"version", "fetch", "fill"} /\ Current => services \in {store, Empty}

\* Nobody adds to an index that has not been made, or searches it.
IndexMade ==
    \A q \in Query : pc[q] \in {"loop", "build", "embed", "search"} => index # Nil

RInv == TypeOK /\ IndexMade /\ cachedVersion <= storeVersion /\ CopyInv

-----------------------------------------------------------------------------
(* Types. They do not depend on the number of readers.                     *)

LEMMA OutcomesTyped ==
    /\ \A kind \in {"none", "error", "too_large", "no_service", "mcp", "info", "panic"} :
          Unrouted(kind) \in Outcomes
    /\ \A service \in Service : Routed(service) \in Outcomes
BY DEF Unrouted, Routed, Outcomes

LEMMA AnswerTyped ==
    ASSUME TypeOK, NEW q \in Query, NEW outcome \in Outcomes, Answer(q, outcome),
           UNCHANGED <<catalogVars, cacheVars>>
    PROVE  TypeOK'
<1>1. Empty \in Catalogues
  BY DEF Empty, Catalogues
<1> QED
  BY <1>1 DEF TypeOK, CatalogTypeOK, Answer, Goto, catalogVars, cacheVars, Labels

LEMMA ExitTyped ==
    ASSUME TypeOK, ProcessExit
    PROVE  TypeOK'
<1>1. CatalogTypeOK'
  BY DEF TypeOK, CatalogTypeOK, ProcessExit, Restart
<1>2. Empty \in Catalogues /\ Unrouted("none") \in Outcomes
  BY OutcomesTyped DEF Empty, Catalogues
<1> QED
  BY <1>1, <1>2 DEF TypeOK, ProcessExit, Labels

LEMMA ChangeTyped ==
    ASSUME TypeOK, ChangeCatalogue
    PROVE  TypeOK'
<1>1. CatalogTypeOK'
  <2>1. CASE \E a \in Api, e \in Entry : Register(a, e)
    BY <2>1 DEF TypeOK, CatalogTypeOK, Register
  <2>2. CASE \E a \in Api : Deregister(a)
    BY <2>2 DEF TypeOK, CatalogTypeOK, Deregister
  <2>3. CASE Announce
    <3>1. storeVersion' \in Nat /\ UNCHANGED store
      BY <2>3 DEF TypeOK, CatalogTypeOK, Announce
    <3>2. unannounced' \in BOOLEAN
      BY <2>3 DEF Announce
    <3> QED
      BY <3>1, <3>2 DEF TypeOK, CatalogTypeOK
  <2> QED
    BY <2>1, <2>2, <2>3 DEF ChangeCatalogue, CatalogChange
<1> QED
  BY <1>1 DEF TypeOK, ChangeCatalogue, cacheVars, localVars

\* A service taken from what is pending, and the loop that goes on without it.
LEMMA PendingTyped ==
    ASSUME TypeOK, NEW q \in Query, NEW a \in Api, pending[q][a] # Nil
    PROVE  /\ pending[q][a] \in Entry
           /\ After(q, a) \in Catalogues
           /\ <<a, pending[q][a]>> \in Service
BY DEF TypeOK, Catalogues, After, Service

LEMMA FillTyped ==
    ASSUME TypeOK, NEW q \in Query, FillService(q)
    PROVE  TypeOK'
<1>1. PICK a \in Api, seen \in SUBSET attached :
          /\ pending[q][a] # Nil
          /\ services' = [services EXCEPT ![a] = pending[q][a]]
          /\ pending' = [p \in Query |->
                           IF p = q THEN After(q, a)
                           ELSE IF p \in seen THEN [pending[p] EXCEPT ![a] = pending[q][a]]
                           ELSE pending[p]]
          /\ Goto(q, IF After(q, a) = Empty THEN "dispatch" ELSE "fill")
  BY DEF FillService
<1>2. pending[q][a] \in Entry /\ After(q, a) \in Catalogues
  BY <1>1, PendingTyped
<1>3. services' \in Catalogues
  BY <1>1, <1>2 DEF TypeOK, Catalogues
<1>4. pending' \in [Query -> Catalogues]
  <2>1. \A p \in Query : [pending[p] EXCEPT ![a] = pending[q][a]] \in Catalogues
    BY <1>2 DEF TypeOK, Catalogues
  <2> QED
    BY <1>1, <1>2, <2>1 DEF TypeOK
<1>5. pc' \in [Query -> Labels]
  BY <1>1 DEF Goto, TypeOK, Labels
<1> QED
  BY <1>3, <1>4, <1>5 DEF FillService, TypeOK, CatalogTypeOK, catalogVars

LEMMA IndexTyped ==
    ASSUME TypeOK, IndexMade, NEW q \in Query, IndexService(q)
    PROVE  TypeOK'
<1>1. PICK a \in Api :
          /\ pending[q][a] # Nil
          /\ index' \in {index, index \cup {<<a, pending[q][a]>>}}
          /\ pending' = [pending EXCEPT ![q] = After(q, a)]
          /\ \/ Goto(q, "embedder") /\ attached' = attached \ {q}
             \/ Goto(q, "build") /\ UNCHANGED attached
  BY DEF IndexService
<1>2. After(q, a) \in Catalogues /\ <<a, pending[q][a]>> \in Service
  BY <1>1, PendingTyped
<1>3. index' \in (SUBSET Service) \cup {Nil}
  <2>1. index \in SUBSET Service
    BY DEF IndexService, IndexMade, TypeOK
  <2> QED
    BY <1>1, <1>2, <2>1 DEF TypeOK
<1>4. pc' \in [Query -> Labels] /\ attached' \in SUBSET Query
  BY <1>1 DEF TypeOK, Goto, Labels
<1> QED
  BY <1>1, <1>2, <1>3, <1>4 DEF IndexService, TypeOK, CatalogTypeOK, catalogVars

LEMMA IndexFailsTyped ==
    ASSUME TypeOK, IndexMade, NEW q \in Query, IndexServiceFails(q) \/ IndexServicePanics(q)
    PROVE  TypeOK'
<1>1. index \in SUBSET Service
  BY DEF IndexServiceFails, IndexServicePanics, IndexMade, TypeOK
<1>2. PICK a \in Api : /\ pending[q][a] # Nil
                       /\ index' \in {index, index \cup {<<a, pending[q][a]>>}}
  BY DEF IndexServiceFails, IndexServicePanics
<1>3. index' \in SUBSET Service
  BY <1>1, <1>2, PendingTyped
<1>4. /\ Empty \in Catalogues
      /\ Unrouted("error") \in Outcomes /\ Unrouted("panic") \in Outcomes
  BY OutcomesTyped DEF Empty, Catalogues
<1> QED
  BY <1>3, <1>4
     DEF IndexServiceFails, IndexServicePanics, Answer, Goto, TypeOK, CatalogTypeOK, catalogVars, Labels

\* The steps that only move on, or end the query.
LEMMA OtherStepTyped ==
    ASSUME TypeOK, IndexMade, NEW q \in Query, Step(q),
           ~FillService(q), ~IndexService(q), ~IndexServiceFails(q), ~IndexServicePanics(q)
    PROVE  TypeOK'
<1> USE DEF TypeOK, CatalogTypeOK, catalogVars, cacheVars, localVars, Goto, Labels
<1>1. Empty \in Catalogues /\ store \in Catalogues
  BY DEF Empty, Catalogues
<1>2. CASE CheckVersion(q) \/ CheckEmbedder(q) \/ EmbedderSet(q) \/ IndexSet(q) \/ EmbedQuery(q)
  BY <1>2 DEF CheckVersion, CheckEmbedder, EmbedderSet, IndexSet, EmbedQuery
<1>9. CASE FillServiceFatal(q)
  BY <1>9, ExitTyped DEF FillServiceFatal
<1>3. CASE ClearServices(q) \/ SaveVersion(q)
  BY <1>1, <1>3 DEF ClearServices, SaveVersion
<1>4. CASE FetchCatalogue(q)
  BY <1>1, <1>4 DEF FetchCatalogue
<1>5. CASE LoadEmbedder(q)
  BY <1>5 DEF LoadEmbedder
<1>6. CASE LoadEmbedderFails(q)
  BY <1>1, <1>6, OutcomesTyped DEF LoadEmbedderFails, Answer
<1>7. CASE NewIndex(q) \/ StartIndexing(q)
  BY <1>7 DEF NewIndex, StartIndexing
<1>8. CASE FetchFails(q) \/ RefuseQuery(q) \/ SearchImpossible(q) \/ EmbedQueryFails(q)
           \/ EmbedQueryPanics(q) \/ NoServiceFound(q)
  BY <1>8, OutcomesTyped, AnswerTyped
     DEF FetchFails, RefuseQuery, SearchImpossible, EmbedQueryFails, EmbedQueryPanics,
         NoServiceFound
<1>10. CASE ListService(q)
  <2>1. PICK a \in Api : /\ pending[q][a] # Nil
                         /\ pending' = [pending EXCEPT ![q] = After(q, a)]
    BY <1>10 DEF ListService
  <2>2. After(q, a) \in Catalogues
    BY <2>1, PendingTyped
  <2> QED
    BY <1>10, <2>1, <2>2 DEF ListService
<1>11. CASE AnswerInfo(q)
  BY <1>11, OutcomesTyped, AnswerTyped DEF AnswerInfo
<1>12. CASE RouteQuery(q)
  <2>1. PICK service \in index : Answer(q, Routed(service))
    BY <1>12 DEF RouteQuery
  <2>2. Routed(service) \in Outcomes
    BY <1>12, OutcomesTyped DEF RouteQuery, IndexMade
  <2> QED
    BY <1>12, <2>1, <2>2, AnswerTyped DEF RouteQuery
<1> QED
  BY <1>2, <1>3, <1>4, <1>5, <1>6, <1>7, <1>8, <1>9, <1>10, <1>11, <1>12 DEF Step

LEMMA TypedNext == TypeOK /\ IndexMade /\ [Next]_routerVars => TypeOK'
<1> SUFFICES ASSUME TypeOK, IndexMade, [Next]_routerVars PROVE TypeOK'
  OBVIOUS
<1>1. CASE Kill \/ MapRaceDetected
  BY <1>1, ExitTyped DEF Kill, MapRaceDetected
<1>2. ASSUME NEW q \in Query, Arrive(q) \/ ArriveInfo(q) PROVE TypeOK'
  BY <1>2, OutcomesTyped
     DEF Arrive, ArriveInfo, TypeOK, CatalogTypeOK, catalogVars, cacheVars, Goto, Labels
<1>3. CASE \E q \in Query : Step(q)
  BY <1>3, FillTyped, IndexTyped, IndexFailsTyped, OtherStepTyped
<1>4. CASE UNCHANGED routerVars
  BY <1>4 DEF routerVars, catalogVars, cacheVars, localVars, TypeOK, CatalogTypeOK
<1> QED
  BY <1>1, <1>2, <1>3, <1>4, ChangeTyped DEF Next

LEMMA IndexMadeNext == TypeOK /\ IndexMade /\ [Next]_routerVars => IndexMade'
<1> SUFFICES ASSUME TypeOK, IndexMade, [Next]_routerVars PROVE IndexMade'
  OBVIOUS
<1> USE DEF IndexMade, TypeOK
<1>1. CASE Kill \/ MapRaceDetected
  BY <1>1 DEF Kill, MapRaceDetected, ProcessExit
<1>2. CASE ChangeCatalogue \/ UNCHANGED routerVars
  BY <1>2 DEF ChangeCatalogue, routerVars, cacheVars
\* A step takes its query to where an index is needed only if there is one.
<1>3. ASSUME NEW q \in Query, NEW label, Goto(q, label),
             \/ index' # Nil
             \/ UNCHANGED index /\ label \notin {"loop", "build", "embed", "search"}
      PROVE  IndexMade'
  BY <1>3 DEF Goto
<1>4. ASSUME NEW q \in Query, Arrive(q) \/ ArriveInfo(q) PROVE IndexMade'
  BY <1>3, <1>4 DEF Arrive, ArriveInfo, cacheVars
<1>5. ASSUME NEW q \in Query, Step(q) PROVE IndexMade'
  <2>1. CASE IndexService(q) \/ IndexServiceFails(q) \/ IndexServicePanics(q)
    <3>1. index \in SUBSET Service
      BY <2>1 DEF IndexService, IndexServiceFails, IndexServicePanics
    <3>2. PICK a \in Api : /\ pending[q][a] # Nil
                           /\ index' \in {index, index \cup {<<a, pending[q][a]>>}}
      BY <2>1 DEF IndexService, IndexServiceFails, IndexServicePanics
    <3>3. index' \in SUBSET Service
      BY <3>1, <3>2, PendingTyped
    <3>4. index' # Nil
      BY <3>3, RouterAssumption DEF Service
    <3>5. \E label \in Labels : Goto(q, label)
      BY <2>1 DEF IndexService, IndexServiceFails, IndexServicePanics, Answer, Labels
    <3> QED
      BY <1>3, <3>4, <3>5
  <2>2. CASE NewIndex(q)
    <3>1. index' # Nil
      BY <2>2, RouterAssumption DEF NewIndex
    <3> QED
      BY <1>3, <2>2, <3>1 DEF NewIndex
  <2>6. CASE StartIndexing(q) \/ IndexSet(q) \/ EmbedQuery(q)
    <3>1. index # Nil /\ UNCHANGED index
      BY <2>6 DEF StartIndexing, IndexSet, EmbedQuery, cacheVars
    <3> QED
      BY <1>3, <2>6, <3>1 DEF StartIndexing, IndexSet, EmbedQuery
  <2>7. CASE FillServiceFatal(q)
    BY <2>7 DEF FillServiceFatal, ProcessExit
  <2>3. CASE \/ CheckVersion(q) \/ ClearServices(q) \/ SaveVersion(q) \/ FetchCatalogue(q)
             \/ FetchFails(q) \/ FillService(q) \/ RefuseQuery(q) \/ CheckEmbedder(q)
    BY <1>3, <2>3
       DEF CheckVersion, ClearServices, SaveVersion, FetchCatalogue, FetchFails,
           FillService, RefuseQuery, CheckEmbedder, Answer, cacheVars
  <2>4. CASE \/ LoadEmbedder(q) \/ LoadEmbedderFails(q) \/ EmbedderSet(q)
             \/ SearchImpossible(q) \/ EmbedQueryFails(q) \/ EmbedQueryPanics(q)
             \/ RouteQuery(q) \/ NoServiceFound(q)
    BY <1>3, <2>4
       DEF LoadEmbedder, LoadEmbedderFails, EmbedderSet, SearchImpossible, EmbedQueryFails,
           EmbedQueryPanics, RouteQuery, NoServiceFound, Answer, cacheVars
  <2>5. CASE ListService(q) \/ AnswerInfo(q)
    BY <1>3, <2>5 DEF ListService, AnswerInfo, Answer, cacheVars
  <2> QED
    BY <1>5, <2>1, <2>2, <2>3, <2>4, <2>5, <2>6, <2>7 DEF Step
<1> QED
  BY <1>1, <1>2, <1>4, <1>5 DEF Next

LEMMA TypedInit == Init => TypeOK /\ IndexMade
<1> SUFFICES ASSUME Init PROVE TypeOK /\ IndexMade
  OBVIOUS
<1>1. CatalogTypeOK /\ embedder \in BOOLEAN
  BY DEF Init, CatalogInit, CatalogTypeOK
<1>2. Empty \in Catalogues /\ Unrouted("none") \in Outcomes
  BY OutcomesTyped DEF Empty, Catalogues
<1>3. /\ services \in Catalogues
      /\ pending \in [Query -> Catalogues]
      /\ routed \in [Query -> Outcomes]
  BY <1>2 DEF Init
<1>4. /\ cachedVersion \in Nat
      /\ index \in (SUBSET Service) \cup {Nil}
      /\ attached \in SUBSET Query
      /\ pc \in [Query -> Labels]
      /\ IndexMade
  BY DEF Init, Labels, IndexMade
<1> QED
  BY <1>1, <1>3, <1>4 DEF TypeOK

\* Every variable keeps its type, with any number of queries in flight; in
\* particular nobody adds to an index that does not exist, or searches it.
THEOREM RouterTypeCorrect == Spec => [](TypeOK /\ IndexMade)
BY TypedInit, TypedNext, IndexMadeNext, PTL DEF Spec

-----------------------------------------------------------------------------
(* The router implements RoutingPromise, with any number of readers.       *)

\* Where the process has what it knows of the catalogue.
LEMMA KnownServices ==
    /\ \A a \in Api : store[a] # Nil => <<a, store[a]>> \in Known
    /\ \A a \in Api : services[a] # Nil => <<a, services[a]>> \in Known
    /\ \A q \in Query, a \in Api : pending[q][a] # Nil => <<a, pending[q][a]>> \in Known
    /\ index # Nil => index \subseteq Known
<1>1. ASSUME NEW catalogue, NEW a \in Api, catalogue[a] # Nil
      PROVE  <<a, catalogue[a]>> \in Registered(catalogue)
  BY <1>1 DEF Registered
<1>2. /\ Registered(store) \subseteq Known
      /\ Registered(services) \subseteq Known
      /\ \A q \in Query : Registered(pending[q]) \subseteq Known
      /\ index # Nil => index \subseteq Known
  BY DEF Known
<1> QED
  BY <1>1, <1>2

\* A step that puts into the copy, the loops and the index nothing but what is
\* known or registered.
LEMMA RememberStep ==
    ASSUME \A a \in Api : services'[a] # Nil =>
               <<a, services'[a]>> \in Known \cup Registered(store'),
           \A q \in Query, a \in Api : pending'[q][a] # Nil =>
               <<a, pending'[q][a]>> \in Known \cup Registered(store'),
           index' # Nil => index' \subseteq Known \cup Registered(store')
    PROVE  Promise!Remember
<1>1. Registered(store') = Promise!Registered(store')
  BY DEF Registered, Promise!Registered
<1>2. Registered(store') \subseteq Known'
  BY DEF Known
<1>3. ASSUME NEW s \in Known' PROVE s \in Known \cup Registered(store')
  <2>1. CASE s \in Registered(store')
    BY <2>1
  <2>2. CASE s \in Registered(services')
    BY <2>2 DEF Registered
  <2>3. CASE \E q \in Query : s \in Registered(pending'[q])
    BY <2>3 DEF Registered
  <2>4. CASE index' # Nil /\ s \in index'
    BY <2>4
  <2>5. \/ s \in Registered(store') \/ s \in Registered(services')
        \/ \E q \in Query : s \in Registered(pending'[q])
        \/ index' # Nil /\ s \in index'
    BY <1>3 DEF Known
  <2> QED
    BY <2>1, <2>2, <2>3, <2>4, <2>5
<1> QED
  BY <1>1, <1>2, <1>3 DEF Promise!Remember

\* What a loop has not done yet is part of what it had to do.
LEMMA AfterKnown ==
    ASSUME TypeOK, NEW q \in Query, NEW a \in Api, NEW b \in Api, After(q, a)[b] # Nil
    PROVE  After(q, a)[b] = pending[q][b]
BY DEF TypeOK, Catalogues, After

LEMMA AnswerKnown ==
    ASSUME TypeOK, NEW q \in Query, NEW outcome \in Outcomes, Answer(q, outcome),
           UNCHANGED <<store, services>>,
           outcome.kind = "routed" => outcome.to \in Known,
           index' # Nil => index' \subseteq Known
    PROVE  Promise!PromiseNext
<1>1. \A p \in Query, a \in Api : pending'[p][a] \in {pending[p][a], Nil}
  BY DEF Answer, TypeOK, Empty
<1>2. Promise!Remember
  BY <1>1, KnownServices, RememberStep
<1>3. Promise!Answer(q, outcome)
  BY <1>2 DEF Answer, Promise!Answer
<1> QED
  BY <1>3 DEF Promise!PromiseNext

\* The steps of a query that is not answered by them.
LEMMA WorkKnown ==
    ASSUME TypeOK, IndexMade, NEW q \in Query,
           \/ CheckVersion(q) \/ ClearServices(q) \/ SaveVersion(q) \/ FetchCatalogue(q)
           \/ FillService(q) \/ CheckEmbedder(q) \/ LoadEmbedder(q) \/ NewIndex(q)
           \/ StartIndexing(q) \/ IndexService(q) \/ EmbedderSet(q) \/ IndexSet(q)
           \/ EmbedQuery(q) \/ ListService(q)
    PROVE  Promise!Remember /\ UNCHANGED routed
<1> USE KnownServices, RememberStep DEF TypeOK
<1>1. CASE \/ CheckVersion(q) \/ SaveVersion(q) \/ CheckEmbedder(q) \/ LoadEmbedder(q)
           \/ EmbedderSet(q) \/ IndexSet(q) \/ EmbedQuery(q)
  <2>1. UNCHANGED <<services, index, pending, routed>>
    BY <1>1 DEF CheckVersion, SaveVersion, CheckEmbedder, LoadEmbedder, EmbedderSet, IndexSet,
                EmbedQuery, cacheVars, localVars
  <2> QED
    BY <2>1
<1>2. CASE ClearServices(q)
  <2>1. UNCHANGED <<index, pending, routed>> /\ \A a \in Api : services'[a] = Nil
    BY <1>2 DEF ClearServices, Empty
  <2> QED
    BY <2>1
<1>3. CASE FetchCatalogue(q)
  <2>1. UNCHANGED <<services, index, routed>>
    BY <1>3 DEF FetchCatalogue, cacheVars
  <2>2. \A p \in Query, a \in Api : pending'[p][a] \in {pending[p][a], store[a]}
    BY <1>3 DEF FetchCatalogue
  <2> QED
    BY <2>1, <2>2
<1>4. CASE FillService(q)
  <2>1. PICK a \in Api, seen \in SUBSET attached :
            /\ pending[q][a] # Nil
            /\ services' = [services EXCEPT ![a] = pending[q][a]]
            /\ pending' = [p \in Query |->
                             IF p = q THEN After(q, a)
                             ELSE IF p \in seen THEN [pending[p] EXCEPT ![a] = pending[q][a]]
                             ELSE pending[p]]
    BY <1>4 DEF FillService
  <2>2. \A b \in Api : services'[b] = IF b = a THEN pending[q][a] ELSE services[b]
    BY <2>1 DEF Catalogues
  <2>3. ASSUME NEW p \in Query, NEW b \in Api, pending'[p][b] # Nil
        PROVE  pending'[p][b] = pending[p][b] \/ (b = a /\ pending'[p][b] = pending[q][a])
    <3>1. pending[p] \in Catalogues
      OBVIOUS
    <3>2. pending'[p] \in {After(p, a), [pending[p] EXCEPT ![a] = pending[q][a]], pending[p]}
      BY <2>1
    <3> QED
      BY <2>3, <3>1, <3>2, AfterKnown DEF Catalogues
  <2>4. UNCHANGED <<index, routed>>
    BY <1>4 DEF FillService
  <2> QED
    BY <2>1, <2>2, <2>3, <2>4
<1>5. CASE NewIndex(q) \/ StartIndexing(q)
  <2>1. UNCHANGED <<services, routed>> /\ index' \in {{}, index}
    BY <1>5 DEF NewIndex, StartIndexing, cacheVars, localVars
  <2>2. \A p \in Query, a \in Api : pending'[p][a] \in {pending[p][a], services[a]}
    BY <1>5 DEF NewIndex, StartIndexing, localVars
  <2> QED
    BY <2>1, <2>2
<1>6. CASE IndexService(q) \/ ListService(q)
  <2>1. PICK a \in Api :
            /\ pending[q][a] # Nil
            /\ index' \in {index, index \cup {<<a, pending[q][a]>>}}
            /\ pending' = [pending EXCEPT ![q] = After(q, a)]
    BY <1>6 DEF IndexService, ListService, cacheVars
  <2>2. UNCHANGED <<services, routed>>
    BY <1>6 DEF IndexService, ListService, cacheVars
  <2>3. \A p \in Query, b \in Api : pending'[p][b] # Nil => pending'[p][b] = pending[p][b]
    BY <2>1, AfterKnown
  <2>4. index' # Nil => index' \subseteq Known
    <3>1. index # Nil \/ UNCHANGED index
      BY <1>6 DEF IndexService, ListService, IndexMade, cacheVars
    <3> QED
      BY <2>1, <3>1
  <2> QED
    BY <2>2, <2>3, <2>4
<1> QED
  BY <1>1, <1>2, <1>3, <1>4, <1>5, <1>6

LEMMA ExitForgets == ProcessExit => Promise!Forget
<1> SUFFICES ASSUME ProcessExit PROVE Promise!Forget
  OBVIOUS
<1>1. /\ \A a \in Api : services'[a] = Nil
      /\ \A q \in Query, a \in Api : pending'[q][a] = Nil
      /\ index' = Nil
  BY DEF ProcessExit, Empty
<1>2. Known' = Promise!Registered(store')
  BY <1>1 DEF Known, Registered, Promise!Registered
<1>3. routed' = Promise!NotRouted
  BY DEF ProcessExit, Promise!NotRouted, Unrouted
<1> QED
  BY <1>2, <1>3 DEF Promise!Forget

LEMMA PromiseStep ==
    ASSUME TypeOK, IndexMade, [Next]_routerVars
    PROVE  [Promise!PromiseNext]_(Promise!promiseVars)
<1>1. CASE UNCHANGED routerVars
  BY <1>1 DEF routerVars, catalogVars, cacheVars, localVars, Promise!promiseVars, Known, Registered
<1>2. CASE Kill \/ MapRaceDetected
  BY <1>2, ExitForgets DEF Kill, MapRaceDetected, Promise!PromiseNext
<1>3. CASE ChangeCatalogue
  <2>1. UNCHANGED <<services, pending, index, routed>>
    BY <1>3 DEF ChangeCatalogue, cacheVars, localVars
  <2> QED
    BY <2>1, KnownServices, RememberStep DEF Promise!Learn, Promise!PromiseNext
<1>4. ASSUME NEW q \in Query, Arrive(q) \/ ArriveInfo(q) PROVE Promise!PromiseNext
  <2>1. UNCHANGED <<store, services, index>>
        /\ routed' = [routed EXCEPT ![q] = Unrouted("none")]
    BY <1>4 DEF Arrive, ArriveInfo, catalogVars, cacheVars
  <2>2. \A p \in Query, a \in Api : pending'[p][a] \in {pending[p][a], services[a]}
    BY <1>4 DEF Arrive, ArriveInfo, TypeOK
  <2>3. Promise!Remember
    BY <2>1, <2>2, KnownServices, RememberStep
  <2>4. Promise!Answer(q, Unrouted("none")) /\ Unrouted("none") \in Outcomes
    BY <2>1, <2>3, OutcomesTyped DEF Promise!Answer, Unrouted
  <2> QED
    BY <2>4 DEF Promise!PromiseNext
<1>5. ASSUME NEW q \in Query, Step(q) PROVE Promise!PromiseNext
  <2>1. ASSUME NEW kind \in {"none", "error", "too_large", "no_service", "mcp", "info", "panic"},
               Answer(q, Unrouted(kind)), UNCHANGED <<store, services>>,
               index' # Nil => index' \subseteq Known
        PROVE  Promise!PromiseNext
    <3>1. Unrouted(kind) \in Outcomes /\ Unrouted(kind).kind # "routed"
      BY OutcomesTyped DEF Unrouted
    <3> QED
      BY <2>1, <3>1, AnswerKnown
  <2>2. CASE \/ FetchFails(q) \/ RefuseQuery(q) \/ LoadEmbedderFails(q)
             \/ SearchImpossible(q) \/ EmbedQueryFails(q) \/ EmbedQueryPanics(q)
             \/ NoServiceFound(q) \/ AnswerInfo(q)
    <3>1. PICK kind \in {"error", "too_large", "no_service", "mcp", "info", "panic"} :
              Answer(q, Unrouted(kind))
      BY <2>2 DEF FetchFails, RefuseQuery, LoadEmbedderFails, SearchImpossible,
                  EmbedQueryFails, EmbedQueryPanics, NoServiceFound, AnswerInfo
    <3>2. UNCHANGED <<store, services, index>>
      BY <2>2 DEF FetchFails, RefuseQuery, LoadEmbedderFails, SearchImpossible,
                  EmbedQueryFails, EmbedQueryPanics, NoServiceFound, AnswerInfo, catalogVars, cacheVars
    <3> QED
      BY <2>1, <3>1, <3>2, KnownServices
  <2>3. CASE IndexServiceFails(q) \/ IndexServicePanics(q)
    <3>1. PICK a \in Api :
              /\ pending[q][a] # Nil
              /\ index' \in {index, index \cup {<<a, pending[q][a]>>}}
      BY <2>3 DEF IndexServiceFails, IndexServicePanics
    <3>2. index # Nil
      BY <2>3 DEF IndexServiceFails, IndexServicePanics, IndexMade
    <3>3. index' \subseteq Known
      BY <3>1, <3>2, KnownServices
    <3> QED
      BY <2>1, <2>3, <3>3 DEF IndexServiceFails, IndexServicePanics, catalogVars
  <2>4. CASE RouteQuery(q)
    <3>1. PICK service \in index : Answer(q, Routed(service))
      BY <2>4 DEF RouteQuery
    <3>2. service \in Known /\ service \in Service
      BY <2>4, KnownServices DEF RouteQuery, IndexMade, TypeOK
    <3>3. UNCHANGED <<store, services, index>>
      BY <2>4 DEF RouteQuery, catalogVars, cacheVars
    <3>4. Routed(service) \in Outcomes /\ Routed(service).to = service
      BY <3>2, OutcomesTyped DEF Routed
    <3> QED
      BY <3>1, <3>2, <3>3, <3>4, KnownServices, AnswerKnown
  <2>5. CASE \/ CheckVersion(q) \/ ClearServices(q) \/ SaveVersion(q) \/ FetchCatalogue(q)
             \/ FillService(q) \/ CheckEmbedder(q) \/ LoadEmbedder(q) \/ NewIndex(q)
             \/ StartIndexing(q) \/ IndexService(q) \/ EmbedderSet(q) \/ IndexSet(q)
             \/ EmbedQuery(q) \/ ListService(q)
    BY <2>5, WorkKnown DEF Promise!Learn, Promise!PromiseNext
  <2>6. CASE FillServiceFatal(q)
    BY <2>6, ExitForgets DEF FillServiceFatal, Promise!PromiseNext
  <2> QED
    BY <1>5, <2>2, <2>3, <2>4, <2>5, <2>6 DEF Step
<1> QED
  BY <1>1, <1>2, <1>3, <1>4, <1>5 DEF Next

LEMMA PromiseStart == Init => Promise!PromiseInit
<1> SUFFICES ASSUME Init PROVE Promise!PromiseInit
  OBVIOUS
<1>1. /\ \A a \in Api : services[a] = Nil
      /\ \A q \in Query, a \in Api : pending[q][a] = Nil
      /\ index = Nil
  BY DEF Init, Empty
<1>2. Known = Promise!Registered(store)
  BY <1>1 DEF Known, Registered, Promise!Registered
<1>3. routed = Promise!NotRouted
  BY DEF Init, Promise!NotRouted, Unrouted
<1> QED
  BY <1>2, <1>3 DEF Promise!PromiseInit

\* However many queries share the copy, its loops and the index without a
\* lock, the router keeps the promise of RoutingPromise: a query is sent only
\* to a service that has been registered since the process started.
THEOREM ImplementsPromise == Spec => RoutingImplemented
BY PromiseStart, PromiseStep, RouterTypeCorrect, PTL
   DEF Spec, RoutingImplemented, Promise!PromiseSpec

-----------------------------------------------------------------------------
(* One reader at a time.                                                   *)

\* A change of the catalogue leaves the copy behind: it is unannounced, or it
\* has moved the version past the copy's.
LEMMA ChangeOK ==
    ASSUME RInv, ChangeCatalogue
    PROVE  cachedVersion' <= storeVersion' /\ CopyInv'
<1>1. UNCHANGED <<services, cachedVersion, pc, pending>>
  BY DEF ChangeCatalogue, cacheVars, localVars
<1>2. CASE (\E a \in Api, e \in Entry : Register(a, e)) \/ \E a \in Api : Deregister(a)
  <2>1. unannounced' = TRUE /\ UNCHANGED storeVersion
    BY <1>2 DEF Register, Deregister
  <2>2. ~Current'
    BY <2>1 DEF Current
  <2> QED
    BY <1>1, <2>1, <2>2 DEF RInv, CopyInv, Empty
<1>3. CASE Announce
  <2>1. storeVersion' = storeVersion + 1
    BY <1>3 DEF Announce
  <2>2. cachedVersion' < storeVersion'
    BY <1>1, <2>1 DEF RInv, TypeOK, CatalogTypeOK
  <2>3. ~Current'
    BY <1>1, <2>1, <2>2 DEF Current, RInv, TypeOK, CatalogTypeOK
  <2> QED
    BY <1>1, <2>1, <2>2, <2>3 DEF RInv, CopyInv, Empty, TypeOK, CatalogTypeOK
<1> QED
  BY <1>2, <1>3 DEF ChangeCatalogue, CatalogChange

LEMMA ExitCopy ==
    ASSUME ProcessExit
    PROVE  cachedVersion' <= storeVersion' /\ CopyInv'
BY DEF ProcessExit, Restart, CopyInv

\* A step outside the reload that leaves the copy alone.
LEMMA CopyKept ==
    ASSUME RInv, NEW q \in Query, Query = {q}, NEW label, Goto(q, label),
           pc[q] \notin {"version", "fetch", "fill"},
           label \notin {"version", "fetch", "fill"},
           UNCHANGED <<store, storeVersion, unannounced, services, cachedVersion>>
    PROVE  CopyInv'
<1>1. pc'[q] = label
  BY DEF Goto, RInv, TypeOK
<1>2. (Current' <=> Current) /\ Empty' = Empty
  BY DEF Current, Empty
<1> QED
  BY <1>1, <1>2 DEF RInv, CopyInv

LEMMA StepCopy ==
    ASSUME RInv, NEW q \in Query, Query = {q}, Step(q)
    PROVE  cachedVersion' <= storeVersion' /\ CopyInv'
<1>1. CASE ClearServices(q)
  BY <1>1 DEF ClearServices, Goto, RInv, TypeOK, CopyInv, catalogVars
<1>2. CASE SaveVersion(q)
  BY <1>2 DEF SaveVersion, Goto, RInv, TypeOK, CatalogTypeOK, CopyInv, catalogVars
<1>3. CASE FetchCatalogue(q)
  <2>1. services = Empty /\ UNCHANGED <<services, cachedVersion, catalogVars>>
    BY <1>3 DEF FetchCatalogue, RInv, CopyInv, cacheVars
  <2>2. pending'[q] = store
    BY <1>3 DEF FetchCatalogue, RInv, TypeOK
  <2>3. Reloaded(q)' = store
    BY <2>1, <2>2 DEF Reloaded, Empty, RInv, TypeOK, CatalogTypeOK
  <2>4. pc'[q] \in {"dispatch", "fill"}
    BY <1>3 DEF FetchCatalogue, Goto, RInv, TypeOK
  <2> QED
    BY <2>1, <2>3, <2>4 DEF CopyInv, RInv, Empty, catalogVars
<1>4. CASE FillService(q)
  <2>1. PICK a \in Api :
            /\ pending[q][a] # Nil
            /\ services' = [services EXCEPT ![a] = pending[q][a]]
            /\ pending'[q] = After(q, a)
            /\ Goto(q, IF After(q, a) = Empty THEN "dispatch" ELSE "fill")
    BY <1>4 DEF FillService
  <2>2. UNCHANGED <<store, storeVersion, unannounced, cachedVersion>>
    BY <1>4 DEF FillService, catalogVars
  <2>3. Reloaded(q)' = Reloaded(q)
    BY <2>1 DEF Reloaded, After, RInv, TypeOK, Catalogues
  <2>4. (Current' <=> Current) /\ Empty' = Empty
    BY <2>2 DEF Current, Empty
  <2>5. Current => Reloaded(q)' = store'
    BY <1>4, <2>2, <2>3 DEF FillService, RInv, CopyInv
  <2>6. CASE After(q, a) = Empty
    <3>1. services' \in Catalogues
      BY <2>1, PendingTyped DEF RInv, TypeOK, Catalogues
    <3>2. Reloaded(q)' = services'
      BY <2>1, <2>6, <3>1 DEF Reloaded, Empty, Catalogues
    <3>3. pc'[q] = "dispatch"
      BY <2>1, <2>6 DEF Goto, RInv, TypeOK
    <3> QED
      BY <2>2, <2>4, <2>5, <3>2, <3>3 DEF CopyInv, RInv
  <2>7. CASE After(q, a) # Empty
    <3>1. pc'[q] = "fill"
      BY <2>1, <2>7 DEF Goto, RInv, TypeOK
    <3> QED
      BY <2>2, <2>4, <2>5, <3>1 DEF CopyInv, RInv
  <2> QED
    BY <2>6, <2>7
<1>5. CASE FetchFails(q)
  <2>1. services = Empty /\ UNCHANGED <<services, cachedVersion, catalogVars>>
    BY <1>5 DEF FetchFails, RInv, CopyInv, cacheVars
  <2>2. pc'[q] = "idle"
    BY <1>5 DEF FetchFails, Answer, Goto, RInv, TypeOK
  <2> QED
    BY <2>1, <2>2 DEF CopyInv, RInv, Empty, catalogVars
<1>6. CASE CheckVersion(q) \/ RefuseQuery(q) \/ CheckEmbedder(q) \/ LoadEmbedder(q)
           \/ LoadEmbedderFails(q) \/ NewIndex(q) \/ StartIndexing(q) \/ IndexService(q)
  BY <1>6, CopyKept
     DEF CheckVersion, RefuseQuery, CheckEmbedder, LoadEmbedder, LoadEmbedderFails,
         NewIndex, StartIndexing, IndexService, Answer, catalogVars, cacheVars, RInv
<1>9. CASE FillServiceFatal(q)
  BY <1>9, ExitCopy DEF FillServiceFatal
<1>10. CASE EmbedderSet(q) \/ IndexSet(q) \/ EmbedQuery(q)
  BY <1>10, CopyKept DEF EmbedderSet, IndexSet, EmbedQuery, catalogVars, cacheVars, RInv
<1>7. CASE IndexServiceFails(q) \/ IndexServicePanics(q) \/ SearchImpossible(q)
           \/ EmbedQueryFails(q) \/ EmbedQueryPanics(q) \/ RouteQuery(q) \/ NoServiceFound(q)
  BY <1>7, CopyKept
     DEF IndexServiceFails, IndexServicePanics, SearchImpossible, EmbedQueryFails,
         EmbedQueryPanics, RouteQuery, NoServiceFound, Answer, catalogVars, cacheVars, RInv
<1>8. CASE ListService(q) \/ AnswerInfo(q)
  <2>1. /\ pc[q] = "info" /\ pc'[q] \in {"info", "idle"}
        /\ UNCHANGED <<catalogVars, cacheVars>>
    BY <1>8 DEF ListService, AnswerInfo, Answer, Goto, RInv, TypeOK
  <2> QED
    BY <2>1 DEF CopyInv, RInv, Current, Empty, catalogVars, cacheVars
<1> QED
  BY <1>1, <1>2, <1>3, <1>4, <1>5, <1>6, <1>7, <1>8, <1>9, <1>10 DEF Step

LEMMA CopyNext ==
    ASSUME SingleReader
    PROVE  RInv /\ [Next]_routerVars => RInv'
<1> SUFFICES ASSUME RInv, [Next]_routerVars
             PROVE  cachedVersion' <= storeVersion' /\ CopyInv'
  BY TypedNext, IndexMadeNext DEF RInv
<1>1. CASE Kill \/ MapRaceDetected
  BY <1>1, ExitCopy DEF Kill, MapRaceDetected
<1>2. ASSUME NEW q \in Query, Arrive(q) \/ ArriveInfo(q)
      PROVE  cachedVersion' <= storeVersion' /\ CopyInv'
  BY <1>2, CopyKept DEF SingleReader, Arrive, ArriveInfo, catalogVars, cacheVars, RInv
<1>3. ASSUME NEW q \in Query, Step(q) PROVE cachedVersion' <= storeVersion' /\ CopyInv'
  BY <1>3, StepCopy DEF SingleReader
<1>4. CASE UNCHANGED routerVars
  BY <1>4 DEF routerVars, catalogVars, cacheVars, localVars, RInv, CopyInv, Current,
              Reloaded, Empty
<1> QED
  BY <1>1, <1>2, <1>3, <1>4, ChangeOK DEF Next

\* With one query at a time, whatever the catalogue's writers do, the copy
\* that carries the current version is the catalogue, or is empty and will be
\* loaded again: saving the version before the data is read is enough.
THEOREM CopyCoherent ==
    ASSUME SingleReader
    PROVE  Spec => []CacheCoherent
<1>1. Init => RInv
  <2>1. Init => cachedVersion <= storeVersion /\ CopyInv
    BY DEF Init, CatalogInit, CopyInv
  <2> QED
    BY <2>1, TypedInit DEF RInv
<1>2. RInv /\ [Next]_routerVars => RInv'
  BY CopyNext
<1>3. RInv => CacheCoherent
  BY DEF SingleReader, RInv, CopyInv, CacheCoherent, Reloading, Current
<1> QED
  BY <1>1, <1>2, <1>3, PTL DEF Spec

-----------------------------------------------------------------------------
(* The index is made once, from the copy as it is at the first query.      *)

Fresh == storeVersion = 0 /\ ~unannounced

\* Every service that can be matched is in the index.
Complete == \A a \in Api : store[a] \notin Mute \cup {Nil} => <<a, store[a]>> \in index

\* What the loop of q has not indexed yet is pending.
Accounted(q) ==
    \A a \in Api :
        /\ pending[q][a] \in {Nil, store[a]}
        /\ store[a] \notin Mute \cup {Nil} =>
              pending[q][a] = store[a] \/ <<a, store[a]>> \in index

Making == {"new_index", "loop", "build"}

Selecting == {"dispatch", "load", "embedder", "index", "embed", "search"} \cup Making

IndexInv ==
    Fresh => \A q \in Query :
        /\ pc[q] \in Selecting => services = store
        /\ pc[q] = "build" => Accounted(q)
        /\ embedder /\ index # Nil /\ pc[q] \notin Making => Complete

\* In a fresh catalogue the copy is current.
LEMMA FreshIsCurrent == RInv /\ Fresh => Current
BY DEF RInv, Fresh, Current, TypeOK, CatalogTypeOK

\* A step that leaves the index alone, and goes on with the copy of a fresh
\* catalogue only if it is the catalogue.
LEMMA IndexKept ==
    ASSUME RInv, IndexInv, NEW q \in Query, Query = {q}, NEW label, Goto(q, label),
           pc[q] \notin Making, label \notin {"loop", "build"},
           label \in Selecting /\ Fresh => services' = store,
           UNCHANGED <<store, storeVersion, unannounced, index>>,
           embedder' => embedder \/ label = "new_index"
    PROVE  IndexInv'
<1>1. pc'[q] = label
  BY DEF Goto, RInv, TypeOK
<1>2. (Fresh' <=> Fresh) /\ (Complete' <=> Complete)
  BY DEF Fresh, Complete
<1> QED
  BY <1>1, <1>2 DEF IndexInv, Making

LEMMA StepIndex ==
    ASSUME "embed" \notin Fault, RInv, IndexInv, RInv', NEW q \in Query, Query = {q}, Step(q)
    PROVE  IndexInv'
<1> USE DEF Making, Selecting
<1>10. CASE FillServiceFatal(q)
  BY <1>10 DEF FillServiceFatal, ProcessExit, IndexInv
<1>11. SUFFICES ASSUME ~FillServiceFatal(q) PROVE IndexInv'
  BY <1>10
<1>1. UNCHANGED <<store, storeVersion, unannounced>>
  BY <1>11
     DEF Step, CheckVersion, ClearServices, SaveVersion, FetchCatalogue, FetchFails,
         FillService, RefuseQuery, CheckEmbedder, LoadEmbedder, LoadEmbedderFails, NewIndex,
         StartIndexing, IndexService, IndexServiceFails, IndexServicePanics, EmbedderSet,
         IndexSet, SearchImpossible, EmbedQuery, EmbedQueryFails, EmbedQueryPanics,
         RouteQuery, NoServiceFound, ListService, AnswerInfo, catalogVars
<1>2. CASE CheckVersion(q)
  <2>1. services # Empty /\ Fresh => services = store
    BY <1>2, FreshIsCurrent DEF CheckVersion, RInv, CopyInv
  <2> QED
    BY <1>1, <1>2, <2>1, IndexKept DEF CheckVersion, cacheVars
<1>3. CASE ClearServices(q) \/ SaveVersion(q) \/ FetchFails(q)
  BY <1>1, <1>3, IndexKept DEF ClearServices, SaveVersion, FetchFails, Answer, cacheVars
<1>4. CASE FetchCatalogue(q)
  <2>1. services = Empty
    BY <1>4 DEF FetchCatalogue, RInv, CopyInv
  <2> QED
    BY <1>1, <1>4, <2>1, IndexKept DEF FetchCatalogue, cacheVars
<1>5. CASE FillService(q)
  <2>1. PICK a \in Api :
            /\ pending[q][a] # Nil
            /\ services' = [services EXCEPT ![a] = pending[q][a]]
            /\ Goto(q, IF After(q, a) = Empty THEN "dispatch" ELSE "fill")
    BY <1>5 DEF FillService
  <2>2. CASE After(q, a) = Empty /\ Fresh
    <3>1. pc'[q] = "dispatch"
      BY <2>1, <2>2 DEF Goto, RInv, TypeOK
    <3>2. Current'
      <4>1. Fresh'
        BY <1>1, <2>2 DEF Fresh
      <4> QED
        BY <4>1, FreshIsCurrent, PTL
    <3>3. services' \in {store, Empty}
      BY <1>1, <3>1, <3>2 DEF RInv, CopyInv, Empty
    <3>4. services' # Empty
      BY <2>1 DEF Empty, RInv, TypeOK, Catalogues
    <3> QED
      BY <1>1, <1>5, <2>1, <2>2, <3>3, <3>4, IndexKept DEF FillService
  <2>3. CASE After(q, a) # Empty \/ ~Fresh
    BY <1>1, <1>5, <2>1, <2>3, IndexKept DEF FillService
  <2> QED
    BY <2>2, <2>3
<1>6. CASE \/ RefuseQuery(q) \/ CheckEmbedder(q) \/ LoadEmbedder(q) \/ LoadEmbedderFails(q)
           \/ EmbedderSet(q) \/ IndexSet(q) \/ SearchImpossible(q) \/ EmbedQuery(q)
           \/ EmbedQueryPanics(q) \/ RouteQuery(q) \/ NoServiceFound(q)
           \/ ListService(q) \/ AnswerInfo(q)
  <2>1. Fresh /\ pc[q] \in Selecting => services = store
    BY DEF IndexInv
  <2>2. CASE \/ RefuseQuery(q) \/ CheckEmbedder(q) \/ LoadEmbedder(q) \/ LoadEmbedderFails(q)
    BY <1>1, <2>1, <2>2, IndexKept
       DEF RefuseQuery, CheckEmbedder, LoadEmbedder, LoadEmbedderFails, Answer, cacheVars, RInv, TypeOK
  <2>3. CASE SearchImpossible(q) \/ EmbedQueryPanics(q) \/ RouteQuery(q)
             \/ NoServiceFound(q) \/ AnswerInfo(q)
    BY <1>1, <2>3, IndexKept
       DEF SearchImpossible, EmbedQueryPanics, RouteQuery, NoServiceFound, AnswerInfo, Answer,
           cacheVars
  <2>5. CASE EmbedderSet(q) \/ IndexSet(q) \/ EmbedQuery(q)
    BY <1>1, <2>1, <2>5, IndexKept
       DEF EmbedderSet, IndexSet, EmbedQuery, cacheVars, RInv, TypeOK
  <2>4. CASE ListService(q)
    BY <1>1, <2>4 DEF ListService, IndexInv, Fresh, Complete, cacheVars
  <2> QED
    BY <1>6, <2>2, <2>3, <2>4, <2>5
<1>12. CASE NewIndex(q)
  <2>1. pc[q] = "new_index" /\ pc'[q] = "loop" /\ UNCHANGED <<services, embedder>>
    BY <1>12 DEF NewIndex, Goto, RInv, TypeOK
  <2> QED
    BY <1>1, <2>1 DEF IndexInv, Fresh
<1>7. CASE StartIndexing(q)
  <2>1. /\ UNCHANGED <<services, index, embedder>>
        /\ pending'[q] = services
        /\ pc'[q] \in {"embedder", "build"}
        /\ pc'[q] = "embedder" => services = Empty
        /\ pc[q] = "loop"
    BY <1>7 DEF StartIndexing, Goto, cacheVars, RInv, TypeOK
  <2>2. Fresh' => services = store
    BY <1>1, <2>1 DEF IndexInv, Fresh
  <2>3. Fresh' => Accounted(q)'
    BY <1>1, <2>1, <2>2 DEF Accounted
  <2>4. Fresh' /\ pc'[q] = "embedder" => Complete'
    BY <1>1, <2>1, <2>2 DEF Complete, Empty
  <2> QED
    BY <1>1, <2>1, <2>2, <2>3, <2>4 DEF IndexInv
<1>8. CASE IndexService(q)
  <2>1. PICK a \in Api :
            /\ pending[q][a] # Nil
            /\ \/ pending[q][a] \notin Mute /\ index' = index \cup {<<a, pending[q][a]>>}
               \/ pending[q][a] \in Mute /\ UNCHANGED index
            /\ pending'[q] = After(q, a)
            /\ \/ After(q, a) = Empty /\ Goto(q, "embedder")
               \/ After(q, a) # Empty /\ Goto(q, "build")
    BY <1>8 DEF IndexService, OthersAdding, RInv, TypeOK
  <2>2. /\ UNCHANGED services /\ pc[q] = "build"
        /\ index \subseteq index'
    BY <1>8, <2>1 DEF IndexService, RInv, IndexMade, TypeOK
  <2>3. Fresh' => services = store /\ Accounted(q)
    BY <1>1, <2>2 DEF IndexInv, Fresh
  <2>4. Fresh' => Accounted(q)'
    BY <1>1, <2>1, <2>2, <2>3 DEF Accounted, After, RInv, TypeOK, Catalogues
  <2>5. CASE Goto(q, "embedder") /\ After(q, a) = Empty
    <3>1. Fresh' => Complete'
      BY <2>1, <2>4, <2>5 DEF Accounted, Complete, Empty
    <3>2. pc'[q] = "embedder"
      BY <2>5 DEF Goto, RInv, TypeOK
    <3> QED
      BY <1>1, <2>2, <2>3, <3>1, <3>2 DEF IndexInv
  <2>6. CASE Goto(q, "build")
    <3>1. pc'[q] = "build"
      BY <2>6 DEF Goto, RInv, TypeOK
    <3> QED
      BY <1>1, <2>2, <2>3, <2>4, <3>1 DEF IndexInv
  <2> QED
    BY <2>1, <2>5, <2>6
<1>13. CASE IndexServicePanics(q)
  <2>1. ~embedder' /\ pc'[q] = "idle"
    BY <1>13 DEF IndexServicePanics, Answer, Goto, RInv, TypeOK
  <2> QED
    BY <2>1 DEF IndexInv
<1>9. ~IndexServiceFails(q) /\ ~EmbedQueryFails(q)
  BY DEF IndexServiceFails, EmbedQueryFails
<1> QED
  BY <1>2, <1>3, <1>4, <1>5, <1>6, <1>7, <1>8, <1>9, <1>11, <1>12, <1>13 DEF Step

LEMMA IndexNext ==
    ASSUME SingleReader, "embed" \notin Fault
    PROVE  RInv /\ RInv' /\ IndexInv /\ [Next]_routerVars => IndexInv'
<1> SUFFICES ASSUME RInv, RInv', IndexInv, [Next]_routerVars PROVE IndexInv'
  OBVIOUS
<1>1. CASE Kill \/ MapRaceDetected
  BY <1>1 DEF Kill, MapRaceDetected, ProcessExit, IndexInv, Making, Selecting
<1>2. ASSUME NEW q \in Query, Arrive(q) \/ ArriveInfo(q) PROVE IndexInv'
  <2>1. /\ pc[q] = "idle" /\ pc'[q] \in {"check", "info"}
        /\ UNCHANGED <<catalogVars, cacheVars>>
    BY <1>2 DEF Arrive, ArriveInfo, Goto, RInv, TypeOK
  <2> QED
    BY <2>1 DEF SingleReader, IndexInv, Fresh, Complete, catalogVars, cacheVars, Making,
                Selecting
<1>3. ASSUME NEW q \in Query, Step(q) PROVE IndexInv'
  BY <1>3, StepIndex DEF SingleReader
\* A change that leaves the catalogue fresh has not changed it.
<1>4. CASE ChangeCatalogue
  <2>1. ~Fresh'
    BY <1>4 DEF ChangeCatalogue, CatalogChange, Register, Deregister, Announce, Fresh, RInv,
                TypeOK, CatalogTypeOK
  <2> QED
    BY <2>1 DEF IndexInv
<1>5. CASE UNCHANGED routerVars
  BY <1>5 DEF routerVars, catalogVars, cacheVars, localVars, IndexInv, Fresh, Complete, Accounted
<1> QED
  BY <1>1, <1>2, <1>3, <1>4, <1>5 DEF Next

\* With one query at a time, and no utterance that cannot be embedded, the
\* index that the first query makes holds every service of the catalogue the
\* process has started with. (The process may end and start again, and the
\* store and the model may fail.)
THEOREM IndexCompleteForOne ==
    ASSUME SingleReader, "embed" \notin Fault
    PROVE  Spec => []IndexComplete
<1>1. Init => RInv /\ IndexInv
  <2>1. Init => cachedVersion <= storeVersion /\ CopyInv /\ IndexInv
    BY DEF Init, CatalogInit, CopyInv, IndexInv, Making, Selecting
  <2> QED
    BY <2>1, TypedInit DEF RInv
<1>2. RInv /\ [Next]_routerVars => RInv'
  BY CopyNext
<1>3. RInv /\ RInv' /\ IndexInv /\ [Next]_routerVars => IndexInv'
  BY IndexNext
<1>4. IndexInv => IndexComplete
  BY DEF SingleReader, IndexInv, IndexComplete, Indexed, Fresh, Complete, Making
<1> QED
  BY <1>1, <1>2, <1>3, <1>4, PTL DEF Spec

=============================================================================
