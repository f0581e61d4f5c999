------------------------ MODULE CatalogSwitchProofs ------------------------
(***************************************************************************)
(* Proofs about CatalogSwitch, for any files, names, loads and requests.   *)
(***************************************************************************)
EXTENDS CatalogSwitch, TLAPS

\* A load has its arguments from its call to its return.
ArgInv == \A l \in Loaders : lpc[l] # "idle" <=> want[l] # NoLabel

\* The mutexes: who announced itself on catalogMu is where the code holds it,
\* and nobody is inside while a load is replacing handle and label.
LockInv ==
  /\ writer = Closer <=> phase = "draining"
  /\ \A l \in Loaders : writer = l <=> lpc[l] \in {"swap", "label"}
  /\ \A l \in Loaders : lpc[l] = "label" => inside = {}

\* Who owns which handle: the process serves live, a load owns the one it
\* opened until it serves it, and the one it replaced until it closed it.
OwnerInv ==
  /\ live \in open \cup {NoHandle}
  /\ \A l \in Loaders :
       /\ lpc[l] \in {"persist", "announce", "swap"} => next[l] \in open
       /\ lpc[l] \notin {"persist", "announce", "swap"} => next[l] = NoHandle
       /\ old[l] \in open \cup {NoHandle}
       /\ lpc[l] \notin {"label", "closeOld"} => old[l] = NoHandle
       /\ lpc[l] = "label" => live # NoHandle
  /\ NoLeakedHandle

\* No handle has two owners.
DistinctInv ==
  /\ \A l \in Loaders : next[l] # NoHandle => next[l] # live
  /\ \A l \in Loaders : old[l] # NoHandle => old[l] # live
  /\ \A l, m \in Loaders : next[l] # NoHandle => next[l] # old[m]
  /\ \A l, m \in Loaders : l # m /\ next[l] # NoHandle => next[l] # next[m]
  /\ \A l, m \in Loaders : l # m /\ old[l] # NoHandle => old[l] # old[m]

\* The next handle gets a number no open handle has.
FreshInv == \A h \in open : h.id <= opened

\* What a request has read so far is what is served now.
SeenInv ==
  /\ \A r \in inside : seen[r] \in {{}, {live}, {[label |-> label, revision |-> revision]}}
  /\ \A r \in Readers : r \notin inside => seen[r] = {}

\* A process that runs describes what it serves.
PhaseInv ==
  /\ phase # "down" => label # NoLabel /\ revision > 0
  /\ phase = "down" => /\ open = {} /\ live = NoHandle /\ inside = {}
                       /\ label = NoLabel /\ revision = 0
                       /\ writer = Nobody /\ indexing = Nobody
                       /\ \A l \in Loaders : lpc[l] = "idle"

\* When no file changes under a load, what it opened and serves is valid.
ValidInv ==
  ~EditsInFlight =>
    /\ \A l \in Loaders :
         /\ lpc[l] \in BetweenChecks => file[want[l].path] = "good"
         /\ next[l] # NoHandle => next[l].content = "good"
    /\ live # NoHandle /\ live.id > 0 => live.content = "good"

\* With one load at a time, the stored selection is the one about to be served,
\* and when none is about to be, the one served.
SelectionInv ==
  phase # "down" =>
    /\ \A l \in Loaders : lpc[l] \in {"announce", "swap", "label"} => saved = want[l]
    /\ Settled => \/ label = (IF saved = NoLabel THEN ConfiguredLabel ELSE saved)
                  \/ label = ConfiguredLabel /\ revision = 1

IInv == TypeOK /\ ArgInv /\ LockInv /\ OwnerInv /\ DistinctInv /\ FreshInv /\ SeenInv /\ PhaseInv

---------------------------------------------------------------------------
\* What catalogInfo returns is not a handle.
LEMMA InfoIsNoHandle == \A x, n : [label |-> x, revision |-> n] \notin Handles
  BY DEF Handles

\* Every step keeps every variable in its range, the
\* arguments of a load while it runs, and a down process empty.
LEMMA TypeStep == ASSUME TypeOK, ArgInv, PhaseInv, [Next]_vars PROVE TypeOK' /\ ArgInv' /\ PhaseInv'
<1> USE ConstantsAssumption DEF TypeOK, ArgInv, PhaseInv, disk, shared, loading, reading, Labels,
      Contents, Phases, Places, ConfiguredLabel
<1>1. CASE Start
  <2> USE DEF Handles, Serve, Opens
  <2>1. CASE StartConfigured BY <2>1 DEF StartConfigured
  <2>2. CASE StartSelected BY <2>2 DEF StartSelected
  <2>3. CASE StartFallback BY <2>3 DEF StartFallback
  <2>4. CASE StartAbandoned BY <2>4 DEF StartAbandoned
  <2> QED BY <1>1, <2>1, <2>2, <2>3, <2>4 DEF Start
<1>2. CASE Close
  BY <1>2 DEF Close, BeginClose, CloseLock, CloseCatalog, CloseState
<1>3. CASE ProcessEnds
  BY <1>3 DEF ProcessEnds
<1>4. ASSUME NEW l \in Loaders, LoadStep(l) PROVE TypeOK' /\ ArgInv' /\ PhaseInv'
  <2> USE DEF At, Goto, Return
  <2>1. CASE Validate(l) BY <2>1 DEF Validate
  <2>2. CASE EnterIndex(l) BY <2>2 DEF EnterIndex
  <2>3. CASE BuildIndex(l) BY <2>3 DEF BuildIndex
  <2>4. CASE OpenNext(l)
    <3> DEFINE h == [id |-> opened + 1, path |-> want[l].path, content |-> file[want[l].path]]
    <3>1. want[l] \in Labels BY <2>4 DEF OpenNext
    <3>2. h \in Handles BY <2>4, <3>1 DEF OpenNext, Opens, Handles
    <3> QED BY <2>4, <3>2 DEF OpenNext
  <2>5. CASE OpenFails(l) BY <2>5 DEF OpenFails
  <2>6. CASE Persist(l) BY <2>6 DEF Persist
  <2>7. CASE PersistFails(l) BY <2>7 DEF PersistFails
  <2>8. CASE AnnounceLock(l) BY <2>8 DEF AnnounceLock
  <2>9. CASE SwapHandle(l) BY <2>9 DEF SwapHandle
  <2>10. CASE SwapLabel(l) BY <2>10 DEF SwapLabel
  <2>11. CASE CloseOld(l) BY <2>11 DEF CloseOld
  <2> QED BY <1>4, <2>1, <2>2, <2>3, <2>4, <2>5, <2>6, <2>7, <2>8, <2>9, <2>10, <2>11 DEF LoadStep
<1>5. ASSUME NEW l \in Loaders, NEW request \in Labels, BeginLoad(l, request) PROVE TypeOK' /\ ArgInv' /\ PhaseInv'
  BY <1>5 DEF BeginLoad, At
<1>6. ASSUME NEW r \in Readers, EnterQuery(r) \/ QueryStep(r) PROVE TypeOK' /\ ArgInv' /\ PhaseInv'
  <2>1. CASE EnterQuery(r) BY <2>1 DEF EnterQuery
  <2>2. CASE ReadCatalog(r) BY <2>2 DEF ReadCatalog
  <2>3. CASE ReadInfo(r) BY <2>3 DEF ReadInfo, Infos
  <2>4. CASE LeaveQuery(r) BY <2>4 DEF LeaveQuery
  <2> QED BY <1>6, <2>1, <2>2, <2>3, <2>4 DEF QueryStep
<1>7. ASSUME NEW p \in Paths, NEW content \in Contents, ChangeFile(p, content) PROVE TypeOK' /\ ArgInv' /\ PhaseInv'
  BY <1>7 DEF ChangeFile
<1>8. CASE UNCHANGED vars
  BY <1>8 DEF vars
<1> QED BY <1>1, <1>2, <1>3, <1>4, <1>5, <1>6, <1>7, <1>8 DEF Next

\* Every step respects catalogMu.
LEMMA LockStep == ASSUME TypeOK, PhaseInv, LockInv, [Next]_vars PROVE LockInv'
<1> USE ConstantsAssumption DEF TypeOK, PhaseInv, LockInv, Places, disk, shared, loading, reading
<1>1. CASE Start
  <2>1. CASE StartConfigured BY <2>1 DEF StartConfigured, Serve
  <2>2. CASE StartSelected BY <2>2 DEF StartSelected, Serve
  <2>3. CASE StartFallback BY <2>3 DEF StartFallback, Serve
  <2>4. CASE StartAbandoned BY <2>4 DEF StartAbandoned, Serve
  <2> QED BY <1>1, <2>1, <2>2, <2>3, <2>4 DEF Start
<1>2. CASE Close
  <2>1. CASE BeginClose BY <2>1 DEF BeginClose
  <2>2. CASE CloseLock BY <2>2 DEF CloseLock
  <2>3. CASE CloseCatalog BY <2>3 DEF CloseCatalog
  <2>4. CASE CloseState BY <2>4 DEF CloseState
  <2> QED BY <1>2, <2>1, <2>2, <2>3, <2>4 DEF Close
<1>3. CASE ProcessEnds BY <1>3 DEF ProcessEnds
<1>4. ASSUME NEW l \in Loaders, LoadStep(l) PROVE LockInv'
  <2> USE DEF At, Goto, Return
  <2>1. CASE Validate(l) BY <2>1 DEF Validate
  <2>2. CASE EnterIndex(l) BY <2>2 DEF EnterIndex
  <2>3. CASE BuildIndex(l) BY <2>3 DEF BuildIndex
  <2>4. CASE OpenNext(l) BY <2>4 DEF OpenNext
  <2>5. CASE OpenFails(l) BY <2>5 DEF OpenFails
  <2>6. CASE Persist(l) BY <2>6 DEF Persist
  <2>7. CASE PersistFails(l) BY <2>7 DEF PersistFails
  <2>8. CASE AnnounceLock(l) BY <2>8 DEF AnnounceLock
  <2>9. CASE SwapHandle(l) BY <2>9 DEF SwapHandle
  <2>10. CASE SwapLabel(l) BY <2>10 DEF SwapLabel
  <2>11. CASE CloseOld(l) BY <2>11 DEF CloseOld
  <2> QED BY <1>4, <2>1, <2>2, <2>3, <2>4, <2>5, <2>6, <2>7, <2>8, <2>9, <2>10, <2>11 DEF LoadStep
<1>5. ASSUME NEW l \in Loaders, NEW request \in Labels, BeginLoad(l, request) PROVE LockInv'
  BY <1>5 DEF BeginLoad, At
<1>6. ASSUME NEW r \in Readers, EnterQuery(r) \/ QueryStep(r) PROVE LockInv'
  <2>1. CASE EnterQuery(r) BY <2>1 DEF EnterQuery
  <2>2. CASE ReadCatalog(r) BY <2>2 DEF ReadCatalog
  <2>3. CASE ReadInfo(r) BY <2>3 DEF ReadInfo
  <2>4. CASE LeaveQuery(r) BY <2>4 DEF LeaveQuery
  <2> QED BY <1>6, <2>1, <2>2, <2>3, <2>4 DEF QueryStep
<1>7. ASSUME NEW p \in Paths, NEW content \in Contents, ChangeFile(p, content) PROVE LockInv'
  BY <1>7 DEF ChangeFile
<1>8. CASE UNCHANGED vars BY <1>8 DEF vars
<1> QED BY <1>1, <1>2, <1>3, <1>4, <1>5, <1>6, <1>7, <1>8 DEF Next

\* Every step leaves every open handle with its owner.
LEMMA OwnerStep == ASSUME TypeOK, PhaseInv, LockInv, OwnerInv, DistinctInv, [Next]_vars PROVE OwnerInv'
<1> USE ConstantsAssumption, NoHandleAssumption DEF TypeOK, PhaseInv, LockInv, OwnerInv, DistinctInv, NoLeakedHandle, Places, disk, shared, loading, reading
<1>1. CASE Start
  <2>1. CASE StartConfigured BY <2>1 DEF StartConfigured, Serve
  <2>2. CASE StartSelected BY <2>2 DEF StartSelected, Serve
  <2>3. CASE StartFallback BY <2>3 DEF StartFallback, Serve
  <2>4. CASE StartAbandoned BY <2>4 DEF StartAbandoned, Serve
  <2> QED BY <1>1, <2>1, <2>2, <2>3, <2>4 DEF Start
<1>2. CASE Close
  <2>1. CASE BeginClose BY <2>1 DEF BeginClose
  <2>2. CASE CloseLock BY <2>2 DEF CloseLock
  <2>3. CASE CloseCatalog BY <2>3 DEF CloseCatalog
  <2>4. CASE CloseState BY <2>4 DEF CloseState
  <2> QED BY <1>2, <2>1, <2>2, <2>3, <2>4 DEF Close
<1>3. CASE ProcessEnds BY <1>3 DEF ProcessEnds
<1>4. ASSUME NEW l \in Loaders, LoadStep(l) PROVE OwnerInv'
  <2> USE DEF At, Goto, Return
  <2>1. CASE Validate(l) BY <2>1 DEF Validate
  <2>2. CASE EnterIndex(l) BY <2>2 DEF EnterIndex
  <2>3. CASE BuildIndex(l) BY <2>3 DEF BuildIndex
  <2>4. CASE OpenNext(l) BY <2>4 DEF OpenNext
  <2>5. CASE OpenFails(l) BY <2>5 DEF OpenFails
  <2>6. CASE Persist(l) BY <2>6 DEF Persist
  <2>7. CASE PersistFails(l) BY <2>7 DEF PersistFails
  <2>8. CASE AnnounceLock(l) BY <2>8 DEF AnnounceLock
  <2>9. CASE SwapHandle(l) BY <2>9 DEF SwapHandle
  <2>10. CASE SwapLabel(l) BY <2>10 DEF SwapLabel
  <2>11. CASE CloseOld(l) BY <2>11 DEF CloseOld
  <2> QED BY <1>4, <2>1, <2>2, <2>3, <2>4, <2>5, <2>6, <2>7, <2>8, <2>9, <2>10, <2>11 DEF LoadStep
<1>5. ASSUME NEW l \in Loaders, NEW request \in Labels, BeginLoad(l, request) PROVE OwnerInv'
  BY <1>5 DEF BeginLoad, At
<1>6. ASSUME NEW r \in Readers, EnterQuery(r) \/ QueryStep(r) PROVE OwnerInv'
  <2>1. CASE EnterQuery(r) BY <2>1 DEF EnterQuery
  <2>2. CASE ReadCatalog(r) BY <2>2 DEF ReadCatalog
  <2>3. CASE ReadInfo(r) BY <2>3 DEF ReadInfo
  <2>4. CASE LeaveQuery(r) BY <2>4 DEF LeaveQuery
  <2> QED BY <1>6, <2>1, <2>2, <2>3, <2>4 DEF QueryStep
<1>7. ASSUME NEW p \in Paths, NEW content \in Contents, ChangeFile(p, content) PROVE OwnerInv'
  BY <1>7 DEF ChangeFile
<1>8. CASE UNCHANGED vars BY <1>8 DEF vars
<1> QED BY <1>1, <1>2, <1>3, <1>4, <1>5, <1>6, <1>7, <1>8 DEF Next

\* Every step leaves every open handle with one owner, numbered afresh.
LEMMA DistinctStep == ASSUME TypeOK, ArgInv, PhaseInv, LockInv, OwnerInv, DistinctInv, FreshInv, [Next]_vars PROVE DistinctInv' /\ FreshInv'
<1> USE ConstantsAssumption, NoHandleAssumption DEF TypeOK, PhaseInv, LockInv, OwnerInv, DistinctInv, FreshInv, Places, disk, shared, loading, reading
<1>1. CASE Start
  <2>1. CASE StartConfigured BY <2>1 DEF StartConfigured, Serve
  <2>2. CASE StartSelected BY <2>2 DEF StartSelected, Serve
  <2>3. CASE StartFallback BY <2>3 DEF StartFallback, Serve
  <2>4. CASE StartAbandoned BY <2>4 DEF StartAbandoned, Serve
  <2> QED BY <1>1, <2>1, <2>2, <2>3, <2>4 DEF Start
<1>2. CASE Close
  <2>1. CASE BeginClose BY <2>1 DEF BeginClose
  <2>2. CASE CloseLock BY <2>2 DEF CloseLock
  <2>3. CASE CloseCatalog BY <2>3 DEF CloseCatalog
  <2>4. CASE CloseState BY <2>4 DEF CloseState
  <2> QED BY <1>2, <2>1, <2>2, <2>3, <2>4 DEF Close
<1>3. CASE ProcessEnds BY <1>3 DEF ProcessEnds
<1>4. ASSUME NEW l \in Loaders, LoadStep(l) PROVE DistinctInv' /\ FreshInv'
  <2> USE DEF At, Goto, Return
  <2>1. CASE Validate(l) BY <2>1 DEF Validate
  <2>2. CASE EnterIndex(l) BY <2>2 DEF EnterIndex
  <2>3. CASE BuildIndex(l) BY <2>3 DEF BuildIndex
  <2>4. CASE OpenNext(l)
    <3> DEFINE h == [id |-> opened + 1, path |-> want[l].path, content |-> file[want[l].path]]
    <3>1. next' = [next EXCEPT ![l] = h] /\ open' = open \cup {h} /\ opened' = opened + 1
      BY <2>4 DEF OpenNext
    <3>2. want[l] \in Labels /\ h \in Handles
      BY <2>4 DEF OpenNext, ArgInv, Opens, Handles, Labels, Contents
    <3>3. \A g \in Handles : g.id \in Nat
      BY DEF Handles
    <3>4. \A g \in open : g.id < h.id
      BY <3>3
    <3>5. h \notin open /\ h # NoHandle
      BY <3>2, <3>3, <3>4
    <3>6. h # live /\ \A m \in Loaders : h # next[m] /\ h # old[m]
      BY <3>5
    <3>7. FreshInv'
      BY <3>1, <3>3, <3>4
    <3> HIDE DEF h
    <3> QED BY <2>4, <3>1, <3>5, <3>6, <3>7 DEF OpenNext
  <2>5. CASE OpenFails(l) BY <2>5 DEF OpenFails
  <2>6. CASE Persist(l) BY <2>6 DEF Persist
  <2>7. CASE PersistFails(l) BY <2>7 DEF PersistFails
  <2>8. CASE AnnounceLock(l) BY <2>8 DEF AnnounceLock
  <2>9. CASE SwapHandle(l) BY <2>9 DEF SwapHandle
  <2>10. CASE SwapLabel(l) BY <2>10 DEF SwapLabel
  <2>11. CASE CloseOld(l) BY <2>11 DEF CloseOld
  <2> QED BY <1>4, <2>1, <2>2, <2>3, <2>4, <2>5, <2>6, <2>7, <2>8, <2>9, <2>10, <2>11 DEF LoadStep
<1>5. ASSUME NEW l \in Loaders, NEW request \in Labels, BeginLoad(l, request) PROVE DistinctInv' /\ FreshInv'
  BY <1>5 DEF BeginLoad, At
<1>6. ASSUME NEW r \in Readers, EnterQuery(r) \/ QueryStep(r) PROVE DistinctInv' /\ FreshInv'
  <2>1. CASE EnterQuery(r) BY <2>1 DEF EnterQuery
  <2>2. CASE ReadCatalog(r) BY <2>2 DEF ReadCatalog
  <2>3. CASE ReadInfo(r) BY <2>3 DEF ReadInfo
  <2>4. CASE LeaveQuery(r) BY <2>4 DEF LeaveQuery
  <2> QED BY <1>6, <2>1, <2>2, <2>3, <2>4 DEF QueryStep
<1>7. ASSUME NEW p \in Paths, NEW content \in Contents, ChangeFile(p, content) PROVE DistinctInv' /\ FreshInv'
  BY <1>7 DEF ChangeFile
<1>8. CASE UNCHANGED vars BY <1>8 DEF vars
<1> QED BY <1>1, <1>2, <1>3, <1>4, <1>5, <1>6, <1>7, <1>8 DEF Next

\* No step changes what a request inside catalogMu can read.
LEMMA SeenStep == ASSUME TypeOK, PhaseInv, LockInv, SeenInv, [Next]_vars PROVE SeenInv'
<1> USE ConstantsAssumption, NoHandleAssumption DEF TypeOK, PhaseInv, LockInv, SeenInv, Places, disk, shared, loading, reading
<1>1. CASE Start
  <2>1. CASE StartConfigured BY <2>1 DEF StartConfigured, Serve
  <2>2. CASE StartSelected BY <2>2 DEF StartSelected, Serve
  <2>3. CASE StartFallback BY <2>3 DEF StartFallback, Serve
  <2>4. CASE StartAbandoned BY <2>4 DEF StartAbandoned, Serve
  <2> QED BY <1>1, <2>1, <2>2, <2>3, <2>4 DEF Start
<1>2. CASE Close
  <2>1. CASE BeginClose BY <2>1 DEF BeginClose
  <2>2. CASE CloseLock BY <2>2 DEF CloseLock
  <2>3. CASE CloseCatalog BY <2>3 DEF CloseCatalog
  <2>4. CASE CloseState BY <2>4 DEF CloseState
  <2> QED BY <1>2, <2>1, <2>2, <2>3, <2>4 DEF Close
<1>3. CASE ProcessEnds BY <1>3 DEF ProcessEnds
<1>4. ASSUME NEW l \in Loaders, LoadStep(l) PROVE SeenInv'
  <2> USE DEF At, Goto, Return
  <2>1. CASE Validate(l) BY <2>1 DEF Validate
  <2>2. CASE EnterIndex(l) BY <2>2 DEF EnterIndex
  <2>3. CASE BuildIndex(l) BY <2>3 DEF BuildIndex
  <2>4. CASE OpenNext(l) BY <2>4 DEF OpenNext
  <2>5. CASE OpenFails(l) BY <2>5 DEF OpenFails
  <2>6. CASE Persist(l) BY <2>6 DEF Persist
  <2>7. CASE PersistFails(l) BY <2>7 DEF PersistFails
  <2>8. CASE AnnounceLock(l) BY <2>8 DEF AnnounceLock
  <2>9. CASE SwapHandle(l) BY <2>9 DEF SwapHandle
  <2>10. CASE SwapLabel(l) BY <2>10 DEF SwapLabel
  <2>11. CASE CloseOld(l) BY <2>11 DEF CloseOld
  <2> QED BY <1>4, <2>1, <2>2, <2>3, <2>4, <2>5, <2>6, <2>7, <2>8, <2>9, <2>10, <2>11 DEF LoadStep
<1>5. ASSUME NEW l \in Loaders, NEW request \in Labels, BeginLoad(l, request) PROVE SeenInv'
  BY <1>5 DEF BeginLoad, At
<1>6. ASSUME NEW r \in Readers, EnterQuery(r) \/ QueryStep(r) PROVE SeenInv'
  <2>1. CASE EnterQuery(r) BY <2>1 DEF EnterQuery
  <2>2. CASE ReadCatalog(r)
    <3>1. [label |-> label, revision |-> revision] \notin Handles
      BY InfoIsNoHandle
    <3>2. seen[r] \in {{}, {live}}
      BY <2>2, <3>1 DEF ReadCatalog
    <3> QED BY <2>2, <3>2 DEF ReadCatalog
  <2>3. CASE ReadInfo(r) BY <2>3 DEF ReadInfo
  <2>4. CASE LeaveQuery(r) BY <2>4 DEF LeaveQuery
  <2> QED BY <1>6, <2>1, <2>2, <2>3, <2>4 DEF QueryStep
<1>7. ASSUME NEW p \in Paths, NEW content \in Contents, ChangeFile(p, content) PROVE SeenInv'
  BY <1>7 DEF ChangeFile
<1>8. CASE UNCHANGED vars BY <1>8 DEF vars
<1> QED BY <1>1, <1>2, <1>3, <1>4, <1>5, <1>6, <1>7, <1>8 DEF Next

---------------------------------------------------------------------------
\* IInv is an invariant of every behavior.
THEOREM Invariance == Spec => []IInv
<1>1. Init => IInv
  BY ConstantsAssumption, NoHandleAssumption
  DEF Init, IInv, TypeOK, ArgInv, PhaseInv, LockInv, OwnerInv, NoLeakedHandle,
      DistinctInv, FreshInv, SeenInv, Phases, Places
<1>2. IInv /\ [Next]_vars => IInv'
  BY TypeStep, LockStep, OwnerStep, DistinctStep, SeenStep DEF IInv
<1> QED BY <1>1, <1>2, PTL DEF Spec

\* Every variable stays in its range.
THEOREM TypeCorrect == Spec => []TypeOK
<1>1. IInv => TypeOK BY DEF IInv
<1> QED BY Invariance, <1>1, PTL

\* No request queries a database after a load or the shutdown closed it.
THEOREM QueriesOpenCatalogs == Spec => []NoUseAfterClose
<1>1. IInv => NoUseAfterClose
  <2> SUFFICES ASSUME IInv, NEW r \in inside
               PROVE  seen[r] \cap Handles \subseteq open
    BY DEF NoUseAfterClose
  <2>1. seen[r] \in {{}, {live}, {[label |-> label, revision |-> revision]}}
    BY DEF IInv, SeenInv
  <2>2. live \in open \cup {NoHandle}
    BY DEF IInv, OwnerInv
  <2> QED BY <2>1, <2>2, NoHandleAssumption, InfoIsNoHandle
<1> QED BY Invariance, <1>1, PTL

\* What one request reads during one query is a single catalog.
THEOREM QueriesOneCatalog == Spec => []OneCatalogPerQuery
<1>1. IInv => OneCatalogPerQuery
  BY DEF IInv, SeenInv, OneCatalogPerQuery
<1> QED BY Invariance, <1>1, PTL

\* No load, however it ends, leaves an open database behind.
THEOREM HandlesOwned == Spec => []NoLeakedHandle
<1>1. IInv => NoLeakedHandle BY DEF IInv, OwnerInv
<1> QED BY Invariance, <1>1, PTL

---------------------------------------------------------------------------
\* Outside the two assignments of a load, what is served is App.catalog.
LEMMA ServedIsLive ==
  ASSUME IInv, \A l \in Loaders : lpc[l] # "label"
  PROVE  ServedNow = [handle |-> live, label |-> label, revision |-> revision]
BY DEF ServedNow

\* Between them it is still the handle that is being replaced.
LEMMA ServedIsOld ==
  ASSUME IInv, NEW l \in Loaders, lpc[l] = "label"
  PROVE  ServedNow = [handle |-> old[l], label |-> label, revision |-> revision]
BY DEF ServedNow, IInv, LockInv

\* A request that is inside sees what is served.
LEMMA InsideSeesLive ==
  ASSUME IInv, NEW r \in inside
  PROVE  ServedNow = [handle |-> live, label |-> label, revision |-> revision]
<1>1. \A l \in Loaders : lpc[l] # "label"
  BY DEF IInv, LockInv
<1> QED BY <1>1, ServedIsLive

\* A step that leaves App.catalog, its label and the queries alone, and does not
\* enter or leave the pair of assignments, is invisible to the requests.
LEMMA Invisible ==
  ASSUME IInv, IInv', UNCHANGED <<live, label, revision, seen, old>>,
         \A l \in Loaders : lpc[l] = "label" <=> lpc'[l] = "label"
  PROVE  UNCHANGED <<ServedNow, seen>>
<1>1. CASE \A l \in Loaders : lpc[l] # "label"
  BY <1>1 DEF ServedNow
<1>2. CASE \E l \in Loaders : lpc[l] = "label"
  <2> PICK l \in Loaders : lpc[l] = "label" BY <1>2
  <2>1. writer = l /\ writer' = l
    BY DEF IInv, LockInv
  <2> QED BY <2>1 DEF ServedNow
<1> QED BY <1>1, <1>2

\* A load takes effect, for every request at once, when it sets its label.
LEMMA SwapLabelSwitches ==
  ASSUME IInv, IInv', NEW l \in Loaders, SwapLabel(l)
  PROVE  Abs!Switch
<1>1. ServedNow = [handle |-> old[l], label |-> label, revision |-> revision]
  BY ServedIsOld DEF SwapLabel, At
<1>2. \A m \in Loaders : lpc'[m] # "label"
  BY DEF SwapLabel, At, Goto, IInv, TypeOK, LockInv, Places
<1>3. ServedNow' = [handle |-> live, label |-> want[l], revision |-> revision + 1]
  BY <1>2 DEF ServedNow, SwapLabel
<1>4. live # NoHandle /\ live # old[l]
  BY DEF SwapLabel, At, IInv, OwnerInv, DistinctInv
<1>5. revision > 0 /\ seen' = seen
  BY DEF SwapLabel, At, IInv, PhaseInv, reading
<1> QED BY <1>1, <1>3, <1>4, <1>5 DEF Abs!Switch

\* Every step of the code is a step of the promise, or invisible to requests.
LEMMA StepImplements ==
  ASSUME IInv, IInv', [Next]_vars
  PROVE  [Abs!AbsNext]_(Abs!absVars)
<1> USE DEF Abs!absVars, Abs!AbsNext, disk, shared, loading, reading
<1>1. CASE Start
  <2>1. CASE StartAbandoned
    BY <2>1, Invisible DEF StartAbandoned
  <2>2. ASSUME NEW lab \in Labels, Serve(lab), phase = "down" PROVE Abs!Come
    <3>1. \A l \in Loaders : lpc[l] # "label" /\ lpc'[l] # "label"
      BY <2>2 DEF IInv, PhaseInv, Serve
    <3>2. /\ ServedNow.revision = 0
          /\ ServedNow' = [handle |-> live', label |-> label', revision |-> revision']
      BY <2>2, <3>1 DEF ServedNow, IInv, PhaseInv
    <3>3. live' # NoHandle
      BY <2>2, NoHandleAssumption DEF Serve, Handles, IInv, TypeOK
    <3> QED BY <2>2, <3>2, <3>3 DEF Abs!Come, Serve
  <2>3. ConfiguredLabel \in Labels
    BY ConstantsAssumption DEF ConfiguredLabel, Labels
  <2>4. CASE StartConfigured BY <2>2, <2>3, <2>4 DEF StartConfigured
  <2>5. CASE StartSelected BY <2>2, <2>5 DEF StartSelected, IInv, TypeOK
  <2>6. CASE StartFallback BY <2>2, <2>3, <2>6 DEF StartFallback
  <2> QED BY <1>1, <2>1, <2>4, <2>5, <2>6 DEF Start
<1>2. CASE Close
  <2>1. CASE BeginClose BY <2>1, Invisible DEF BeginClose
  <2>2. CASE CloseLock BY <2>2, Invisible DEF CloseLock
  <2>3. CASE CloseCatalog
    <3>1. \A l \in Loaders : lpc[l] # "label" /\ lpc'[l] # "label"
      BY <2>3, ConstantsAssumption DEF CloseCatalog, IInv, LockInv
    <3>2. /\ ServedNow = [handle |-> live, label |-> label, revision |-> revision]
          /\ ServedNow' = [handle |-> NoHandle, label |-> label, revision |-> revision]
      BY <2>3, <3>1 DEF ServedNow, CloseCatalog
    <3>3. revision > 0
      BY <2>3 DEF CloseCatalog, IInv, PhaseInv
    <3> QED BY <2>3, <3>2, <3>3 DEF Abs!Withdraw, CloseCatalog
  <2>4. CASE CloseState BY <2>4, Invisible DEF CloseState
  <2> QED BY <1>2, <2>1, <2>2, <2>3, <2>4 DEF Close
<1>3. CASE ProcessEnds
  <2>1. ServedNow' = Abs!Offline
    BY <1>3 DEF ServedNow, ProcessEnds, Abs!Offline
  <2>2. ServedNow.revision > 0
    BY <1>3 DEF ServedNow, ProcessEnds, IInv, PhaseInv
  <2> QED BY <1>3, <2>1, <2>2 DEF Abs!Leave, ProcessEnds
<1>4. ASSUME NEW l \in Loaders, LoadStep(l) PROVE [Abs!AbsNext]_(Abs!absVars)
  <2> USE DEF At, Goto, Return
  <2>0. lpc \in [Loaders -> Places] /\ old \in [Loaders -> Handles \cup {NoHandle}]
    BY DEF IInv, TypeOK
  <2>1. CASE SwapLabel(l) BY <2>1, SwapLabelSwitches
  <2>2. CASE SwapHandle(l)
    <3>1. lpc'[l] = "label" /\ old'[l] = live
      BY <2>0, <2>2 DEF SwapHandle
    <3>2. ServedNow = [handle |-> live, label |-> label, revision |-> revision]
      BY <2>2, ServedIsLive DEF SwapHandle, IInv, LockInv
    <3>3. writer' = l
      BY <3>1 DEF IInv, LockInv
    <3>4. ServedNow' = [handle |-> live, label |-> label, revision |-> revision]
      BY <2>2, <3>1, <3>3 DEF SwapHandle, ServedNow
    <3> QED BY <2>2, <3>2, <3>4 DEF SwapHandle
  <2>3. CASE CloseOld(l)
    <3>1. \A m \in Loaders : lpc[m] = "label" => lpc'[m] = "label" /\ writer = m /\ old'[m] = old[m]
      BY <2>0, <2>3 DEF CloseOld, IInv, LockInv
    <3>2. \A m \in Loaders : lpc'[m] = "label" => lpc[m] = "label"
      BY <2>0, <2>3 DEF CloseOld
    <3>3. UNCHANGED <<live, label, revision, writer, seen>>
      BY <2>3 DEF CloseOld
    <3> QED BY <3>1, <3>2, <3>3 DEF ServedNow
  <2>4. ASSUME \/ Validate(l) \/ EnterIndex(l) \/ BuildIndex(l) \/ OpenNext(l)
               \/ OpenFails(l) \/ Persist(l) \/ PersistFails(l) \/ AnnounceLock(l)
        PROVE  UNCHANGED <<ServedNow, seen>>
    <3>1. UNCHANGED <<live, label, revision, seen>>
      BY <2>4 DEF Validate, EnterIndex, BuildIndex, OpenNext, OpenFails, Persist,
                  PersistFails, AnnounceLock
    <3>2. \A m \in Loaders : lpc[m] = "label" <=> lpc'[m] = "label"
      BY <2>0, <2>4 DEF Validate, EnterIndex, BuildIndex, OpenNext, OpenFails,
                        Persist, PersistFails, AnnounceLock
    <3>3. old' = old
      BY <2>0, <2>4 DEF Validate, EnterIndex, BuildIndex, OpenNext, OpenFails,
                  Persist, PersistFails, AnnounceLock, IInv, OwnerInv
    <3> QED BY <3>1, <3>2, <3>3, Invisible
  <2> QED BY <1>4, <2>1, <2>2, <2>3, <2>4 DEF LoadStep
<1>5. ASSUME NEW l \in Loaders, NEW request \in Labels, BeginLoad(l, request)
      PROVE  [Abs!AbsNext]_(Abs!absVars)
  BY <1>5, Invisible DEF BeginLoad, At, IInv, TypeOK
<1>6. ASSUME NEW r \in Readers, EnterQuery(r) \/ QueryStep(r)
      PROVE  [Abs!AbsNext]_(Abs!absVars)
  <2>1. CASE EnterQuery(r) BY <2>1, Invisible DEF EnterQuery
  <2>2. CASE ReadCatalog(r)
    <3>1. /\ ServedNow = [handle |-> live, label |-> label, revision |-> revision]
          /\ ServedNow' = ServedNow
      BY <2>2, InsideSeesLive DEF ReadCatalog, ServedNow
    <3>2. seen[r] \in {{}, {live}}
      BY <2>2, InfoIsNoHandle DEF ReadCatalog, IInv, SeenInv
    <3>3. seen' = [seen EXCEPT ![r] = {live}]
      BY <2>2, <3>2 DEF ReadCatalog
    <3>4. CASE seen[r] = {live}
      BY <3>1, <3>3, <3>4 DEF IInv, TypeOK
    <3>5. CASE seen[r] = {}
      BY <3>1, <3>3, <3>5 DEF Abs!Answer, Abs!CatalogView
    <3> QED BY <3>2, <3>4, <3>5
  <2>3. CASE ReadInfo(r)
    <3>1. /\ ServedNow = [handle |-> live, label |-> label, revision |-> revision]
          /\ ServedNow' = ServedNow
      BY <2>3, InsideSeesLive DEF ReadInfo, ServedNow
    <3> QED BY <2>3, <3>1 DEF ReadInfo, Abs!Answer, Abs!InfoView
  <2>4. CASE LeaveQuery(r)
    <3>1. ServedNow' = ServedNow
      BY <2>4, InsideSeesLive DEF LeaveQuery, ServedNow
    <3> QED BY <2>4, <3>1 DEF LeaveQuery, Abs!Done
  <2> QED BY <1>6, <2>1, <2>2, <2>3, <2>4 DEF QueryStep
<1>7. ASSUME NEW p \in Paths, NEW content \in Contents, ChangeFile(p, content)
      PROVE  [Abs!AbsNext]_(Abs!absVars)
  BY <1>7, Invisible DEF ChangeFile
<1>8. CASE UNCHANGED vars BY <1>8, Invisible DEF vars
<1> QED BY <1>1, <1>2, <1>3, <1>4, <1>5, <1>6, <1>7, <1>8 DEF Next

\* The service keeps the promise of ServedCatalog: catalog, label and revision
\* change at once, and each query is answered from one moment.
THEOREM Implements == Spec => ImplementsServedCatalog
<1>1. Init => Abs!AbsInit
  BY DEF Init, Abs!AbsInit, Abs!Offline, ServedNow
<1>2. IInv /\ IInv' /\ [Next]_vars => [Abs!AbsNext]_(Abs!absVars)
  BY StepImplements
<1> QED BY <1>1, <1>2, Invariance, PTL DEF Spec, ImplementsServedCatalog, Abs!AbsSpec

---------------------------------------------------------------------------
\* Every step serves only what was validated.
LEMMA ValidStep == ASSUME IInv, ValidInv, [Next]_vars PROVE ValidInv'
<1> USE ConstantsAssumption, NoHandleAssumption DEF IInv, TypeOK, PhaseInv, OwnerInv, ValidInv, ArgInv, BetweenChecks, Handles, Contents, disk, shared, loading, reading
<1>1. CASE Start
  <2>1. CASE StartConfigured BY <2>1 DEF StartConfigured, Serve
  <2>2. CASE StartSelected BY <2>2 DEF StartSelected, Serve
  <2>3. CASE StartFallback BY <2>3 DEF StartFallback, Serve
  <2>4. CASE StartAbandoned BY <2>4 DEF StartAbandoned, Serve
  <2> QED BY <1>1, <2>1, <2>2, <2>3, <2>4 DEF Start
<1>2. CASE Close
  <2>1. CASE BeginClose BY <2>1 DEF BeginClose
  <2>2. CASE CloseLock BY <2>2 DEF CloseLock
  <2>3. CASE CloseCatalog BY <2>3 DEF CloseCatalog
  <2>4. CASE CloseState BY <2>4 DEF CloseState
  <2> QED BY <1>2, <2>1, <2>2, <2>3, <2>4 DEF Close
<1>3. CASE ProcessEnds BY <1>3 DEF ProcessEnds
<1>4. ASSUME NEW l \in Loaders, LoadStep(l) PROVE ValidInv'
  <2> USE DEF At, Goto, Return
  <2>1. CASE Validate(l) BY <2>1 DEF Validate
  <2>2. CASE EnterIndex(l) BY <2>2 DEF EnterIndex
  <2>3. CASE BuildIndex(l) BY <2>3 DEF BuildIndex
  <2>4. CASE OpenNext(l) BY <2>4 DEF OpenNext
  <2>5. CASE OpenFails(l) BY <2>5 DEF OpenFails
  <2>6. CASE Persist(l) BY <2>6 DEF Persist
  <2>7. CASE PersistFails(l) BY <2>7 DEF PersistFails
  <2>8. CASE AnnounceLock(l) BY <2>8 DEF AnnounceLock
  <2>9. CASE SwapHandle(l) BY <2>9 DEF SwapHandle
  <2>10. CASE SwapLabel(l) BY <2>10 DEF SwapLabel
  <2>11. CASE CloseOld(l) BY <2>11 DEF CloseOld
  <2> QED BY <1>4, <2>1, <2>2, <2>3, <2>4, <2>5, <2>6, <2>7, <2>8, <2>9, <2>10, <2>11 DEF LoadStep
<1>5. ASSUME NEW l \in Loaders, NEW request \in Labels, BeginLoad(l, request) PROVE ValidInv'
  BY <1>5 DEF BeginLoad, At
<1>6. ASSUME NEW r \in Readers, EnterQuery(r) \/ QueryStep(r) PROVE ValidInv'
  <2>1. CASE EnterQuery(r) BY <2>1 DEF EnterQuery
  <2>2. CASE ReadCatalog(r) BY <2>2 DEF ReadCatalog
  <2>3. CASE ReadInfo(r) BY <2>3 DEF ReadInfo
  <2>4. CASE LeaveQuery(r) BY <2>4 DEF LeaveQuery
  <2> QED BY <1>6, <2>1, <2>2, <2>3, <2>4 DEF QueryStep
<1>7. ASSUME NEW p \in Paths, NEW content \in Contents, ChangeFile(p, content) PROVE ValidInv'
  BY <1>7 DEF ChangeFile
<1>8. CASE UNCHANGED vars BY <1>8 DEF vars
<1> QED BY <1>1, <1>2, <1>3, <1>4, <1>5, <1>6, <1>7, <1>8 DEF Next

\* With one load at a time, every step keeps selection and service together.
LEMMA SelectionStep == ASSUME IInv, SelectionInv, \A l, m \in Loaders : l = m, [Next]_vars PROVE SelectionInv'
<1> USE ConstantsAssumption DEF IInv, TypeOK, PhaseInv, SelectionInv, Settled, ArgInv, Places, disk, shared, loading, reading
<1>1. CASE Start
  <2>1. CASE StartConfigured BY <2>1 DEF StartConfigured, Serve
  <2>2. CASE StartSelected BY <2>2 DEF StartSelected, Serve
  <2>3. CASE StartFallback BY <2>3 DEF StartFallback, Serve
  <2>4. CASE StartAbandoned BY <2>4 DEF StartAbandoned, Serve
  <2> QED BY <1>1, <2>1, <2>2, <2>3, <2>4 DEF Start
<1>2. CASE Close
  <2>1. CASE BeginClose BY <2>1 DEF BeginClose
  <2>2. CASE CloseLock BY <2>2 DEF CloseLock
  <2>3. CASE CloseCatalog BY <2>3 DEF CloseCatalog
  <2>4. CASE CloseState BY <2>4 DEF CloseState
  <2> QED BY <1>2, <2>1, <2>2, <2>3, <2>4 DEF Close
<1>3. CASE ProcessEnds BY <1>3 DEF ProcessEnds
<1>4. ASSUME NEW l \in Loaders, LoadStep(l) PROVE SelectionInv'
  <2> USE DEF At, Goto, Return
  <2>1. CASE Validate(l) BY <2>1 DEF Validate
  <2>2. CASE EnterIndex(l) BY <2>2 DEF EnterIndex
  <2>3. CASE BuildIndex(l) BY <2>3 DEF BuildIndex
  <2>4. CASE OpenNext(l) BY <2>4 DEF OpenNext
  <2>5. CASE OpenFails(l) BY <2>5 DEF OpenFails
  <2>6. CASE Persist(l) BY <2>6 DEF Persist
  <2>7. CASE PersistFails(l) BY <2>7 DEF PersistFails
  <2>8. CASE AnnounceLock(l) BY <2>8 DEF AnnounceLock
  <2>9. CASE SwapHandle(l) BY <2>9 DEF SwapHandle
  <2>10. CASE SwapLabel(l) BY <2>10 DEF SwapLabel
  <2>11. CASE CloseOld(l) BY <2>11 DEF CloseOld
  <2> QED BY <1>4, <2>1, <2>2, <2>3, <2>4, <2>5, <2>6, <2>7, <2>8, <2>9, <2>10, <2>11 DEF LoadStep
<1>5. ASSUME NEW l \in Loaders, NEW request \in Labels, BeginLoad(l, request) PROVE SelectionInv'
  BY <1>5 DEF BeginLoad, At
<1>6. ASSUME NEW r \in Readers, EnterQuery(r) \/ QueryStep(r) PROVE SelectionInv'
  <2>1. CASE EnterQuery(r) BY <2>1 DEF EnterQuery
  <2>2. CASE ReadCatalog(r) BY <2>2 DEF ReadCatalog
  <2>3. CASE ReadInfo(r) BY <2>3 DEF ReadInfo
  <2>4. CASE LeaveQuery(r) BY <2>4 DEF LeaveQuery
  <2> QED BY <1>6, <2>1, <2>2, <2>3, <2>4 DEF QueryStep
<1>7. ASSUME NEW p \in Paths, NEW content \in Contents, ChangeFile(p, content) PROVE SelectionInv'
  BY <1>7 DEF ChangeFile
<1>8. CASE UNCHANGED vars BY <1>8 DEF vars
<1> QED BY <1>1, <1>2, <1>3, <1>4, <1>5, <1>6, <1>7, <1>8 DEF Next

\* With no file changing between its checks, a load only ever serves a catalog
\* that Validate accepted.
THEOREM ServesValidated == Spec => []ServedWasValidated
<1>1. Init => ValidInv
  BY DEF Init, ValidInv, BetweenChecks
<1>2. ValidInv => ServedWasValidated
  BY DEF ValidInv, ServedWasValidated
<1> QED BY <1>1, <1>2, Invariance, ValidStep, PTL DEF Spec

\* If loads never overlap, a restart reopens what is being served.
THEOREM SelectionKept ==
  ASSUME \A l, m \in Loaders : l = m
  PROVE  Spec => []SelectionSurvivesRestart
<1>1. Init => SelectionInv
  BY DEF Init, SelectionInv
<1>2. IInv /\ SelectionInv /\ [Next]_vars => SelectionInv'
  BY SelectionStep
<1>3. SelectionInv => SelectionSurvivesRestart
  BY DEF SelectionInv, SelectionSurvivesRestart
<1> QED BY <1>1, <1>2, <1>3, Invariance, PTL DEF Spec
=============================================================================
