------------------------ MODULE ProjectRuntimesProofs ------------------------
(***************************************************************************)
(* Theorems about ProjectRuntimes for any number of requests, jobs,        *)
(* projects and workspaces: a leased workspace is neither closed nor       *)
(* replaced, none is forgotten, and the limit is kept while one of them is *)
(* closed or built.                                                        *)
(***************************************************************************)
EXTENDS ProjectRuntimes, FiniteSetTheorems, TLAPS

\* Those who are inside bind's critical section across an await.
Inside == {u \in Users : pc[u] \in {"closing", "building"}}
Building == {u \in Users : pc[u] = "building"}

\* What a user's place says of its local variables.
Local(u) ==
    /\ lease[u] # None <=> pc[u] \in {"using", "releasing"}
    /\ old[u] # None <=> pc[u] = "closing"
    /\ pc[u] \notin {"idle", "down"} => want[u] \in Projects
    /\ pc[u] \in {"closing", "building"} => cache[want[u]] = None
    /\ old[u] # None => old[u] \in open \ Cached

\* The manager's lock excludes.
OneInside == \A u, v \in Inside : u = v

\* The manager was not shut down.
Up == \E u \in Users : pc[u] # "down"

\* A workspace serves one project and is open while it is cached; a shutdown that
\* failed leaves closed ones in the cache.
CacheSound ==
    /\ \A p, q \in Projects : cache[p] = cache[q] /\ cache[p] # None => p = q
    /\ Up => Cached \subseteq open

\* References never fall below the leases (but a release that is cancelled leaves one).
Counted == \A e \in Entries : Cardinality(Holders(e)) <= refs[e]

IInv ==
    /\ TypeOK
    /\ \A u \in Users : Local(u)
    /\ OneInside
    /\ CacheSound
    /\ Counted
    /\ LeaseHolds
    /\ NothingForgotten
    /\ Bounded
------------------------------------------------------------------------------
\* The lock is free or one user has it.
LEMMA AloneInside ==
    ASSUME OneInside, NEW u \in Users, pc[u] \in {"closing", "building"}
    PROVE  \A v \in Users \ {u} : pc[v] \notin {"closing", "building"}
BY DEF OneInside, Inside

LEMMA HoldersFinite ==
    \A e \in Entries : IsFiniteSet(Holders(e)) /\ Cardinality(Holders(e)) \in Nat
BY UsersAssumption, FS_Subset, FS_CardinalityType DEF Holders

\* Whoever leases a workspace is counted.
LEMMA HolderCounts ==
    ASSUME TypeOK, Counted, NEW u \in Users, lease[u] # None
    PROVE  lease[u] \in Entries /\ refs[lease[u]] \in Nat \ {0}
<1>1. lease[u] \in Entries
    BY DEF TypeOK
<1>2. Cardinality(Holders(lease[u])) # 0
    BY <1>1, HoldersFinite, FS_EmptySet DEF Holders
<1> QED
    BY <1>1, <1>2, HoldersFinite DEF Counted, TypeOK

\* Every step keeps the types; a release finds a reference to give back.
LEMMA TypeStep ==
    ASSUME IInv, [Next]_vars
    PROVE  TypeOK'
<1> USE EntriesAssumption DEF IInv, TypeOK, Places, Goto
<1>1. ASSUME NEW u \in Users,
             Arrive(u) \/ Refuse(u) \/ StartBuild(u) \/ BuildFails(u) \/ StartRun(u)
             \/ EndRun(u) \/ Finish(u)
      PROVE  TypeOK'
    BY <1>1 DEF Arrive, Refuse, StartBuild, BuildFails, StartRun, EndRun, Finish, entries
<1>2. ASSUME NEW u \in Users, Reuse(u)
      PROVE  TypeOK'
    BY <1>2 DEF Reuse, TakeLease, Touch, Local
<1>3. ASSUME NEW u \in Users, Evict(u) \/ Close(u)
      PROVE  TypeOK'
    BY <1>3 DEF Evict, Close
<1>4. ASSUME NEW u \in Users, Build(u)
      PROVE  TypeOK'
  <2>1. PICK e \in Entries : /\ cache' = [cache EXCEPT ![want[u]] = e]
                             /\ open' = open \cup {e}
                             /\ refs' = [refs EXCEPT ![e] = 1]
                             /\ lease' = [lease EXCEPT ![u] = e]
                             /\ Touch(e)
    BY <1>4 DEF Build
  <2>2. pc' = [pc EXCEPT ![u] = "using"] /\ UNCHANGED <<want, old, tasks, stops>>
    BY <1>4 DEF Build
  <2> QED
    BY <2>1, <2>2 DEF Touch
<1>5. ASSUME NEW u \in Users, Release(u)
      PROVE  TypeOK'
    BY <1>5, HolderCounts DEF Release, Touch, Local
<1>6. ASSUME NEW u \in Users, Interrupt(u)
      PROVE  TypeOK'
    BY <1>6, MaximumAssumption DEF Interrupt
<1>7. CASE Shutdown
    BY <1>7 DEF Shutdown
<1>8. CASE UNCHANGED vars
    BY <1>8 DEF vars, entries, users
<1> QED
    BY <1>1, <1>2, <1>3, <1>4, <1>5, <1>6, <1>7, <1>8 DEF Next, Manage

\* The lock excludes: whoever enters finds it free.
LEMMA OneInsideStep ==
    ASSUME IInv, [Next]_vars
    PROVE  OneInside'
<1> USE DEF IInv, TypeOK, OneInside, Inside, Goto
<1>1. ASSUME NEW u \in Users,
             Arrive(u) \/ Refuse(u) \/ BuildFails(u) \/ StartRun(u)
             \/ EndRun(u) \/ Finish(u) \/ Release(u) \/ Close(u) \/ Build(u)
      PROVE  OneInside'
    BY <1>1 DEF Arrive, Refuse, BuildFails, StartRun, EndRun, Finish, Release, Close, Build
<1>2. ASSUME NEW u \in Users, Evict(u) \/ StartBuild(u)
      PROVE  OneInside'
    BY <1>2 DEF Evict, StartBuild, Locked
<1>3. ASSUME NEW u \in Users, Reuse(u) \/ Interrupt(u)
      PROVE  OneInside'
    BY <1>3 DEF Reuse, TakeLease, Interrupt
<1>4. CASE Shutdown
    BY <1>4 DEF Shutdown
<1>5. CASE UNCHANGED vars
    BY <1>5 DEF vars, users
<1> QED
    BY <1>1, <1>2, <1>3, <1>4, <1>5 DEF Next, Manage

\* What a user knows stays true while others act: only the one inside changes the cache.
LEMMA LocalStep ==
    ASSUME IInv, [Next]_vars
    PROVE  \A v \in Users : Local(v)'
<1> SUFFICES ASSUME NEW v \in Users PROVE Local(v)'
    OBVIOUS
<1> USE EntriesAssumption DEF IInv, TypeOK, Places, Local, Goto, Cached
<1>1. ASSUME NEW u \in Users,
             Arrive(u) \/ Refuse(u) \/ StartBuild(u) \/ BuildFails(u) \/ StartRun(u)
             \/ EndRun(u) \/ Finish(u)
      PROVE  Local(v)'
    BY <1>1 DEF Arrive, Refuse, StartBuild, BuildFails, StartRun, EndRun, Finish, entries
<1>2. ASSUME NEW u \in Users, Reuse(u) \/ Release(u)
      PROVE  Local(v)'
    BY <1>2 DEF Reuse, TakeLease, Release
<1>3. ASSUME NEW u \in Users, Evict(u)
      PROVE  Local(v)'
    BY <1>3 DEF Evict, LeastRecent, Idle, WithoutTasks, Locked, CacheSound, Up
<1>4. ASSUME NEW u \in Users, Close(u)
      PROVE  Local(v)'
    BY <1>4, AloneInside DEF Close
<1>5. ASSUME NEW u \in Users, Build(u)
      PROVE  Local(v)'
    BY <1>5, AloneInside DEF Build
<1>6. ASSUME NEW u \in Users, Interrupt(u)
      PROVE  Local(v)'
    BY <1>6, AloneInside DEF Interrupt
<1>7. CASE Shutdown
    BY <1>7 DEF Shutdown
<1>8. CASE UNCHANGED vars
    BY <1>8 DEF vars, entries, users
<1> QED
    BY <1>1, <1>2, <1>3, <1>4, <1>5, <1>6, <1>7, <1>8 DEF Next, Manage

\* What is cached is open and serves one project.
LEMMA CacheStep ==
    ASSUME IInv, [Next]_vars
    PROVE  CacheSound'
<1> USE EntriesAssumption DEF IInv, TypeOK, CacheSound, Up, Cached
<1>1. ASSUME UNCHANGED <<cache, open>>, Up' => Up
      PROVE  CacheSound'
    BY <1>1
<1>2. ASSUME NEW u \in Users, Evict(u)
      PROVE  CacheSound'
    BY <1>2 DEF Evict
<1>3. ASSUME NEW u \in Users, Close(u) \/ Interrupt(u)
      PROVE  CacheSound'
  <2>1. cache' = cache /\ open' = open \ {old[u]} /\ pc[u] # "down"
    BY <1>3 DEF Close, Interrupt
  <2>2. old[u] \notin Cached
    BY <1>3 DEF Local
  <2> QED
    BY <2>1, <2>2
<1>4. ASSUME NEW u \in Users, Build(u)
      PROVE  CacheSound'
    BY <1>4 DEF Build
<1>5. CASE Shutdown
  <2>1. ~Up'
    BY <1>5 DEF Shutdown
  <2> QED
    BY <1>5, <2>1 DEF Shutdown
<1>6. ASSUME NEW u \in Users,
             Arrive(u) \/ Reuse(u) \/ Refuse(u) \/ StartBuild(u) \/ BuildFails(u) \/ StartRun(u)
             \/ EndRun(u) \/ Finish(u) \/ Release(u)
      PROVE  UNCHANGED <<cache, open>> /\ (Up' => Up)
    BY <1>6 DEF Arrive, Reuse, TakeLease, Refuse, StartBuild, BuildFails, StartRun, EndRun,
                Finish, Release, entries
<1>7. CASE UNCHANGED vars
    BY <1>7, <1>1 DEF vars, entries, users
<1> QED
    BY <1>1, <1>2, <1>3, <1>4, <1>5, <1>6, <1>7 DEF Next, Manage

\* A lease less.
LEMMA OneLess ==
    ASSUME TypeOK, NEW u \in Users, lease[u] # None, lease' = [lease EXCEPT ![u] = None],
           NEW e \in Entries
    PROVE  Cardinality(Holders(e)') =
           IF e = lease[u] THEN Cardinality(Holders(e)) - 1 ELSE Cardinality(Holders(e))
<1>1. Holders(e)' = IF e = lease[u] THEN Holders(e) \ {u} ELSE Holders(e)
    BY EntriesAssumption DEF Holders, TypeOK
<1>2. e = lease[u] => u \in Holders(e)
    BY DEF Holders
<1> QED
    BY <1>1, <1>2, HoldersFinite, FS_RemoveElement

\* A lease more, for one that has none.
LEMMA OneMore ==
    ASSUME TypeOK, NEW u \in Users, lease[u] = None, NEW f \in Entries,
           lease' = [lease EXCEPT ![u] = f], NEW e \in Entries
    PROVE  Cardinality(Holders(e)') =
           IF e = f THEN Cardinality(Holders(e)) + 1 ELSE Cardinality(Holders(e))
<1>1. Holders(e)' = IF e = f THEN Holders(e) \cup {u} ELSE Holders(e)
    BY EntriesAssumption DEF Holders, TypeOK
<1>2. u \notin Holders(e)
    BY EntriesAssumption DEF Holders
<1> QED
    BY <1>1, <1>2, HoldersFinite, FS_AddElement

\* References never fall below the leases.
LEMMA CountedStep ==
    ASSUME IInv, [Next]_vars
    PROVE  Counted'
<1>1. ASSUME UNCHANGED <<lease, refs>>
      PROVE  Counted'
    BY <1>1 DEF IInv, Counted, Holders
<1>2. ASSUME NEW u \in Users, Reuse(u)
      PROVE  Counted'
  <2>1. cache[want[u]] \in Entries /\ lease[u] = None
    BY <1>2 DEF Reuse, IInv, TypeOK, Local
  <2>2. \A e \in Entries :
          Cardinality(Holders(e)') =
          IF e = cache[want[u]] THEN Cardinality(Holders(e)) + 1 ELSE Cardinality(Holders(e))
    BY <1>2, <2>1, OneMore DEF Reuse, TakeLease, IInv
  <2>3. refs' = [refs EXCEPT ![cache[want[u]]] = @ + 1]
    BY <1>2 DEF Reuse, TakeLease
  <2> QED
    BY <2>1, <2>2, <2>3, HoldersFinite DEF IInv, TypeOK, Counted
<1>3. ASSUME NEW u \in Users, Build(u)
      PROVE  Counted'
  <2>1. PICK e \in Entries : /\ \A v \in Users : lease[v] # e
                             /\ refs' = [refs EXCEPT ![e] = 1]
                             /\ lease' = [lease EXCEPT ![u] = e]
    BY <1>3 DEF Build
  <2>2. Holders(e) = {}
    BY <2>1 DEF Holders
  <2>3. lease[u] = None
    BY <1>3 DEF Build, IInv, Local
  <2>4. \A f \in Entries :
          Cardinality(Holders(f)') =
          IF f = e THEN Cardinality(Holders(f)) + 1 ELSE Cardinality(Holders(f))
    BY <2>1, <2>3, OneMore DEF IInv
  <2>5. Cardinality(Holders(e)) = 0
    BY <2>2, FS_EmptySet
  <2> QED
    BY <2>1, <2>4, <2>5, HoldersFinite DEF IInv, TypeOK, Counted
<1>4. ASSUME NEW u \in Users, Release(u)
      PROVE  Counted'
  <2>1. lease[u] # None
    BY <1>4 DEF Release, IInv, Local
  <2>2. lease[u] \in Entries /\ refs[lease[u]] \in Nat \ {0}
    BY <2>1, HolderCounts DEF IInv
  <2>3. \A e \in Entries :
          Cardinality(Holders(e)') =
          IF e = lease[u] THEN Cardinality(Holders(e)) - 1 ELSE Cardinality(Holders(e))
    BY <1>4, <2>1, OneLess DEF Release, IInv
  <2>4. refs' = [refs EXCEPT ![lease[u]] = @ - 1]
    BY <1>4 DEF Release
  <2> QED
    BY <2>2, <2>3, <2>4, HoldersFinite DEF IInv, TypeOK, Counted
<1>5. ASSUME NEW u \in Users, Interrupt(u)
      PROVE  Counted'
  <2>1. CASE pc[u] = "releasing"
    <3>1. lease[u] # None
      BY <2>1 DEF IInv, Local
    <3>2. \A e \in Entries : Cardinality(Holders(e)') \in {Cardinality(Holders(e)),
                                                           Cardinality(Holders(e)) - 1}
      BY <1>5, <2>1, <3>1, OneLess DEF Interrupt, IInv
    <3>3. refs' = refs
      BY <1>5 DEF Interrupt
    <3> QED
      BY <3>2, <3>3, HoldersFinite DEF IInv, TypeOK, Counted
  <2>2. CASE pc[u] # "releasing"
    BY <1>5, <2>2, <1>1 DEF Interrupt
  <2> QED
    BY <2>1, <2>2
<1> QED
    BY <1>1, <1>2, <1>3, <1>4, <1>5
    DEF Next, Manage, vars, entries, users, Arrive, Refuse, Evict, Close, StartBuild,
        BuildFails, StartRun, EndRun, Finish, Shutdown

\* An idle workspace has no holder.
LEMMA IdleIsFree ==
    ASSUME TypeOK, Counted, NEW e \in Entries, Idle(e)
    PROVE  \A u \in Users : lease[u] # e
BY HolderCounts, EntriesAssumption DEF Idle, TypeOK

\* A lease survives all steps of others.
LEMMA LeaseStep ==
    ASSUME IInv, [Next]_vars
    PROVE  LeaseHolds'
<1> SUFFICES ASSUME NEW v \in Users, lease'[v] # None
             PROVE  lease'[v] \in open' /\ cache'[want'[v]] = lease'[v]
    BY DEF LeaseHolds
<1> USE EntriesAssumption DEF IInv, TypeOK, LeaseHolds
<1>1. ASSUME UNCHANGED <<cache, open, want, lease>>
      PROVE  lease'[v] \in open' /\ cache'[want'[v]] = lease'[v]
    BY <1>1
<1>2. ASSUME NEW u \in Users, Arrive(u) \/ Release(u)
      PROVE  lease'[v] \in open' /\ cache'[want'[v]] = lease'[v]
    BY <1>2 DEF Arrive, Release, entries, Local
<1>3. ASSUME NEW u \in Users, Reuse(u)
      PROVE  lease'[v] \in open' /\ cache'[want'[v]] = lease'[v]
    BY <1>3 DEF Reuse, TakeLease, Local, CacheSound, Up, Cached
<1>4. ASSUME NEW u \in Users, Evict(u)
      PROVE  lease'[v] \in open' /\ cache'[want'[v]] = lease'[v]
    BY <1>4, IdleIsFree DEF Evict, LeastRecent, Local
<1>5. ASSUME NEW u \in Users, Close(u) \/ Interrupt(u)
      PROVE  lease'[v] \in open' /\ cache'[want'[v]] = lease'[v]
    BY <1>5 DEF Close, Interrupt, Local, Cached
<1>6. ASSUME NEW u \in Users, Build(u)
      PROVE  lease'[v] \in open' /\ cache'[want'[v]] = lease'[v]
  <2>1. PICK e \in Entries \ Cached : /\ cache' = [cache EXCEPT ![want[u]] = e]
                                      /\ open' = open \cup {e}
                                      /\ lease' = [lease EXCEPT ![u] = e]
    BY <1>6 DEF Build
  <2>2. want' = want /\ want[u] \in Projects /\ cache[want[u]] = None
    BY <1>6 DEF Build, Local
  <2>3. v # u => want[v] \in Projects
    BY <2>1 DEF Local
  <2> QED
    BY <2>1, <2>2, <2>3
<1>7. CASE Shutdown
    BY <1>7 DEF Shutdown, Local
<1> QED
    BY <1>1, <1>2, <1>3, <1>4, <1>5, <1>6, <1>7
    DEF Next, Manage, vars, entries, users, Refuse, StartBuild, BuildFails, StartRun,
        EndRun, Finish

\* An open workspace stays within reach.
LEMMA ForgottenStep ==
    ASSUME IInv, [Next]_vars
    PROVE  NothingForgotten'
<1> USE EntriesAssumption DEF IInv, TypeOK, NothingForgotten, Cached, Goto
<1>1. ASSUME NEW u \in Users,
             Arrive(u) \/ Refuse(u) \/ StartBuild(u) \/ BuildFails(u) \/ StartRun(u)
             \/ EndRun(u) \/ Finish(u)
      PROVE  NothingForgotten'
    BY <1>1 DEF Arrive, Refuse, StartBuild, BuildFails, StartRun, EndRun, Finish, entries
<1>2. ASSUME NEW u \in Users, Reuse(u) \/ Release(u)
      PROVE  NothingForgotten'
    BY <1>2 DEF Reuse, TakeLease, Release
<1>3. ASSUME NEW u \in Users, Evict(u)
      PROVE  NothingForgotten'
    BY <1>3 DEF Evict, Locked
<1>4. ASSUME NEW u \in Users, Close(u) \/ Interrupt(u)
      PROVE  NothingForgotten'
    BY <1>4 DEF Close, Interrupt, Local
<1>5. ASSUME NEW u \in Users, Build(u)
      PROVE  NothingForgotten'
  <2>1. PICK e \in Entries : /\ cache' = [cache EXCEPT ![want[u]] = e]
                             /\ open' = open \cup {e}
    BY <1>5 DEF Build
  <2>2. want[u] \in Projects /\ cache[want[u]] = None
    BY <1>5 DEF Build, Local
  <2> QED
    BY <1>5, <2>1, <2>2, AloneInside DEF Build
<1>6. CASE Shutdown
    BY <1>6 DEF Shutdown
<1>7. CASE UNCHANGED vars
    BY <1>7 DEF vars, entries, users
<1> QED
    BY <1>1, <1>2, <1>3, <1>4, <1>5, <1>6, <1>7 DEF Next, Manage

\* The sets that Bounded counts, with the room that a step gives or takes.
LEMMA Counts ==
    ASSUME TypeOK
    PROVE  /\ IsFiniteSet(open) /\ IsFiniteSet(Building) /\ IsFiniteSet(Cached)
           /\ Cardinality(open) \in Nat /\ Cardinality(Building) \in Nat
BY UsersAssumption, EntriesAssumption, FS_Subset, FS_CardinalityType
DEF TypeOK, Building, Cached

LEMMA Fewer ==
    ASSUME NEW S, NEW T, IsFiniteSet(T), S \subseteq T
    PROVE  Cardinality(S) \in Nat /\ Cardinality(T) \in Nat /\ Cardinality(S) <= Cardinality(T)
BY FS_Subset, FS_CardinalityType

\* Room is made before a workspace is built.
LEMMA BoundedStep ==
    ASSUME IInv, [Next]_vars
    PROVE  Bounded'
<1> USE DEF IInv
<1>1. ASSUME open' \subseteq open, Building' \subseteq Building
      PROVE  Bounded'
    BY <1>1, Counts, Fewer, MaximumAssumption DEF Bounded, Building
<1>2. ASSUME NEW u \in Users, StartBuild(u)
      PROVE  Bounded'
  <2>1. Building = {} /\ Building' = {u} /\ open' = open
    BY <1>2 DEF StartBuild, Locked, Goto, Building, TypeOK, entries
  <2>2. open = Cached
    BY <1>2 DEF StartBuild, Locked, NothingForgotten, CacheSound, Up, TypeOK
  <2>3. Cardinality(open) < Maximum
    BY <1>2, <2>2, Counts, MaximumAssumption DEF StartBuild, Full
  <2> QED
    <3>1. Cardinality(Building') = 1 /\ Cardinality(open) \in Nat
      BY <2>1, Counts, FS_Singleton
    <3> QED
      BY <2>1, <2>3, <3>1, MaximumAssumption DEF Bounded, Building
<1>3. ASSUME NEW u \in Users, Close(u)
      PROVE  Bounded'
  <2>1. old[u] \in open /\ Building = {}
    BY <1>3, AloneInside DEF Close, Local, Building
  <2>2. open' = open \ {old[u]} /\ Building' \subseteq {u}
    BY <1>3, <2>1 DEF Close, Goto, Building, TypeOK
  <2>3. Cardinality(open') = Cardinality(open) - 1
    BY <2>1, <2>2, Counts, FS_RemoveElement
  <2>4. Cardinality(Building') \in Nat /\ Cardinality(Building') <= 1
    <3>1. IsFiniteSet({u}) /\ Cardinality({u}) = 1
      BY FS_Singleton
    <3> QED
      BY <2>2, <3>1, Fewer
  <2>5. Cardinality(Building) = 0 /\ Cardinality(open) \in Nat
    BY <2>1, Counts, FS_EmptySet
  <2> QED
    BY <2>3, <2>4, <2>5, MaximumAssumption DEF Bounded, Building
<1>4. ASSUME NEW u \in Users, Build(u)
      PROVE  Bounded'
  <2>1. PICK e \in Entries \ open : open' = open \cup {e}
    BY <1>4 DEF Build
  <2>2. u \in Building /\ Building' = Building \ {u}
    BY <1>4 DEF Build, Goto, Building, TypeOK
  <2>3. /\ Cardinality(open') = Cardinality(open) + 1 /\ Cardinality(open) \in Nat
        /\ Cardinality(Building') = Cardinality(Building) - 1 /\ Cardinality(Building) \in Nat
    BY <2>1, <2>2, Counts, FS_AddElement, FS_RemoveElement
  <2> QED
    BY <2>3, MaximumAssumption DEF Bounded, Building
<1>5. ASSUME NEW u \in Users,
             Arrive(u) \/ Reuse(u) \/ Refuse(u) \/ Evict(u) \/ BuildFails(u) \/ StartRun(u)
             \/ EndRun(u) \/ Finish(u) \/ Release(u) \/ Interrupt(u)
      PROVE  open' \subseteq open /\ Building' \subseteq Building
    BY <1>5
    DEF Arrive, Reuse, TakeLease, Refuse, Evict, BuildFails, StartRun, EndRun, Finish,
        Release, Interrupt, Goto, entries, Building, TypeOK
<1>6. CASE Shutdown
    BY <1>6, <1>1 DEF Shutdown, Building
<1>7. CASE UNCHANGED vars
    BY <1>7, <1>1 DEF vars, entries, users, Building
<1> QED
    BY <1>1, <1>2, <1>3, <1>4, <1>5, <1>6, <1>7 DEF Next, Manage

------------------------------------------------------------------------------
\* The invariant of the manager under its lock.
THEOREM Inductive == Spec => []IInv
<1>1. Init => IInv
  <2> SUFFICES ASSUME Init PROVE IInv
    OBVIOUS
  <2> USE EntriesAssumption, MaximumAssumption DEF Init
  <2>1. \A e \in Entries : Holders(e) = {}
    BY DEF Holders
  <2>2. TypeOK
    BY DEF TypeOK, Places
  <2>3. /\ \A u \in Users : Local(u)
        /\ OneInside /\ LeaseHolds /\ NothingForgotten
    BY DEF Local, OneInside, Inside, LeaseHolds, NothingForgotten
  <2>4. CacheSound
    BY DEF CacheSound, Cached
  <2>5. Counted
    BY <2>1, FS_EmptySet DEF Counted
  <2>6. Bounded
    <3>1. {u \in Users : pc[u] = "building"} = {}
      OBVIOUS
    <3> QED
      BY <3>1, FS_EmptySet DEF Bounded
  <2> QED
    BY <2>2, <2>3, <2>4, <2>5, <2>6 DEF IInv
<1>2. IInv /\ [Next]_vars => IInv'
    BY TypeStep, OneInsideStep, LocalStep, CacheStep, CountedStep, LeaseStep, ForgottenStep,
       BoundedStep
    DEF IInv
<1> QED
    BY <1>1, <1>2, PTL DEF Spec

\* Every variable keeps its type; references never become negative.
THEOREM TypeCorrect == Spec => []TypeOK
<1>1. IInv => TypeOK
    BY DEF IInv
<1> QED
    BY <1>1, Inductive, PTL

\* No workspace is closed or replaced under a request, a stream or a job that leases it,
\* whatever is evicted, built or cancelled meanwhile.
THEOREM LeasesHold == Spec => []LeaseHolds
<1>1. IInv => LeaseHolds
    BY DEF IInv
<1> QED
    BY <1>1, Inductive, PTL

\* Whatever is open can be evicted or closed with the manager.
THEOREM NoneForgotten == Spec => []NothingForgotten
<1>1. IInv => NothingForgotten
    BY DEF IInv
<1> QED
    BY <1>1, Inductive, PTL

\* The limit holds also while a workspace is closed or built.
THEOREM LimitKept == Spec => []Bounded
<1>1. IInv => Bounded
    BY DEF IInv
<1> QED
    BY <1>1, Inductive, PTL
==============================================================================
