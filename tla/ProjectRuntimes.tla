---------------------------- MODULE ProjectRuntimes ----------------------------
(***************************************************************************)
(* The workspaces of managed projects (app/runtime/projects.py): a bounded *)
(* cache of application states, one for each project, which requests and   *)
(* improvement jobs lease (bind, release), and from which an idle one is   *)
(* evicted and closed to make room.                                        *)
(*                                                                         *)
(* All of this happens under one asyncio.Lock.  A step of bind or release  *)
(* that awaits nothing is one action, enabled while nobody holds the lock; *)
(* only those closing and building a workspace keep it across an await.    *)
(***************************************************************************)
EXTENDS Naturals, FiniteSets

CONSTANTS
    Users,     \* requests and improvement jobs, each served again and again
    Jobs,      \* those of them that run as jobs, whose tasks may be cancelled
    Projects,
    Entries,   \* RuntimeEntry objects
    Maximum,   \* ProjectRuntimeManager.maximum
    MaxStops,  \* bound: cancellations of jobs
    None

ASSUME UsersAssumption == IsFiniteSet(Users) /\ Jobs \subseteq Users
ASSUME MaximumAssumption == Maximum \in Nat \ {0} /\ MaxStops \in Nat
ASSUME EntriesAssumption ==
    IsFiniteSet(Entries) /\ IsFiniteSet(Projects) /\ None \notin Entries \cup Projects

VARIABLES
    cache,    \* cache[p]: entries[p] or None
    open,     \* entries whose resources are open
    refs,     \* refs[e]: references
    since,    \* since[e]: the entries whose last_used is later than that of e
    pc,       \* pc[u]: where the user's task is suspended
    want,     \* want[u]: principal.project_id
    lease,    \* lease[u]: the entry in its scope
    old,      \* old[u]: the entry it is closing
    tasks,    \* users with a run in their workspace's runner.tasks
    stops     \* cancellations so far

entries == <<cache, open, refs, since>>
users == <<pc, want, lease, old, tasks>>
vars == <<entries, users, stops>>

------------------------------------------------------------------------------
Places == {"idle", "waiting", "closing", "building", "using", "releasing", "down"}

Cached == {e \in Entries : \E p \in Projects : cache[p] = e}

\* The manager's lock. (Mutated form: there is none.)
NoLock == FALSE
Locked == \E u \in Users : pc[u] \in {"closing", "building"}

\* An entry may be evicted when nobody references it and its runner has no tasks.
\* (Mutated form: only the tasks count.)
WithoutTasks(e) == e \in Cached /\ \A u \in tasks : lease[u] # e
Idle(e) == WithoutTasks(e) /\ refs[e] = 0

\* min(idle, key=last_used)
LeastRecent(e) == Idle(e) /\ \A f \in Entries \ {e} : Idle(f) => f \in since[e]

Full == Cardinality(Cached) >= Maximum

Touch(e) == since' = [f \in Entries |-> IF f = e THEN {} ELSE since[f] \cup {e}]

Goto(u, where) == pc' = [pc EXCEPT ![u] = where]

TakeLease(u, e) ==
    /\ refs' = [refs EXCEPT ![e] = @ + 1]
    /\ lease' = [lease EXCEPT ![u] = e]
    /\ Touch(e)
    /\ Goto(u, "using")

------------------------------------------------------------------------------
Init ==
    /\ cache = [p \in Projects |-> None]
    /\ open = {}
    /\ refs = [e \in Entries |-> 0]
    /\ since = [e \in Entries |-> {}]
    /\ pc = [u \in Users |-> "idle"]
    /\ want = [u \in Users |-> None]
    /\ lease = [u \in Users |-> None]
    /\ old = [u \in Users |-> None]
    /\ tasks = {}
    /\ stops = 0

\* A request is authenticated, or a job resolves its membership, and calls bind.
Arrive(u) ==
    /\ pc[u] = "idle"
    /\ \E p \in Projects : want' = [want EXCEPT ![u] = p]
    /\ Goto(u, "waiting")
    /\ UNCHANGED <<entries, lease, old, tasks, stops>>

\* The workspace is cached.
Reuse(u) ==
    /\ pc[u] = "waiting" /\ ~Locked
    /\ cache[want[u]] # None
    /\ TakeLease(u, cache[want[u]])
    /\ UNCHANGED <<cache, open, want, old, tasks, stops>>

\* "All project workspaces are busy." (Mutated form: it waits for an idle one.)
WaitForIdle(u) == FALSE /\ UNCHANGED vars
Refuse(u) ==
    /\ pc[u] = "waiting" /\ ~Locked
    /\ cache[want[u]] = None
    /\ Full
    /\ \A e \in Entries : ~Idle(e)
    /\ Goto(u, "idle")
    /\ UNCHANGED <<entries, want, lease, old, tasks, stops>>

\* The idle workspace used least recently makes room.
Evict(u) ==
    /\ pc[u] = "waiting" /\ ~Locked
    /\ cache[want[u]] = None
    /\ Full
    /\ \E e \in Entries :
         /\ LeastRecent(e)
         /\ cache' = [p \in Projects |-> IF cache[p] = e THEN None ELSE cache[p]]
         /\ old' = [old EXCEPT ![u] = e]
    /\ Goto(u, "closing")
    /\ UNCHANGED <<open, refs, since, want, lease, tasks, stops>>

\* Its AsyncExitStack is closed to the last callback, whatever one of them raises.
Close(u) ==
    /\ pc[u] = "closing"
    /\ open' = open \ {old[u]}
    /\ old' = [old EXCEPT ![u] = None]
    /\ \E where \in {"building", "idle"} : Goto(u, where)
    /\ UNCHANGED <<cache, refs, since, want, lease, tasks, stops>>

\* There is room.
StartBuild(u) ==
    /\ pc[u] = "waiting" /\ ~Locked
    /\ cache[want[u]] = None
    /\ ~Full
    /\ Goto(u, "building")
    /\ UNCHANGED <<entries, want, lease, old, tasks, stops>>

\* application_lifespan starts the workspace...
Build(u) ==
    /\ pc[u] = "building"
    /\ \E e \in Entries \ (open \cup Cached) :
         /\ \A v \in Users : lease[v] # e
         /\ cache' = [cache EXCEPT ![want[u]] = e]
         /\ open' = open \cup {e}
         /\ refs' = [refs EXCEPT ![e] = 1]
         /\ lease' = [lease EXCEPT ![u] = e]
         /\ Touch(e)
    /\ Goto(u, "using")
    /\ UNCHANGED <<want, old, tasks, stops>>

\* ... or fails and undoes what it had opened.
BuildFails(u) ==
    /\ pc[u] = "building"
    /\ Goto(u, "idle")
    /\ UNCHANGED <<entries, want, lease, old, tasks, stops>>

\* A run of the request is registered in the workspace's runner, and ends.
StartRun(u) ==
    /\ pc[u] = "using"
    /\ tasks' = tasks \cup {u}
    /\ UNCHANGED <<entries, pc, want, lease, old, stops>>

EndRun(u) ==
    /\ u \in tasks
    /\ tasks' = tasks \ {u}
    /\ UNCHANGED <<entries, pc, want, lease, old, stops>>

\* The response is complete (a stream waits for its run); release waits for the lock.
Finish(u) ==
    /\ pc[u] = "using" /\ u \notin tasks
    /\ Goto(u, "releasing")
    /\ UNCHANGED <<entries, want, lease, old, tasks, stops>>

Release(u) ==
    /\ pc[u] = "releasing" /\ ~Locked
    /\ refs' = [refs EXCEPT ![lease[u]] = @ - 1]
    /\ Touch(lease[u])
    /\ lease' = [lease EXCEPT ![u] = None]
    /\ Goto(u, "idle")
    /\ UNCHANGED <<cache, open, want, old, tasks, stops>>

\* The heartbeat cancels the task of a job.  Waiting for the lock, or holding it, bind
\* gives up; at work the job goes on to release; a release that waits is given up, too
\* (where the lock is free, release does not wait).
Interrupt(u) ==
    /\ u \in Jobs /\ stops < MaxStops
    /\ stops' = stops + 1
    /\ pc[u] \in Places \ {"idle", "down"}
    /\ pc[u] = "releasing" => Locked
    /\ Goto(u, IF pc[u] = "using" THEN "releasing" ELSE "idle")
    /\ open' = open \ {old[u]}
    /\ old' = [old EXCEPT ![u] = None]
    /\ tasks' = tasks \ {u}
    /\ lease' = IF pc[u] = "releasing" THEN [lease EXCEPT ![u] = None] ELSE lease
    /\ UNCHANGED <<cache, refs, since, want>>

\* aclose, when the server has served its last request and the job's worker has ended.
\* It stops at the first workspace that fails to close, which is closed all the same.
Shutdown ==
    /\ \A u \in Users : pc[u] = "idle"
    /\ pc' = [u \in Users |-> "down"]
    /\ \/ open' = open \ Cached /\ cache' = [p \in Projects |-> None]
       \/ \E reached \in (SUBSET Cached) \ {{}} : open' = open \ reached /\ UNCHANGED cache
    /\ UNCHANGED <<refs, since, want, lease, old, tasks, stops>>

------------------------------------------------------------------------------
\* What bind and release do.
Manage(u) ==
    \/ Reuse(u) \/ Refuse(u) \/ Evict(u) \/ Close(u) \/ StartBuild(u) \/ Build(u) \/ BuildFails(u)
    \/ Release(u)

Next ==
    \/ \E u \in Users :
         Manage(u) \/ Arrive(u) \/ StartRun(u) \/ EndRun(u) \/ Finish(u) \/ Interrupt(u)
    \/ Shutdown

Spec == Init /\ [][Next]_vars

\* asyncio.Lock serves its waiters in their order; workspaces close and start, or fail
\* to.  Requests and jobs may go on for ever.
FairSpec == Spec /\ \A u \in Users : SF_vars(Manage(u))

------------------------------------------------------------------------------
(***************************************************************************)
(* Properties.                                                             *)
(***************************************************************************)

Holders(e) == {u \in Users : lease[u] = e}

\* Every variable has the type of the attribute or local variable it stands for.
TypeOK ==
    /\ cache \in [Projects -> Entries \cup {None}]
    /\ open \in SUBSET Entries
    /\ refs \in [Entries -> Nat]
    /\ since \in [Entries -> SUBSET Entries]
    /\ pc \in [Users -> Places]
    /\ want \in [Users -> Projects \cup {None}]
    /\ lease \in [Users -> Entries \cup {None}]
    /\ old \in [Users -> Entries \cup {None}]
    /\ tasks \in SUBSET Users
    /\ stops \in 0 .. MaxStops

\* "Hold runtime resources until the complete HTTP/SSE response finishes"
\* (ProjectLeaseMiddleware): a leased workspace is open, and it is the one every other
\* request of the project gets.
LeaseHolds ==
    \A u \in Users : lease[u] # None => lease[u] \in open /\ cache[want[u]] = lease[u]

\* No open workspace is forgotten: it is cached or about to be closed, so evictions and
\* shutdown can find it.  (Those behind a workspace that fails to close are left open by
\* the shutdown, in the cache.)
NothingForgotten ==
    \A e \in open : e \in Cached \/ \E u \in Users : pc[u] = "closing" /\ old[u] = e

\* "Bounded per-project runtime contexts": never more than Maximum are open, the one
\* that is being closed and the one that is being built included.
Bounded ==
    Cardinality(open) + Cardinality({u \in Users : pc[u] = "building"}) <= Maximum

\* The test of the job's lease (test_improvement_api.py) expects a workspace that
\* nobody leases to have no references, so that it can be evicted.
ReferencesReturn == \A e \in Cached : Holders(e) = {} => refs[e] = 0

\* Whoever asks for a workspace gets it or is refused, although other requests never
\* end and workspaces fail to start.
Answered == \A u \in Users : pc[u] = "waiting" ~> pc[u] # "waiting"
==============================================================================
