--------------------------------- MODULE Locks ---------------------------------
(***************************************************************************)
(* anyio/lock.py on anyio/future.py.  A Lock hands itself over: release     *)
(* sets the oldest future, and the task that awaits it is the next owner    *)
(* when it runs.  A WaitLock only lets tasks wait: release sets all futures.*)
(***************************************************************************)
EXTENDS Naturals, Sequences, FiniteSets, SequencesExt

CONSTANT Tasks

ASSUME TasksFinite == IsFiniteSet(Tasks)

VARIABLES locked, futs,  \* Lock._locked and _fut, a future named by its task
          at,            \* per task: where it is with the Lock
          drained,       \* history: times the last waiter was taken from _fut by a
                         \* release, counted up to the number of tasks
          shut,          \* WaitLock._locked
          sleepers,      \* WaitLock._fut, a future named by its task
          set,           \* the sleepers whose future is set
          raised         \* history: the last WaitLock.release raised an exception

lock     == <<locked, futs, at, drained>>
waitLock == <<shut, sleepers, set, raised>>
locksVars == <<lock, waitLock>>

LocksTypeOK ==
    /\ {locked, shut, raised} \subseteq BOOLEAN
    /\ futs \in Seq(Tasks) /\ sleepers \in Seq(Tasks)
    /\ at \in [Tasks -> {"out", "waiting", "woken", "in"}]
    /\ drained \in 0 .. Cardinality(Tasks) /\ set \subseteq Tasks

LocksInit ==
    /\ locked = FALSE /\ futs = <<>> /\ at = [t \in Tasks |-> "out"] /\ drained = 0
    /\ shut \in BOOLEAN /\ sleepers = <<>> /\ set = {} /\ raised = FALSE
-----------------------------------------------------------------------------
(***************************************************************************)
(* Lock.                                                                   *)
(***************************************************************************)
Owners == {t \in Tasks : at[t] \in {"woken", "in"}}

AcquireNow(t) ==
    /\ at[t] = "out" /\ ~locked
    /\ locked' = TRUE /\ at' = [at EXCEPT ![t] = "in"]
    /\ UNCHANGED <<futs, drained, waitLock>>

AcquireWait(t) ==
    /\ at[t] = "out" /\ locked
    /\ futs' = Append(futs, t) /\ at' = [at EXCEPT ![t] = "waiting"]
    /\ UNCHANGED <<locked, drained, waitLock>>

\* also when it is cancelled in between: the `return' in acquire's finally drops
\* the exception
AcquireResume(t) ==
    /\ at[t] = "woken"
    /\ at' = [at EXCEPT ![t] = "in"]
    /\ UNCHANGED <<locked, futs, drained, waitLock>>

\* cancelled while the future is not set
AcquireCancelled(t) ==
    /\ at[t] = "waiting"
    /\ futs' = RemoveFirst(futs, t) /\ at' = [at EXCEPT ![t] = "out"]
    /\ UNCHANGED <<locked, drained, waitLock>>

\* release returns before it unlocks when nobody waits
ReleaseAlone(t) ==
    /\ at[t] = "in" /\ (~locked \/ futs = <<>>)
    /\ at' = [at EXCEPT ![t] = "out"]
    /\ UNCHANGED <<locked, futs, drained, waitLock>>

\* Mutation: the lock is marked as free at every hand-over.
HandOverUnlocks(t) ==
    /\ at[t] = "in" /\ locked /\ futs # <<>>
    /\ futs' = Tail(futs) /\ at' = [at EXCEPT ![t] = "out", ![Head(futs)] = "woken"]
    /\ locked' = FALSE
    /\ drained' = drained + (IF Len(futs) = 1 /\ drained < Cardinality(Tasks) THEN 1 ELSE 0)
    /\ UNCHANGED waitLock

\* Mutation: the popped future is not set.
HandOverUnnoticed(t) ==
    /\ at[t] = "in" /\ locked /\ futs # <<>>
    /\ futs' = Tail(futs) /\ at' = [at EXCEPT ![t] = "out"]
    /\ locked' = (Len(futs) # 1)
    /\ drained' = drained + (IF Len(futs) = 1 /\ drained < Cardinality(Tasks) THEN 1 ELSE 0)
    /\ UNCHANGED waitLock

\* the lock passes to the first waiter; with the last one it is marked as free
HandOver(t) ==
    /\ at[t] = "in" /\ locked /\ futs # <<>>
    /\ futs' = Tail(futs) /\ at' = [at EXCEPT ![t] = "out", ![Head(futs)] = "woken"]
    /\ locked' = (Len(futs) # 1)
    /\ drained' = drained + (IF Len(futs) = 1 /\ drained < Cardinality(Tasks) THEN 1 ELSE 0)
    /\ UNCHANGED waitLock
-----------------------------------------------------------------------------
(***************************************************************************)
(* WaitLock.  wait returns at once while it is not locked.                  *)
(***************************************************************************)
Shut ==
    /\ shut' = TRUE
    /\ UNCHANGED <<sleepers, set, raised, lock>>

\* Mutation: release sets the oldest future only.
OpenOne ==
    /\ shut' = FALSE
    /\ set' = set \cup {sleepers[i] : i \in DOMAIN sleepers \cap {1}}
    /\ raised' = FALSE
    /\ UNCHANGED <<sleepers, lock>>

\* Future.set_result raises when the future is set already: those behind a future
\* an earlier release has set, and its task not yet seen, stay as they are
Open ==
    LET Before(i) == \A j \in 1 .. i : sleepers[j] \notin set IN
    /\ shut' = FALSE
    /\ set' = set \cup {sleepers[i] : i \in {j \in DOMAIN sleepers : Before(j)}}
    /\ raised' = \E i \in DOMAIN sleepers : sleepers[i] \in set
    /\ UNCHANGED <<sleepers, lock>>

Wait(t) ==
    /\ shut /\ \A i \in DOMAIN sleepers : sleepers[i] # t
    /\ sleepers' = Append(sleepers, t)
    /\ UNCHANGED <<shut, set, raised, lock>>

\* woken, or cancelled, with its future set or not
WaitEnds(t) ==
    /\ \E i \in DOMAIN sleepers : sleepers[i] = t
    /\ sleepers' = RemoveFirst(sleepers, t) /\ set' = set \ {t}
    /\ UNCHANGED <<shut, raised, lock>>
-----------------------------------------------------------------------------
LockNext ==
    \E t \in Tasks : \/ AcquireNow(t) \/ AcquireWait(t) \/ AcquireResume(t)
                     \/ AcquireCancelled(t) \/ ReleaseAlone(t) \/ HandOver(t)

WaitLockNext == Shut \/ Open \/ \E t \in Tasks : Wait(t) \/ WaitEnds(t)

LocksNext == LockNext \/ WaitLockNext

LocksSpec == LocksInit /\ [][LocksNext]_locksVars

\* the event loop runs a woken task, and an owner releases the lock in the end
Proceeds(t) == AcquireResume(t) \/ ReleaseAlone(t) \/ HandOver(t)
-----------------------------------------------------------------------------
\* The lock has one owner, and at most one more for every release that took the
\* last waiter from the deque: cancelled and woken tasks add none.
OneOwner == Cardinality(Owners) <= 1 + drained

\* A task that waits for the lock gets it or is cancelled, as long as the lock is
\* not left locked without an owner (by a release that nobody waited for).
Orphaned == locked /\ Owners = {}
WaiterEnters == \A t \in Tasks : (at[t] = "waiting") ~> (at[t] # "waiting" \/ Orphaned)

\* Nobody sleeps in wait() on a WaitLock that is open, unless the release that
\* opened it raised an exception half-way.
NoSleeperUnlocked ==
    ~shut /\ ~raised => \A i \in DOMAIN sleepers : sleepers[i] \in set
=============================================================================
