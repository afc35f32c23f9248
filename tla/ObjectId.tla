-------------------------------- MODULE ObjectId --------------------------------
(***************************************************************************)
(* objectid.py ObjectId.__generate and _random: threads of processes that   *)
(* fork draw ids.  The counter is read and stored under a threading.Lock;   *)
(* the random part is one per process, drawn again when the pid has changed.*)
(*                                                                          *)
(* Random parts are named by the process that drew them (two of one process *)
(* are not told apart, those of two processes differ), processes by the     *)
(* order of their births.  The time of an id is left out: it can only tell  *)
(* more ids apart.                                                          *)
(***************************************************************************)
EXTENDS Naturals

CONSTANTS Pids, Threads,
          MaxCounterValue,     \* _MAX_COUNTER_VALUE
          MaxDraws, MaxBirths  \* bounds: values drawn from counters, processes

ASSUME CounterAssumption == MaxCounterValue \in Nat
ASSUME ThreadsAssumption == Threads \cap {"free", "inherited"} = {}

VARIABLES alive,            \* the pids in use
          birth,            \* per pid: which process has it
          pid, random,      \* _pid, __random of each process
          inc, inc_lock,    \* _inc, and who holds _inc_lock
          recycled,         \* history: the process inherited its own pid as _pid
          n,                \* history: _inc before it is reduced
          tpc, local,       \* per thread: where it is, and its local inc (with n)
          births, draws,    \* how many there have been
          ids               \* the ids generated

shared == <<pid, random, inc, inc_lock, n>>
world  == <<alive, birth, recycled, births>>
idVars == <<shared, world, tpc, local, draws, ids>>

Modulus == MaxCounterValue + 1
Stages == {"none", "idle", "lock", "store", "random", "set", "draw", "use"}
Draw == [inc : 0 .. MaxCounterValue, n : Nat]
NoFrame == [inc |-> 0, n |-> 0]
Ids == [process : Nat, thread : Threads, random : Nat, n : Nat, inc : 0 .. MaxCounterValue]

IdTypeOK ==
    /\ alive \subseteq Pids /\ birth \in [Pids -> Nat] /\ recycled \in [Pids -> BOOLEAN]
    /\ pid \in [Pids -> Pids] /\ random \in [Pids -> Nat]
    /\ inc \in [Pids -> 0 .. MaxCounterValue] /\ n \in [Pids -> Nat]
    /\ inc_lock \in [Pids -> Threads \cup {"free", "inherited"}]
    /\ tpc \in [Pids -> [Threads -> Stages]] /\ local \in [Pids -> [Threads -> Draw]]
    /\ births \in Nat /\ draws \in Nat /\ ids \subseteq Ids

\* the module has been imported by the first process
IdInit ==
    /\ \E p \in Pids, t \in Threads, c \in 0 .. MaxCounterValue :
        /\ alive = {p} /\ pid = [q \in Pids |-> p]
        /\ inc = [q \in Pids |-> c] /\ n = [q \in Pids |-> c]
        /\ tpc = [q \in Pids |-> [u \in Threads |-> IF q = p /\ u = t THEN "idle" ELSE "none"]]
    /\ local = [q \in Pids |-> [u \in Threads |-> NoFrame]]
    /\ birth = [q \in Pids |-> 1] /\ random = [q \in Pids |-> 1]
    /\ inc_lock = [q \in Pids |-> "free"] /\ recycled = [q \in Pids |-> FALSE]
    /\ births = 1 /\ draws = 0 /\ ids = {}
-----------------------------------------------------------------------------
(***************************************************************************)
(* __generate, from the lock on.                                           *)
(***************************************************************************)
At(p, t, stage) == p \in alive /\ tpc[p][t] = stage
Go(p, t, stage) == tpc' = [tpc EXCEPT ![p][t] = stage]

Generate(p, t) ==
    /\ At(p, t, "idle") /\ draws < MaxDraws
    /\ draws' = draws + 1
    /\ Go(p, t, "lock")
    /\ UNCHANGED <<shared, world, local, ids>>

\* Mutation: the counter is read without the lock.
ReadIncUnlocked(p, t) ==
    /\ At(p, t, "lock")
    /\ local' = [local EXCEPT ![p][t] = [inc |-> inc[p], n |-> n[p]]]
    /\ Go(p, t, "store")
    /\ UNCHANGED <<shared, world, draws, ids>>

ReadInc(p, t) ==
    /\ At(p, t, "lock") /\ inc_lock[p] = "free"
    /\ inc_lock' = [inc_lock EXCEPT ![p] = t]
    /\ local' = [local EXCEPT ![p][t] = [inc |-> inc[p], n |-> n[p]]]
    /\ Go(p, t, "store")
    /\ UNCHANGED <<pid, random, inc, n, world, draws, ids>>

StoreInc(p, t) ==
    /\ At(p, t, "store")
    /\ inc' = [inc EXCEPT ![p] = (local[p][t].inc + 1) % Modulus]
    /\ n' = [n EXCEPT ![p] = local[p][t].n + 1]
    /\ inc_lock' = [inc_lock EXCEPT ![p] = "free"]
    /\ Go(p, t, "random")
    /\ UNCHANGED <<pid, random, world, local, draws, ids>>

\* Mutation: the random part is kept when the pid has changed.
TestPidNever(p, t) ==
    /\ At(p, t, "random")
    /\ Go(p, t, "use")
    /\ UNCHANGED <<shared, world, local, draws, ids>>

\* _random
TestPid(p, t) ==
    /\ At(p, t, "random")
    /\ Go(p, t, IF pid[p] # p THEN "set" ELSE "use")
    /\ UNCHANGED <<shared, world, local, draws, ids>>

SetPid(p, t) ==
    /\ At(p, t, "set")
    /\ pid' = [pid EXCEPT ![p] = p]
    /\ Go(p, t, "draw")
    /\ UNCHANGED <<random, inc, inc_lock, n, world, local, draws, ids>>

DrawRandom(p, t) ==
    /\ At(p, t, "draw")
    /\ random' = [random EXCEPT ![p] = birth[p]]
    /\ Go(p, t, "use")
    /\ UNCHANGED <<pid, inc, inc_lock, n, world, local, draws, ids>>

\* __random is read and the id put together
Issue(p, t) ==
    /\ At(p, t, "use")
    /\ ids' = ids \cup {[process |-> birth[p], thread |-> t, random |-> random[p],
                         n |-> local[p][t].n, inc |-> local[p][t].inc]}
    /\ local' = [local EXCEPT ![p][t] = NoFrame]
    /\ Go(p, t, "idle")
    /\ UNCHANGED <<shared, world, draws>>
-----------------------------------------------------------------------------
(***************************************************************************)
(* The operating system: a fork copies the memory and the calling thread;  *)
(* a lock another thread holds stays taken.  A pid may be used again.      *)
(***************************************************************************)
StartThread(p, t) ==
    /\ At(p, t, "none")
    /\ Go(p, t, "idle")
    /\ UNCHANGED <<shared, world, local, draws, ids>>

Fork(p, t, q) ==
    /\ At(p, t, "idle") /\ q \notin alive /\ births < MaxBirths
    /\ alive' = alive \cup {q}
    /\ births' = births + 1 /\ birth' = [birth EXCEPT ![q] = births + 1]
    /\ pid' = [pid EXCEPT ![q] = pid[p]] /\ recycled' = [recycled EXCEPT ![q] = (pid[p] = q)]
    /\ random' = [random EXCEPT ![q] = random[p]]
    /\ inc' = [inc EXCEPT ![q] = inc[p]] /\ n' = [n EXCEPT ![q] = n[p]]
    /\ inc_lock' = [inc_lock EXCEPT ![q] = IF inc_lock[p] = "free" THEN "free" ELSE "inherited"]
    /\ tpc' = [tpc EXCEPT ![q] = [u \in Threads |-> IF u = t THEN "idle" ELSE "none"]]
    /\ UNCHANGED <<local, draws, ids>>

Exit(p) ==
    /\ p \in alive /\ alive' = alive \ {p}
    /\ tpc' = [tpc EXCEPT ![p] = [u \in Threads |-> "none"]]
    /\ local' = [local EXCEPT ![p] = [u \in Threads |-> NoFrame]]
    /\ UNCHANGED <<shared, birth, recycled, births, draws, ids>>
-----------------------------------------------------------------------------
IdNext ==
    \/ \E p \in Pids, t \in Threads :
        \/ Generate(p, t) \/ ReadInc(p, t) \/ StoreInc(p, t) \/ TestPid(p, t)
        \/ SetPid(p, t) \/ DrawRandom(p, t) \/ Issue(p, t)
        \/ StartThread(p, t) \/ \E q \in Pids : Fork(p, t, q)
    \/ \E p \in Pids : Exit(p)

IdSpec == IdInit /\ [][IdNext]_idVars
-----------------------------------------------------------------------------
\* Two ids are equal only when the counter of their process has gone round between
\* them, or one of them has the random part of another process.
Foreign(i) == i.random # i.process
Round(i, j) == i.process = j.process /\ (i.n >= j.n + Modulus \/ j.n >= i.n + Modulus)
UniqueIds ==
    \A i, j \in ids :
        i # j /\ i.random = j.random /\ i.inc = j.inc => Round(i, j) \/ Foreign(i) \/ Foreign(j)

\* A process puts the random part of another into an id only while one of its
\* threads stands between lines 214 and 215, or when the pid it was born with is
\* the one its memory had drawn for.
StaleOnlyInWindow ==
    \A p \in alive, t \in Threads :
        tpc[p][t] = "use" /\ random[p] # birth[p] =>
            recycled[p] \/ \E u \in Threads : tpc[p][u] = "draw"
=============================================================================
