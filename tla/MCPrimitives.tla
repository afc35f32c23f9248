------------------------------ MODULE MCPrimitives ------------------------------
(***************************************************************************)
(* The queue, the locks and the ids share nothing: one run goes through     *)
(* them one at a time, and its states are the sum of theirs.                *)
(***************************************************************************)
EXTENDS Queue, Locks, ObjectId

VARIABLE part  \* the one that moves

allVars == <<vars, locksVars, idVars, part>>

\* what does not move has one initial state; which pid and which thread are the
\* first makes no difference
Still ==
    /\ part # "queue" => maxsize = 1 /\ item = [p \in Putters |-> CHOOSE i \in Items : TRUE]
    /\ part # "locks" => ~shut
    /\ part # "ids" => inc = [p \in Pids |-> 0]
    /\ LET p == CHOOSE p \in Pids : TRUE IN
        alive = {p} /\ tpc[p][CHOOSE t \in Threads : TRUE] = "idle"

MCInit == part \in {"queue", "locks", "ids"} /\ Init /\ LocksInit /\ IdInit /\ Still

QueueStep(A) == part = "queue" /\ A /\ UNCHANGED <<locksVars, idVars, part>>
LocksStep(A) == part = "locks" /\ A /\ UNCHANGED <<vars, idVars, part>>
IdStep(A)    == part = "ids" /\ A /\ UNCHANGED <<vars, locksVars, part>>

MCNext == QueueStep(Next) \/ LocksStep(LocksNext) \/ IdStep(IdNext)

\* the fairness of Queue and of Locks, each while it moves
MCSpec ==
    /\ MCInit /\ [][MCNext]_allVars
    /\ \A p \in Putters : WF_allVars(QueueStep(PutResume(p) \/ PutAgain(p)))
    /\ \A g \in Getters : WF_allVars(QueueStep(GetResume(g) \/ GetAgain(g)))
    /\ \A t \in Tasks : WF_allVars(LocksStep(Proceeds(t)))

\* The variables of the three modules keep their types.
TypesOK == TypeOK /\ LocksTypeOK /\ IdTypeOK
=============================================================================
