---------------------------- MODULE ObjectIdProofs ----------------------------
(***************************************************************************)
(* Proofs about ObjectId: a process never puts the same value of its        *)
(* counter, before it is reduced, into two ids, and its random part is its  *)
(* own but for the window of _random and for a pid used again.              *)
(***************************************************************************)
EXTENDS ObjectId, Integers, TLAPS

(***************************************************************************)
(* Arithmetic of the counter's remainder.                                   *)
(***************************************************************************)
LEMMA Divided ==
    ASSUME NEW a \in Int, NEW m \in Int, m > 0
    PROVE  a \div m \in Int /\ a % m = a - m * (a \div m) /\ a % m \in 0 .. m - 1
  <1>1. a % m = a - m * (a \div m)
    BY Z3
  <1>2. a \div m \in Int /\ a % m \in 0 .. m - 1
    OBVIOUS
  <1>. QED  BY <1>1, <1>2

LEMMA SmallMultiple ==
    ASSUME NEW m \in Int, NEW k \in Int, m > 0, m * k < m, -m < m * k
    PROVE  k = 0
  <1>1. k <= 0
    OBVIOUS
  <1>2. k >= 0
    OBVIOUS
  <1>. QED  BY <1>1, <1>2

LEMMA Remainder ==
    ASSUME NEW a \in Int, NEW m \in Int, m > 0, NEW q \in Int, NEW r \in 0 .. m - 1,
           a = m * q + r
    PROVE  a % m = r
  <1>. DEFINE d == a \div m
  <1>1. d \in Int /\ a % m = a - m * d /\ a % m \in 0 .. m - 1
    BY Divided
  <1>2. m * (q - d) = m * q - m * d
    BY <1>1
  <1>3. q - d = 0
    <2>1. m * (q - d) = (a % m) - r
      BY <1>1, <1>2
    <2>. HIDE DEF d
    <2>. QED  BY <1>1, <2>1, SmallMultiple
  <1>. QED  BY <1>1, <1>3

\* Two numbers with the same remainder are the divisor apart.
LEMMA RemaindersApart ==
    ASSUME NEW a \in Int, NEW b \in Int, NEW m \in Int, m > 0, a < b, a % m = b % m
    PROVE  b >= a + m
  <1>. DEFINE c == a \div m
              d == b \div m
  <1>1. c \in Int /\ d \in Int /\ b - a = m * d - m * c
    BY Divided
  <1>2. m * (d - c) = m * d - m * c
    BY <1>1
  <1>. HIDE DEF c, d
  <1>. QED  BY <1>1, <1>2, SmallMultiple

LEMMA NextRemainder ==
    ASSUME NEW a \in Int, NEW m \in Int, m > 0
    PROVE  ((a % m) + 1) % m = (a + 1) % m
  <1>. DEFINE q == a \div m
              r == a % m
  <1>1. q \in Int /\ r \in 0 .. m - 1 /\ a = m * q + r
    BY Divided
  <1>. HIDE DEF q, r
  <1>2. CASE r + 1 < m
    BY <1>1, <1>2, Remainder, r + 1 = m * 0 + (r + 1), a + 1 = m * q + (r + 1)
  <1>3. CASE r + 1 = m
    BY <1>1, <1>3, Remainder, r + 1 = m * 1 + 0, a + 1 = m * (q + 1) + 0
  <1>4. (r + 1) % m = (a + 1) % m
    BY <1>1, <1>2, <1>3
  <1>. QED  BY <1>4 DEF r

(***************************************************************************)
(* The inductive invariant.                                                 *)
(***************************************************************************)
\* a process is named by its birth
Named == /\ \A p \in Pids : birth[p] <= births
         /\ \A p, q \in alive : birth[p] = birth[q] => p = q
         /\ \A i \in ids : i.process <= births

\* who stands between the read and the store holds the lock, and has read what is there
Holder ==
    /\ \A p \in Pids : inc[p] = n[p] % Modulus
    /\ \A p \in alive, t \in Threads : tpc[p][t] = "store" =>
            inc_lock[p] = t /\ local[p][t] = [inc |-> inc[p], n |-> n[p]]

\* a value of the counter is with one thread or in one id
Post == {"random", "set", "draw", "use"}
Drawn == \A p \in alive, t \in Threads : tpc[p][t] \in Post =>
            /\ local[p][t].n < n[p] /\ local[p][t].inc = local[p][t].n % Modulus
            /\ \A u \in Threads : tpc[p][u] \in Post /\ local[p][u].n = local[p][t].n => u = t
Issued ==
    /\ \A i \in ids : i.inc = i.n % Modulus
    /\ \A i, j \in ids : i.process = j.process /\ i.n = j.n => i = j
    /\ \A i \in ids, p \in alive : i.process = birth[p] =>
            /\ i.n < n[p]
            /\ \A t \in Threads : tpc[p][t] \in Post => local[p][t].n # i.n

\* the random part is another's only in the window, or with a pid used again
Window ==
    \A p \in alive :
        /\ pid[p] = p /\ random[p] # birth[p] =>
                recycled[p] \/ \E u \in Threads : tpc[p][u] = "draw"
        /\ \A t \in Threads : tpc[p][t] \in {"draw", "use"} => pid[p] = p

IdInv == IdTypeOK /\ Named /\ Holder /\ Drawn /\ Issued /\ Window

(***************************************************************************)
(* Every variable keeps its type.                                          *)
(***************************************************************************)
LEMMA IdTypeStep == IdInv /\ [IdNext]_idVars => IdTypeOK'
  <1>. SUFFICES ASSUME IdInv, [IdNext]_idVars PROVE IdTypeOK'
    OBVIOUS
  <1>. USE CounterAssumption, ThreadsAssumption DEF IdInv, IdTypeOK, Stages, Draw, NoFrame, Ids, Modulus
  <1>1. ASSUME NEW p \in Pids, NEW t \in Threads, Generate(p, t) PROVE IdTypeOK'
    BY <1>1 DEF Generate, At, Go, shared, world
  <1>2. ASSUME NEW p \in Pids, NEW t \in Threads, ReadInc(p, t) PROVE IdTypeOK'
    BY <1>2 DEF ReadInc, At, Go, shared, world
  <1>3. ASSUME NEW p \in Pids, NEW t \in Threads, StoreInc(p, t) PROVE IdTypeOK'
    BY <1>3 DEF StoreInc, At, Go, shared, world
  <1>4. ASSUME NEW p \in Pids, NEW t \in Threads, TestPid(p, t) PROVE IdTypeOK'
    BY <1>4 DEF TestPid, At, Go, shared, world
  <1>5. ASSUME NEW p \in Pids, NEW t \in Threads, SetPid(p, t) PROVE IdTypeOK'
    BY <1>5 DEF SetPid, At, Go, shared, world
  <1>6. ASSUME NEW p \in Pids, NEW t \in Threads, DrawRandom(p, t) PROVE IdTypeOK'
    BY <1>6 DEF DrawRandom, At, Go, shared, world
  <1>7. ASSUME NEW p \in Pids, NEW t \in Threads, Issue(p, t) PROVE IdTypeOK'
    BY <1>7 DEF Issue, At, Go, shared, world
  <1>8. ASSUME NEW p \in Pids, NEW t \in Threads, StartThread(p, t) PROVE IdTypeOK'
    BY <1>8 DEF StartThread, At, Go, shared, world
  <1>9. ASSUME NEW p \in Pids, NEW t \in Threads, NEW q \in Pids, Fork(p, t, q) PROVE IdTypeOK'
    BY <1>9 DEF Fork, At, Go, shared, world
  <1>10. ASSUME NEW p \in Pids, Exit(p) PROVE IdTypeOK'
    BY <1>10 DEF Exit, At, Go, shared, world
  <1>11. CASE UNCHANGED idVars
    BY <1>11 DEF idVars, shared, world
  <1>. QED  BY <1>1, <1>2, <1>3, <1>4, <1>5, <1>6, <1>7, <1>8, <1>9, <1>10, <1>11 DEF
        IdNext

(***************************************************************************)
(* A fork gives the child a name of its own.                               *)
(***************************************************************************)
LEMMA NamedStep == IdInv /\ [IdNext]_idVars => Named'
  <1>. SUFFICES ASSUME IdInv, [IdNext]_idVars PROVE Named'
    OBVIOUS
  <1>. USE DEF IdInv, IdTypeOK, Named, Ids
  <1>1. ASSUME NEW p \in Pids, NEW t \in Threads, Generate(p, t) PROVE Named'
    BY <1>1 DEF Generate, At, Go, shared, world
  <1>2. ASSUME NEW p \in Pids, NEW t \in Threads, ReadInc(p, t) PROVE Named'
    BY <1>2 DEF ReadInc, At, Go, shared, world
  <1>3. ASSUME NEW p \in Pids, NEW t \in Threads, StoreInc(p, t) PROVE Named'
    BY <1>3 DEF StoreInc, At, Go, shared, world
  <1>4. ASSUME NEW p \in Pids, NEW t \in Threads, TestPid(p, t) PROVE Named'
    BY <1>4 DEF TestPid, At, Go, shared, world
  <1>5. ASSUME NEW p \in Pids, NEW t \in Threads, SetPid(p, t) PROVE Named'
    BY <1>5 DEF SetPid, At, Go, shared, world
  <1>6. ASSUME NEW p \in Pids, NEW t \in Threads, DrawRandom(p, t) PROVE Named'
    BY <1>6 DEF DrawRandom, At, Go, shared, world
  <1>7. ASSUME NEW p \in Pids, NEW t \in Threads, Issue(p, t) PROVE Named'
    BY <1>7 DEF Issue, At, Go, shared, world
  <1>8. ASSUME NEW p \in Pids, NEW t \in Threads, StartThread(p, t) PROVE Named'
    BY <1>8 DEF StartThread, At, Go, shared, world
  <1>9. ASSUME NEW p \in Pids, NEW t \in Threads, NEW q \in Pids, Fork(p, t, q) PROVE Named'
    BY <1>9 DEF Fork, At, Go, shared, world
  <1>10. ASSUME NEW p \in Pids, Exit(p) PROVE Named'
    BY <1>10 DEF Exit, At, Go, shared, world
  <1>11. CASE UNCHANGED idVars
    BY <1>11 DEF idVars, shared, world
  <1>. QED  BY <1>1, <1>2, <1>3, <1>4, <1>5, <1>6, <1>7, <1>8, <1>9, <1>10, <1>11 DEF
        IdNext

(***************************************************************************)
(* What a thread at the store has, and what it leaves behind.              *)
(***************************************************************************)
LEMMA Stored ==
    ASSUME IdInv, NEW p \in Pids, NEW t \in Threads, StoreInc(p, t)
    PROVE  /\ p \in alive /\ tpc[p][t] = "store" /\ inc_lock[p] = t
           /\ local[p][t].n = n[p] /\ local[p][t].inc = n[p] % Modulus
           /\ \A x \in Pids, u \in Threads :
                tpc'[x][u] = IF x = p /\ u = t THEN "random" ELSE tpc[x][u]
           /\ n'[p] = n[p] + 1 /\ inc'[p] = n'[p] % Modulus
           /\ \A x \in Pids : x # p => /\ n'[x] = n[x] /\ inc'[x] = inc[x]
                                    /\ inc_lock'[x] = inc_lock[x]
           /\ \A u \in Threads : tpc[p][u] = "store" => u = t
           /\ UNCHANGED <<local, ids, alive, birth>>
  <1>1. p \in alive /\ tpc[p][t] = "store" /\ UNCHANGED <<local, ids, alive, birth>>
    BY DEF StoreInc, At, world
  <1>2. inc_lock[p] = t /\ local[p][t] = [inc |-> inc[p], n |-> n[p]] /\ inc[p] = n[p] % Modulus
    BY <1>1 DEF IdInv, Holder
  <1>3. local[p][t].n = n[p] /\ local[p][t].inc = n[p] % Modulus
    BY <1>2
  <1>4. \A x \in Pids, u \in Threads :
            tpc'[x][u] = IF x = p /\ u = t THEN "random" ELSE tpc[x][u]
    BY DEF StoreInc, Go, IdInv, IdTypeOK
  <1>5. /\ n'[p] = n[p] + 1 /\ inc'[p] = ((n[p] % Modulus) + 1) % Modulus
        /\ \A x \in Pids : x # p => /\ n'[x] = n[x] /\ inc'[x] = inc[x]
                                 /\ inc_lock'[x] = inc_lock[x]
    BY <1>3 DEF StoreInc, IdInv, IdTypeOK
  <1>6. ((n[p] % Modulus) + 1) % Modulus = (n[p] + 1) % Modulus
    <2>1. n[p] \in Int /\ Modulus \in Int /\ Modulus > 0
      BY CounterAssumption DEF IdInv, IdTypeOK, Modulus
    <2>. QED  BY <2>1, NextRemainder
  <1>7. \A u \in Threads : tpc[p][u] = "store" => u = t
    BY <1>1, <1>2 DEF IdInv, Holder
  <1>. QED  BY <1>1, <1>2, <1>3, <1>4, <1>5, <1>6, <1>7

(***************************************************************************)
(* The lock keeps the read and the store together.                         *)
(***************************************************************************)
LEMMA HolderStep == IdInv /\ [IdNext]_idVars => Holder'
  <1>. SUFFICES ASSUME IdInv, [IdNext]_idVars PROVE Holder'
    OBVIOUS
  <1>2. ASSUME NEW p \in Pids, NEW t \in Threads, ReadInc(p, t) PROVE Holder'
    <2>1. /\ \A x \in Pids, u \in Threads :
                tpc'[x][u] = IF x = p /\ u = t THEN "store" ELSE tpc[x][u]
          /\ \A x \in Pids, u \in Threads : x # p \/ u # t => local'[x][u] = local[x][u]
          /\ local'[p][t] = [inc |-> inc[p], n |-> n[p]]
          /\ inc_lock'[p] = t /\ \A x \in Pids : x # p => inc_lock'[x] = inc_lock[x]
          /\ inc_lock[p] = "free" /\ UNCHANGED <<inc, n, alive>>
      BY <1>2 DEF ReadInc, At, Go, world, IdInv, IdTypeOK
    <2>2. p \in alive => \A u \in Threads : tpc[p][u] # "store"
      BY <2>1, ThreadsAssumption DEF IdInv, Holder
    <2>3. alive \subseteq Pids
      BY DEF IdInv, IdTypeOK
    <2>4. \A x \in alive', u \in Threads : tpc'[x][u] = "store" =>
              inc_lock'[x] = u /\ local'[x][u] = [inc |-> inc'[x], n |-> n'[x]]
      BY <2>1, <2>2, <2>3 DEF IdInv, Holder
    <2>. QED  BY <2>1, <2>4 DEF IdInv, Holder
  <1>3. ASSUME NEW p \in Pids, NEW t \in Threads, StoreInc(p, t) PROVE Holder'
    <2>1. \A x \in Pids : inc'[x] = n'[x] % Modulus
      BY <1>3, Stored DEF IdInv, Holder
    <2>2. alive \subseteq Pids
      BY DEF IdInv, IdTypeOK
    <2>3. \A x \in alive', u \in Threads : tpc'[x][u] = "store" =>
              /\ x # p /\ x \in alive /\ tpc[x][u] = "store"
              /\ n'[x] = n[x] /\ inc'[x] = inc[x] /\ inc_lock'[x] = inc_lock[x]
              /\ local'[x] = local[x]
      BY <1>3, <2>2, Stored
    <2>. QED  BY <2>1, <2>3 DEF IdInv, Holder
  <1>. USE CounterAssumption, ThreadsAssumption DEF IdInv, IdTypeOK, Holder, Stages, Draw
  <1>1. ASSUME NEW p \in Pids, NEW t \in Threads, Generate(p, t) PROVE Holder'
    BY <1>1 DEF Generate, At, Go, shared, world
  <1>4. ASSUME NEW p \in Pids, NEW t \in Threads, TestPid(p, t) PROVE Holder'
    BY <1>4 DEF TestPid, At, Go, shared, world
  <1>5. ASSUME NEW p \in Pids, NEW t \in Threads, SetPid(p, t) PROVE Holder'
    BY <1>5 DEF SetPid, At, Go, shared, world
  <1>6. ASSUME NEW p \in Pids, NEW t \in Threads, DrawRandom(p, t) PROVE Holder'
    BY <1>6 DEF DrawRandom, At, Go, shared, world
  <1>7. ASSUME NEW p \in Pids, NEW t \in Threads, Issue(p, t) PROVE Holder'
    BY <1>7 DEF Issue, At, Go, shared, world
  <1>8. ASSUME NEW p \in Pids, NEW t \in Threads, StartThread(p, t) PROVE Holder'
    BY <1>8 DEF StartThread, At, Go, shared, world
  <1>9. ASSUME NEW p \in Pids, NEW t \in Threads, NEW q \in Pids, Fork(p, t, q) PROVE Holder'
    BY <1>9 DEF Fork, At, Go, shared, world
  <1>10. ASSUME NEW p \in Pids, Exit(p) PROVE Holder'
    BY <1>10 DEF Exit, At, Go, shared, world
  <1>11. CASE UNCHANGED idVars
    BY <1>11 DEF idVars, shared, world
  <1>. QED  BY <1>1, <1>2, <1>3, <1>4, <1>5, <1>6, <1>7, <1>8, <1>9, <1>10, <1>11 DEF
        IdNext

(***************************************************************************)
(* A drawn value is with one thread.                                       *)
(***************************************************************************)
LEMMA DrawnStep == IdInv /\ [IdNext]_idVars => Drawn'
  <1>. SUFFICES ASSUME IdInv, [IdNext]_idVars PROVE Drawn'
    OBVIOUS
  <1>3. ASSUME NEW p \in Pids, NEW t \in Threads, StoreInc(p, t) PROVE Drawn'
    <2>. DEFINE Facts == /\ p \in alive /\ tpc[p][t] = "store" /\ local[p][t].n = n[p]
                         /\ local[p][t].inc = n[p] % Modulus
                         /\ \A x \in Pids, u \in Threads :
                              tpc'[x][u] = IF x = p /\ u = t THEN "random" ELSE tpc[x][u]
                         /\ n'[p] = n[p] + 1 /\ \A x \in Pids : x # p => n'[x] = n[x]
                         /\ UNCHANGED <<local, ids, alive, birth>>
    <2>1. Facts
      BY <1>3, Stored
    <2>2. /\ alive \subseteq Pids /\ n \in [Pids -> Nat]
          /\ \A x \in Pids, u \in Threads : local[x][u].n \in Nat
      BY DEF IdInv, IdTypeOK, Draw
    <2>3. \A x \in alive, u \in Threads :
              tpc'[x][u] \in Post => tpc[x][u] \in Post \/ (x = p /\ u = t)
      BY <2>1, <2>2
    <2>. QED  BY <2>1, <2>2, <2>3 DEF IdInv, Drawn
  <1>. USE CounterAssumption DEF IdInv, IdTypeOK, Holder, Drawn, Post, Stages, Draw
  <1>1. ASSUME NEW p \in Pids, NEW t \in Threads, Generate(p, t) PROVE Drawn'
    BY <1>1 DEF Generate, At, Go, shared, world
  <1>2. ASSUME NEW p \in Pids, NEW t \in Threads, ReadInc(p, t) PROVE Drawn'
    BY <1>2 DEF ReadInc, At, Go, shared, world
  <1>4. ASSUME NEW p \in Pids, NEW t \in Threads, TestPid(p, t) PROVE Drawn'
    BY <1>4 DEF TestPid, At, Go, shared, world
  <1>5. ASSUME NEW p \in Pids, NEW t \in Threads, SetPid(p, t) PROVE Drawn'
    BY <1>5 DEF SetPid, At, Go, shared, world
  <1>6. ASSUME NEW p \in Pids, NEW t \in Threads, DrawRandom(p, t) PROVE Drawn'
    BY <1>6 DEF DrawRandom, At, Go, shared, world
  <1>7. ASSUME NEW p \in Pids, NEW t \in Threads, Issue(p, t) PROVE Drawn'
    BY <1>7 DEF Issue, At, Go, shared, world
  <1>8. ASSUME NEW p \in Pids, NEW t \in Threads, StartThread(p, t) PROVE Drawn'
    BY <1>8 DEF StartThread, At, Go, shared, world
  <1>9. ASSUME NEW p \in Pids, NEW t \in Threads, NEW q \in Pids, Fork(p, t, q) PROVE Drawn'
    BY <1>9 DEF Fork, At, Go, shared, world
  <1>10. ASSUME NEW p \in Pids, Exit(p) PROVE Drawn'
    BY <1>10 DEF Exit, At, Go, shared, world
  <1>11. CASE UNCHANGED idVars
    BY <1>11 DEF idVars, shared, world
  <1>. QED  BY <1>1, <1>2, <1>3, <1>4, <1>5, <1>6, <1>7, <1>8, <1>9, <1>10, <1>11 DEF
        IdNext

(***************************************************************************)
(* A value is issued once.                                                 *)
(***************************************************************************)
LEMMA IssuedStep == IdInv /\ [IdNext]_idVars => Issued'
  <1>. SUFFICES ASSUME IdInv, [IdNext]_idVars PROVE Issued'
    OBVIOUS
  <1>3. ASSUME NEW p \in Pids, NEW t \in Threads, StoreInc(p, t) PROVE Issued'
    <2>. DEFINE Facts == /\ p \in alive /\ tpc[p][t] = "store" /\ local[p][t].n = n[p]
                         /\ local[p][t].inc = n[p] % Modulus
                         /\ \A x \in Pids, u \in Threads :
                              tpc'[x][u] = IF x = p /\ u = t THEN "random" ELSE tpc[x][u]
                         /\ n'[p] = n[p] + 1 /\ \A x \in Pids : x # p => n'[x] = n[x]
                         /\ UNCHANGED <<local, ids, alive, birth>>
    <2>1. Facts
      BY <1>3, Stored
    <2>2. /\ alive \subseteq Pids /\ n \in [Pids -> Nat]
          /\ \A x \in Pids, u \in Threads : local[x][u].n \in Nat
      BY DEF IdInv, IdTypeOK, Draw
    <2>3. \A x \in alive, u \in Threads :
              tpc'[x][u] \in Post => tpc[x][u] \in Post \/ (x = p /\ u = t)
      BY <2>1, <2>2
    <2>4. \A i \in ids : i.n \in Nat
      BY DEF IdInv, IdTypeOK, Ids
    <2>. QED  BY <2>1, <2>2, <2>3, <2>4 DEF IdInv, Issued
  <1>. USE CounterAssumption DEF IdInv, IdTypeOK, Named, Holder, Drawn, Issued, Post, Stages, Draw, Ids
  <1>1. ASSUME NEW p \in Pids, NEW t \in Threads, Generate(p, t) PROVE Issued'
    BY <1>1 DEF Generate, At, Go, shared, world
  <1>2. ASSUME NEW p \in Pids, NEW t \in Threads, ReadInc(p, t) PROVE Issued'
    BY <1>2 DEF ReadInc, At, Go, shared, world
  <1>4. ASSUME NEW p \in Pids, NEW t \in Threads, TestPid(p, t) PROVE Issued'
    BY <1>4 DEF TestPid, At, Go, shared, world
  <1>5. ASSUME NEW p \in Pids, NEW t \in Threads, SetPid(p, t) PROVE Issued'
    BY <1>5 DEF SetPid, At, Go, shared, world
  <1>6. ASSUME NEW p \in Pids, NEW t \in Threads, DrawRandom(p, t) PROVE Issued'
    BY <1>6 DEF DrawRandom, At, Go, shared, world
  <1>7. ASSUME NEW p \in Pids, NEW t \in Threads, Issue(p, t) PROVE Issued'
    BY <1>7 DEF Issue, At, Go, shared, world
  <1>8. ASSUME NEW p \in Pids, NEW t \in Threads, StartThread(p, t) PROVE Issued'
    BY <1>8 DEF StartThread, At, Go, shared, world
  <1>9. ASSUME NEW p \in Pids, NEW t \in Threads, NEW q \in Pids, Fork(p, t, q) PROVE Issued'
    BY <1>9 DEF Fork, At, Go, shared, world
  <1>10. ASSUME NEW p \in Pids, Exit(p) PROVE Issued'
    BY <1>10 DEF Exit, At, Go, shared, world
  <1>11. CASE UNCHANGED idVars
    BY <1>11 DEF idVars, shared, world
  <1>. QED  BY <1>1, <1>2, <1>3, <1>4, <1>5, <1>6, <1>7, <1>8, <1>9, <1>10, <1>11 DEF
        IdNext

(***************************************************************************)
(* A thread finds another's random part with its own pid only in the       *)
(* window.                                                                 *)
(***************************************************************************)
LEMMA WindowStep == IdInv /\ [IdNext]_idVars => Window'
  <1>. SUFFICES ASSUME IdInv, [IdNext]_idVars PROVE Window'
    OBVIOUS
  <1>9. ASSUME NEW p \in Pids, NEW t \in Threads, NEW q \in Pids, Fork(p, t, q) PROVE Window'
    <2>1. p \in alive /\ q \notin alive /\ alive' = alive \cup {q}
      BY <1>9 DEF Fork, At
    <2>2. \A x \in Pids : x # q => /\ tpc'[x] = tpc[x] /\ pid'[x] = pid[x]
                                  /\ random'[x] = random[x] /\ birth'[x] = birth[x]
                                  /\ recycled'[x] = recycled[x]
      BY <1>9 DEF Fork, IdInv, IdTypeOK
    <2>3. /\ pid'[q] = q => recycled'[q]
          /\ \A u \in Threads : tpc'[q][u] \in {"idle", "none"}
      BY <1>9 DEF Fork, IdInv, IdTypeOK
    <2>4. \A x \in alive' : x # q => x \in alive /\ x \in Pids
      BY <2>1 DEF IdInv, IdTypeOK
    <2>5. \A x \in alive' : x # q =>
              /\ pid'[x] = x /\ random'[x] # birth'[x] =>
                      recycled'[x] \/ \E u \in Threads : tpc'[x][u] = "draw"
              /\ \A u \in Threads : tpc'[x][u] \in {"draw", "use"} => pid'[x] = x
      BY <2>2, <2>4 DEF IdInv, Window
    <2>. QED  BY <2>3, <2>5 DEF Window
  <1>. USE DEF IdInv, IdTypeOK, Window, Stages
  <1>1. ASSUME NEW p \in Pids, NEW t \in Threads, Generate(p, t) PROVE Window'
    BY <1>1 DEF Generate, At, Go, shared, world
  <1>2. ASSUME NEW p \in Pids, NEW t \in Threads, ReadInc(p, t) PROVE Window'
    BY <1>2 DEF ReadInc, At, Go, shared, world
  <1>3. ASSUME NEW p \in Pids, NEW t \in Threads, StoreInc(p, t) PROVE Window'
    BY <1>3 DEF StoreInc, At, Go, shared, world
  <1>4. ASSUME NEW p \in Pids, NEW t \in Threads, TestPid(p, t) PROVE Window'
    BY <1>4 DEF TestPid, At, Go, shared, world
  <1>5. ASSUME NEW p \in Pids, NEW t \in Threads, SetPid(p, t) PROVE Window'
    BY <1>5 DEF SetPid, At, Go, shared, world
  <1>6. ASSUME NEW p \in Pids, NEW t \in Threads, DrawRandom(p, t) PROVE Window'
    BY <1>6 DEF DrawRandom, At, Go, shared, world
  <1>7. ASSUME NEW p \in Pids, NEW t \in Threads, Issue(p, t) PROVE Window'
    BY <1>7 DEF Issue, At, Go, shared, world
  <1>8. ASSUME NEW p \in Pids, NEW t \in Threads, StartThread(p, t) PROVE Window'
    BY <1>8 DEF StartThread, At, Go, shared, world
  <1>10. ASSUME NEW p \in Pids, Exit(p) PROVE Window'
    BY <1>10 DEF Exit, At, Go, shared, world
  <1>11. CASE UNCHANGED idVars
    BY <1>11 DEF idVars, shared, world
  <1>. QED  BY <1>1, <1>2, <1>3, <1>4, <1>5, <1>6, <1>7, <1>8, <1>9, <1>10, <1>11 DEF
        IdNext

(***************************************************************************)
(* The invariant holds of every behaviour, for any number of pids and      *)
(* threads, any counter and any bounds.                                    *)
(***************************************************************************)
THEOREM IdInvariant == IdSpec => []IdInv
  <1>1. IdInit => IdInv
    <2>. SUFFICES ASSUME IdInit PROVE IdInv
      OBVIOUS
    <2>. USE CounterAssumption DEF IdInit, NoFrame
    <2>1. IdTypeOK
      BY DEF IdTypeOK, Stages, Draw
    <2>2. Named /\ Drawn /\ Issued /\ Window
      BY DEF Named, Drawn, Post, Issued, Window
    <2>3. Holder
      <3>1. \A c \in 0 .. MaxCounterValue : c = Modulus * 0 + c /\ c % Modulus = c
        BY Remainder DEF Modulus
      <3>. QED  BY <3>1 DEF Holder
    <2>. QED  BY <2>1, <2>2, <2>3 DEF IdInv
  <1>2. IdInv /\ [IdNext]_idVars => IdInv'
    BY IdTypeStep, NamedStep, HolderStep, DrawnStep, IssuedStep, WindowStep DEF IdInv
  <1>. QED  BY <1>1, <1>2, PTL DEF IdSpec

(***************************************************************************)
(* Every variable keeps its type.                                          *)
(***************************************************************************)
THEOREM IdType == IdSpec => []IdTypeOK
  <1>1. IdInv => IdTypeOK
    BY DEF IdInv
  <1>. QED  BY <1>1, IdInvariant, PTL

(***************************************************************************)
(* Two ids are equal only after the counter of their process has gone      *)
(* round, or when one has the random part of another process.              *)
(***************************************************************************)
THEOREM IdsAreUnique == IdSpec => []UniqueIds
  <1>1. ASSUME IdInv PROVE UniqueIds
    <2>. SUFFICES ASSUME NEW i \in ids, NEW j \in ids, i # j, i.random = j.random, i.inc = j.inc,
                         ~Foreign(i), ~Foreign(j)
                  PROVE  Round(i, j)
      BY DEF UniqueIds
    <2>1. /\ i.process = j.process /\ i.n # j.n /\ i.n \in Int /\ j.n \in Int
          /\ i.n % Modulus = j.n % Modulus
      BY <1>1 DEF IdInv, IdTypeOK, Issued, Foreign, Ids
    <2>2. Modulus \in Int /\ Modulus > 0
      BY CounterAssumption DEF Modulus
    <2>3. CASE i.n < j.n
      BY <2>1, <2>2, <2>3, RemaindersApart DEF Round
    <2>4. CASE j.n < i.n
      BY <2>1, <2>2, <2>4, RemaindersApart DEF Round
    <2>. QED  BY <2>1, <2>3, <2>4
  <1>. QED  BY <1>1, IdInvariant, PTL

(***************************************************************************)
(* Another process's random part gets into an id only through the window   *)
(* of _random or through a pid used again.                                 *)
(***************************************************************************)
THEOREM StaleHasItsReasons == IdSpec => []StaleOnlyInWindow
  <1>1. IdInv => StaleOnlyInWindow
    BY DEF IdInv, Window, StaleOnlyInWindow
  <1>. QED  BY <1>1, IdInvariant, PTL
=============================================================================
