----------------------------- MODULE ByteChannel -----------------------------
(***************************************************************************)
(* What a byte stream between one producer and its consumers promises,     *)
(* whatever buffers and waiters implement it.  The producer's bytes are    *)
(* numbered 1, 2, ...: the first `sent' of them have been handed over, and *)
(* the first `received' have come out, in order and without a gap.         *)
(***************************************************************************)
EXTENDS Naturals

CONSTANT GoesOn  \* whether the producer may hand over bytes after its end of file

VARIABLES sent,      \* how many bytes the producer has handed over
          received,  \* how many of them the consumers have got back
          closed,    \* the producer has signalled end of file
          told       \* a consumer has been told of the end of file

channel == <<sent, received, closed, told>>

Init == sent = 0 /\ received = 0 /\ closed = FALSE /\ told = FALSE

Send    == /\ closed => GoesOn
           /\ sent' \in Nat /\ sent' > sent
           /\ UNCHANGED <<received, closed, told>>

Receive == /\ received' \in Nat /\ received' > received /\ received' <= sent
           /\ UNCHANGED <<sent, closed, told>>

Close   == ~closed /\ closed' = TRUE /\ UNCHANGED <<sent, received, told>>

\* the end of file, alone or together with the last of the bytes there are
Finish  == /\ closed /\ ~told
           /\ received' = sent /\ told' = TRUE
           /\ UNCHANGED <<sent, closed>>

Next == Send \/ Receive \/ Close \/ Finish

Spec == Init /\ [][Next]_channel
=============================================================================
