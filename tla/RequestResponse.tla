--------------------------- MODULE RequestResponse ---------------------------
(***************************************************************************)
(* What a server promises to a client of one HTTP/1 connection: responses   *)
(* come one per request, in the order of the requests, and none begins      *)
(* before the one ahead of it is complete.                                  *)
(***************************************************************************)
EXTENDS Naturals

VARIABLES asked,     \* requests handed to the application
          begun,     \* responses whose head has been sent
          finished   \* responses sent to their end

Init == asked = 0 /\ begun = 0 /\ finished = 0

Request == asked = finished /\ asked' = asked + 1 /\ UNCHANGED <<begun, finished>>
Begin   == begun < asked /\ begun' = begun + 1 /\ UNCHANGED <<asked, finished>>
Finish  == finished < begun /\ finished' = finished + 1 /\ UNCHANGED <<asked, begun>>

Next == Request \/ Begin \/ Finish

Spec == Init /\ [][Next]_<<asked, begun, finished>>
=============================================================================
