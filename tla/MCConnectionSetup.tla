-------------------------- MODULE MCConnectionSetup --------------------------
(***************************************************************************)
(* Values for TLC: a ClientHello with a field of no bytes among its fields. *)
(***************************************************************************)
EXTENDS ConnectionSetup

Fields == <<1, 0, 2>>
=============================================================================
