------------------------- MODULE MCRegisteredWaits --------------------------
(***************************************************************************)
(* Instance of RegisteredWaits: two waits for one event.                   *)
(***************************************************************************)
EXTENDS RegisteredWaits, TLC

CONSTANTS w1, w2, e1

SharedEvent == w1 :> e1 @@ w2 :> e1
=============================================================================
