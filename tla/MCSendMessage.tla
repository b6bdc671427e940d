---------------------------- MODULE MCSendMessage ----------------------------
(***************************************************************************)
(* Two UI threads with a window each.                                      *)
(***************************************************************************)
EXTENDS SendMessage, TLC

CONSTANTS a, b, wa, wb

WindowOwner == wa :> a @@ wb :> b
=============================================================================
