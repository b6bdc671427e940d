------------------------------ MODULE MCMsgQueue ------------------------------
(***************************************************************************)
(* Two windows; a posted message for each, a plain timer and a timer with  *)
(* TIMERPROC of the first.                                                 *)
(***************************************************************************)
EXTENDS MsgQueue

CONSTANTS w1, w2, p1, p2, tick, proc

MCWindowOf == [c \in {p1, p2, tick, proc} |-> IF c = p2 THEN w2 ELSE w1]
===============================================================================
