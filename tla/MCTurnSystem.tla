---------------------------- MODULE MCTurnSystem ----------------------------
(***************************************************************************)
(* One conversation, its turn, the worker that runs it and the sweep, for  *)
(* TLC.                                                                    *)
(***************************************************************************)
EXTENDS TurnSystem, TLC

CONSTANTS s1, t1, w1, sweep

MCOneWorker == [s \in Sessions |-> w1]

MCTimes == {-age : age \in 0..MaxAge}
=============================================================================
