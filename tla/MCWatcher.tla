------------------------------ MODULE MCWatcher ------------------------------
(***************************************************************************)
(* One conversation of one worker and its turns, for TLC.                  *)
(***************************************************************************)
EXTENDS Watcher, TLC

CONSTANTS s1, t1, t2, w1

MCOneWorker == [s \in Sessions |-> w1]

MCTimes == {-age : age \in 0..MaxAge}
=============================================================================
