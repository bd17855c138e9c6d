---------------------------- MODULE MCOpenSession ----------------------------
(***************************************************************************)
(* One conversation of one worker and its turns, for TLC.                  *)
(***************************************************************************)
EXTENDS OpenSession, TLC

CONSTANTS s1, t1, t2, w1

MCOneWorker == [s \in Sessions |-> w1]

MCTurnSymmetry == Permutations(Turns)

MCTimes == {-age : age \in 0..MaxAge}
=============================================================================
