----------------------------- MODULE MCTurnStore -----------------------------
(***************************************************************************)
(* Two turns over two conversations, each of its own worker, for TLC: both *)
(* turns may be one conversation's; a claim may take one worker's tasks    *)
(* alone, and a purge one conversation's records alone. The times 0 and 2  *)
(* come in any order: a running task's lease of 1 is held at the one and   *)
(* has lapsed at the other, and a queued one's of 2 ends exactly then.     *)
(***************************************************************************)
EXTENDS TurnStore, TLC

CONSTANTS s1, s2, t1, t2, w1, w2

MCTwoWorkers == s1 :> w1 @@ s2 :> w2

MCSame == s1 :> s1 @@ s2 :> s2 @@ w1 :> w1 @@ w2 :> w2

\* A conversation is swapped together with its worker, which leaves WorkerOf as it is.
MCSwapped == s1 :> s2 @@ s2 :> s1 @@ w1 :> w2 @@ w2 :> w1

MCSymmetry ==
  {turns @@ others : turns \in Permutations(Turns), others \in {MCSame, MCSwapped}}
=============================================================================
