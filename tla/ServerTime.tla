------------------------------ MODULE ServerTime ------------------------------
(***************************************************************************)
(* Time, for the modules in which it passes. Every party reads a clock and *)
(* hands the store what it read; only differences matter, so now is 0, a   *)
(* call that read its clock some ticks ago brings minus its age, and a     *)
(* tick takes one from every lease.                                        *)
(***************************************************************************)
EXTENDS TurnStore

CONSTANT
  MaxAge        \* the ticks a call may be on its way after it read the clock

ASSUME TimeAssumption ==
  /\ MaxAge \in Nat
  /\ Times = {-age : age \in 0..MaxAge}

\* A lease is compared with no time older than MaxAge ticks: past that it has lapsed for good.
Aged(lease) == IF lease < -MaxAge THEN lease ELSE lease - 1

\* The lease of a task done is read by nobody.
Forgotten == -MaxAge - 1

\* A tick, for the leases.
LeasesAge ==
  task' = [t \in Turns |->
    CASE task[t].state \in {"queued", "running"} -> [task[t] EXCEPT !.lease = Aged(@)]
      [] task[t].state = "done"                  -> [task[t] EXCEPT !.lease = Forgotten]
      [] OTHER                                   -> task[t]]
=============================================================================
