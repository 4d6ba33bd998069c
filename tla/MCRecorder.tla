----------------------------- MODULE MCRecorder -----------------------------
(* Instances of Recorder for TLC: two ticks on the first day, one on each   *)
(* day after.                                                               *)
EXTENDS Recorder

MCDayOf == [i \in Ids |-> IF i <= 2 THEN 1 ELSE i - 1]
=============================================================================
