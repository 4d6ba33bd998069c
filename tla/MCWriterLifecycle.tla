------------------------- MODULE MCWriterLifecycle -------------------------
(* Instances of WriterLifecycle for TLC: one trade of each symbol a day     *)
(* before the writer's first, PerDay from then on, and of each quote stream *)
(* the last MaxDay rows, one a day.                                         *)
EXTENDS WriterLifecycle

CONSTANT PerDay
MCDayOf == [s \in Streams |-> [i \in Ids |->
              IF s \in Quotes THEN Max({1, i - (MaxId - MaxDay)})
              ELSE IF i < FirstDay THEN i ELSE FirstDay + (i - FirstDay) \div PerDay]]
=============================================================================
