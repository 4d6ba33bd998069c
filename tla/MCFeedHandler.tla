--------------------------- MODULE MCFeedHandler ---------------------------
(* Instances of FeedHandler for TLC.                                        *)
EXTENDS FeedHandler

\* Row 1 is of day 1, the rows up to LastOfDay2 of day 2, the others of day 3.
CONSTANT LastOfDay2
MCDayOf == [s \in Streams |-> [i \in Ids |->
              IF i = 1 THEN 1 ELSE IF i <= LastOfDay2 THEN 2 ELSE 3]]
=============================================================================
